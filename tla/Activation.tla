----------------------------- MODULE Activation -----------------------------
(***************************************************************************)
(* Starting services on request (bus/activation.c): StartServiceByName and *)
(* messages for a name nobody owns wait in a pending activation while the  *)
(* daemon runs the command of the name's service file, and are answered or *)
(* delivered when the name appears, the command fails or time is up.       *)
(*                                                                         *)
(* One action is one handler, one callback of the main loop or one step of *)
(* the outside world.  A request is an element of Reqs, made at most once; *)
(* the pending activation of a name is the set of requests waiting for it. *)
(* Service files come and go, so whether a name has one is open every time *)
(* it is looked up; whether the policy lets a waiting message through to   *)
(* the service is open too.  Memory running out for a connection that is   *)
(* already closed is only modelled for the request itself.                 *)
(***************************************************************************)
EXTENDS Integers, FiniteSets

CONSTANTS
  Conns,       \* connections
  NoConn,      \* no owner
  Names,       \* names that can be activated
  ExecOf,      \* ExecOf[n]: the command line in the service file of n
  Reqs,        \* requests
  ConnOf,      \* ConnOf[r]: the connection that makes r
  NameOf,      \* NameOf[r]: the name r is about
  Automatic,   \* requests that are messages to be delivered, not StartServiceByName
  MaxPending   \* max_pending_activations

ASSUME ActivationAssumption ==
  /\ NoConn \notin Conns
  /\ ConnOf \in [Reqs -> Conns] /\ NameOf \in [Reqs -> Names]
  /\ IsFiniteSet(Reqs) /\ Automatic \subseteq Reqs
  /\ MaxPending \in Nat \ {0}

VARIABLES
  connected,   \* connections whose transport is up
  owner,       \* the primary owner of each name
  made,        \* requests made so far
  waiting,     \* requests in the entries of a pending activation
  n_pending,   \* activation->n_pending_activations
  sitter,      \* the babysitter of the pending activation of a name
  outcome,     \* answers and deliveries of a request so far; 2 stands for more
  forgotten,   \* requests whose entries were thrown away
  troubled     \* requests that were answered, or may have been, and kept

vars == <<connected, owner, made, waiting, n_pending, sitter, outcome, forgotten, troubled>>

SitterStates == {"none", "running", "exited"}

-----------------------------------------------------------------------------
Entries(n) == {r \in waiting : NameOf[r] = n}

Activating(n) == Entries(n) # {}

\* Another pending activation runs the same command already.
Activated(n) == \E m \in Names \ {n} : Activating(m) /\ ExecOf[m] = ExecOf[n]

\* Each request of R gets an answer or is delivered, if its sender is there.
Conclude(R) ==
  outcome' = [r \in Reqs |-> IF r \in R /\ ConnOf[r] \in connected /\ outcome[r] < 2
                             THEN outcome[r] + 1 ELSE outcome[r]]

\* Mutant: the count goes down by one whatever the number of entries.
DropOne(N) ==
  /\ waiting' = {r \in waiting : NameOf[r] \notin N}
  /\ n_pending' = n_pending - Cardinality({n \in N : Activating(n)})
  /\ sitter' = [n \in Names |-> IF n \in N THEN "none" ELSE sitter[n]]

\* The pending activations of N are freed: bus_pending_activation_unref.
Drop(N) ==
  /\ waiting' = {r \in waiting : NameOf[r] \notin N}
  /\ n_pending' = n_pending - Cardinality({r \in waiting : NameOf[r] \in N})
  /\ sitter' = [n \in Names |-> IF n \in N THEN "none" ELSE sitter[n]]

\* The request becomes an entry, of a new pending activation if there is none.
Wait(r, s) ==
  /\ waiting' = waiting \cup {r}
  /\ n_pending' = n_pending + 1
  /\ sitter' = [sitter EXCEPT ![NameOf[r]] = s]

-----------------------------------------------------------------------------
Init ==
  /\ connected = Conns
  /\ owner = [n \in Names |-> NoConn]
  /\ made = {}
  /\ waiting = {}
  /\ n_pending = 0
  /\ sitter = [n \in Names |-> "none"]
  /\ outcome = [r \in Reqs |-> 0]
  /\ forgotten = {}
  /\ troubled = {}

Request(r) ==
  /\ r \notin made
  /\ r \in Automatic => owner[NameOf[r]] = NoConn
  /\ made' = made \cup {r}
  /\ UNCHANGED <<connected, owner>>

\* Answered at once: with ALREADY_RUNNING, or with an error because the limit is
\* reached, there is no service file, its command cannot be parsed (the pending
\* activation is removed again) or memory ran out and nobody else was waiting.
ActivateAnswered(r) ==
  /\ Request(r)
  /\ Conclude({r})
  /\ UNCHANGED <<waiting, n_pending, sitter, forgotten, troubled>>

MayWait(r) ==
  /\ n_pending < MaxPending
  /\ r \in Automatic \/ owner[NameOf[r]] = NoConn

\* The name is being started, or the command of another name is.
ActivateJoin(r) ==
  /\ Request(r) /\ MayWait(r)
  /\ Activating(NameOf[r]) \/ Activated(NameOf[r])
  /\ Wait(r, sitter[NameOf[r]])
  /\ UNCHANGED <<outcome, forgotten, troubled>>

MustSpawn(n) == ~Activating(n) /\ ~Activated(n)

ActivateSpawn(r) ==
  /\ Request(r) /\ MayWait(r) /\ MustSpawn(NameOf[r])
  /\ Wait(r, "running")
  /\ UNCHANGED <<outcome, forgotten, troubled>>

\* The child cannot be started, or the service file names no user: an error is
\* returned and the pending activation stays.
ActivateSpawnFails(r) ==
  /\ Request(r) /\ MayWait(r) /\ MustSpawn(NameOf[r])
  /\ Wait(r, "none")
  /\ Conclude({r})
  /\ troubled' = troubled \cup {r}
  /\ UNCHANGED forgotten

\* Memory runs out when others wait for the name: the cancel hook, or the failure
\* to add it, removes the pending activation with all its entries.
ActivateJoinOom(r) ==
  /\ Request(r) /\ MayWait(r) /\ Activating(NameOf[r])
  /\ Drop({NameOf[r]})
  /\ Conclude({r})
  /\ forgotten' = forgotten \cup Entries(NameOf[r])
  /\ UNCHANGED troubled

\* The same for a sender that has gone: its transaction is not cancelled.
ActivateGoneOom(r) ==
  /\ Request(r) /\ MayWait(r) /\ MustSpawn(NameOf[r])
  /\ ConnOf[r] \notin connected
  /\ \E s \in {"none", "running"} : Wait(r, s)
  /\ UNCHANGED <<outcome, forgotten, troubled>>

-----------------------------------------------------------------------------
(***************************************************************************)
(* The name appears.  StartServiceByName is answered when the service is   *)
(* created; then the messages are delivered.  If memory runs out on the    *)
(* way, the cancel hooks undo all of it.                                   *)
(***************************************************************************)
Created(n) == IF owner[n] = NoConn THEN Entries(n) \ Automatic ELSE {}

\* Mutant: the pending activation stays in the hash table.
AcquireNameKept(c, n) ==
  /\ c \in connected
  /\ owner' = [owner EXCEPT ![n] = IF @ = NoConn THEN c ELSE @]
  /\ Conclude(Created(n) \cup (Entries(n) \cap Automatic))
  /\ UNCHANGED <<connected, made, waiting, n_pending, sitter, forgotten, troubled>>

AcquireName(c, n) ==
  /\ c \in connected
  /\ owner' = [owner EXCEPT ![n] = IF @ = NoConn THEN c ELSE @]
  /\ Conclude(Created(n) \cup (Entries(n) \cap Automatic))
  /\ Drop({n})
  /\ UNCHANGED <<connected, made, forgotten, troubled>>

\* A message is refused by the policy or a limit.  The error goes to the owner,
\* what was sent before it stays sent and the pending activation stays.
AcquireNameRefused(c, n) ==
  /\ c \in connected
  /\ \E r \in Entries(n) \cap Automatic :
       /\ ConnOf[r] \in connected
       /\ \E before \in SUBSET ((Entries(n) \cap Automatic) \ {r}) : Conclude(Created(n) \cup before)
  /\ owner' = [owner EXCEPT ![n] = IF @ = NoConn THEN c ELSE @]
  /\ troubled' = troubled \cup Entries(n)
  /\ UNCHANGED <<connected, made, waiting, n_pending, sitter, forgotten>>

LoseName(n) ==
  /\ owner[n] # NoConn
  /\ owner' = [owner EXCEPT ![n] = NoConn]
  /\ UNCHANGED <<connected, made, waiting, n_pending, sitter, outcome, forgotten, troubled>>

-----------------------------------------------------------------------------
(***************************************************************************)
(* The name does not appear.                                               *)
(***************************************************************************)
Fail(N) ==
  /\ Conclude({r \in waiting : NameOf[r] \in N})
  /\ Drop(N)
  /\ UNCHANGED <<connected, owner, made, forgotten, troubled>>

ChildExits(n) ==
  /\ sitter[n] = "running"
  /\ sitter' = [sitter EXCEPT ![n] = "exited"]
  /\ UNCHANGED <<connected, owner, made, waiting, n_pending, outcome, forgotten, troubled>>

\* Everyone who waits for the same command fails.
Babysitter(n) ==
  /\ sitter[n] = "exited"
  /\ Fail({m \in Names : ExecOf[m] = ExecOf[n]})

\* Mutant: only a name whose child was started by it has a timeout.
TimedOutChild(n) == Activating(n) /\ sitter[n] # "none" /\ Fail({n})

TimedOut(n) == Activating(n) /\ Fail({n})

\* Reloading the configuration replaces the BusActivation.
Reload ==
  /\ Drop(Names)
  /\ forgotten' = forgotten \cup waiting
  /\ UNCHANGED <<connected, owner, made, outcome, troubled>>

Disconnect(c) ==
  /\ c \in connected
  /\ connected' = connected \ {c}
  /\ owner' = [n \in Names |-> IF owner[n] = c THEN NoConn ELSE owner[n]]
  /\ UNCHANGED <<made, waiting, n_pending, sitter, outcome, forgotten, troubled>>

Next ==
  \/ \E r \in Reqs : \/ ActivateAnswered(r) \/ ActivateJoin(r) \/ ActivateSpawn(r)
                     \/ ActivateSpawnFails(r) \/ ActivateJoinOom(r) \/ ActivateGoneOom(r)
  \/ \E c \in Conns, n \in Names : AcquireName(c, n) \/ AcquireNameRefused(c, n)
  \/ \E n \in Names : LoseName(n) \/ ChildExits(n) \/ Babysitter(n) \/ TimedOut(n)
  \/ Reload
  \/ \E c \in Conns : Disconnect(c)

(***************************************************************************)
(* A pending activation has a timeout in the main loop until it is freed.  *)
(***************************************************************************)
Fairness == \A n \in Names : WF_vars(TimedOut(n))

Spec == Init /\ [][Next]_vars /\ Fairness

-----------------------------------------------------------------------------
(***************************************************************************)
(* Properties.                                                             *)
(***************************************************************************)

\* The variables have their types; only requests that were made wait.
TypeOK ==
  /\ connected \subseteq Conns
  /\ owner \in [Names -> Conns \cup {NoConn}]
  /\ made \subseteq Reqs
  /\ waiting \subseteq made
  /\ n_pending \in Nat
  /\ sitter \in [Names -> SitterStates]
  /\ outcome \in [Reqs -> 0..2]
  /\ forgotten \subseteq made
  /\ troubled \subseteq made

\* n_pending_activations is the number of waiting requests, through every way an
\* entry comes and goes, and never more than max_pending_activations; there is at
\* most one supervised child per command line, and only while somebody waits for
\* the name it was started for.
ActivationsSound ==
  /\ TypeOK
  /\ n_pending = Cardinality(waiting) /\ n_pending <= MaxPending
  /\ \A n \in Names : sitter[n] # "none" => Activating(n)
  /\ \A m, n \in Names :
       sitter[m] # "none" /\ sitter[n] # "none" /\ ExecOf[m] = ExecOf[n] => m = n

\* A request is answered or delivered at most once, and not at all while it waits,
\* and one that is neither waiting nor thrown away had its answer, unless its
\* sender had gone.  Answered more than once are the ones that
\* bus_activation_activate_service keeps after returning an error, and those of a
\* name that was acquired but whose owner was refused a message.
AnsweredOnce ==
  /\ \A r \in Reqs \ troubled : outcome[r] <= (IF r \in waiting THEN 0 ELSE 1)
  /\ \A r \in made : ConnOf[r] \in connected /\ r \notin waiting \cup forgotten => outcome[r] > 0

\* Every request comes to an end, whatever the child and the service do.
WaitEnds == \A r \in Reqs : r \in waiting ~> r \notin waiting
=============================================================================
