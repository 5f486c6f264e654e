---------------------------- MODULE NameRegistry ----------------------------
(***************************************************************************)
(* The name registry of the message bus (bus/services.c) together with the *)
(* driver methods that change it (bus/driver.c) and the part of the        *)
(* connection teardown that gives names back (bus/connection.c).           *)
(*                                                                         *)
(* The daemon is single threaded: it dispatches one message at a time and  *)
(* every handler runs inside one transaction, so an action is one handler. *)
(* A handler that succeeds, or fails with an ordinary error, has its       *)
(* transaction executed; a handler that runs out of memory has it          *)
(* cancelled, and the actions whose names end in Oom say what is then left *)
(* behind.  The mechanism of cancelling (hooks, reference counts) is the   *)
(* subject of RegistryTransaction.  If the sender's transport is closed by *)
(* then, bus_dispatch executes the transaction as far as it got instead;   *)
(* memory running out in that case is not modelled here.                   *)
(*                                                                         *)
(* A well-known name is an element of Names.  The unique name (base        *)
(* service) of connection c is c itself: the daemon never hands out a      *)
(* unique name twice.  A service is in service_hash exactly when its list  *)
(* of owners is not empty, so owners[n] = << >> stands for "no service".   *)
(***************************************************************************)
EXTENDS Integers, Sequences

CONSTANTS
  Conns,        \* the DBusConnection objects the daemon ever sees
  Names,        \* well-known bus names
  Pids,         \* process ids
  NoConn,       \* stands for a NULL connection
  NoPid,        \* stands for pid 0
  ProcOf,       \* the process a connection belongs to
  MayOwn,       \* <<c, n>>: c's client policy lets it own n
  AutoStarted,  \* names that clients may be waiting for with a queued message
  UniqueNames,  \* names that clients also request as NAME.unique-PID
  MaxServices   \* max_services_per_connection

ASSUME ConnAssumption == NoConn \notin Conns \cup Names /\ Conns \cap Names = {}
ASSUME PidAssumption == NoPid \notin Pids /\ ProcOf \in [Conns -> Pids]
ASSUME UniqueAssumption == UniqueNames \subseteq Names
ASSUME LimitAssumption == MaxServices \in Nat \ {0}

BusNames == Names \cup Conns

ALLOW_REPLACEMENT == "allow_replacement"
REPLACE_EXISTING  == "replace_existing"
DO_NOT_QUEUE      == "do_not_queue"
Flags == SUBSET {ALLOW_REPLACEMENT, REPLACE_EXISTING, DO_NOT_QUEUE}

\* BusOwner
Owner == [conn : Conns, allow_replacement : BOOLEAN, do_not_queue : BOOLEAN]

RequestResults == {"PRIMARY_OWNER", "IN_QUEUE", "EXISTS", "ALREADY_OWNER"}
ReleaseResults == {"RELEASED", "NON_EXISTENT", "NOT_OWNER"}
ErrorResults == {"INVALID_ARGS", "ACCESS_DENIED", "LIMITS_EXCEEDED", "NO_MEMORY"}

VARIABLES
  owners,           \* service->owners, the primary owner first
  services_owned,   \* BusConnectionData.services_owned, oldest first
  conn_state,       \* "incomplete" until Hello, "active", "gone" once freed
  connected,        \* connections whose transport is still up
  closing,          \* connection inside bus_connection_disconnected, or NoConn
  unique_pid_hash,  \* registry->unique_pid_hash
  processes,        \* pids _dbus_process_exists answers TRUE for
  told,             \* told[n]: who has NameAcquired for n, and no NameLost since
  announced,        \* announced[n]: the owner in the last NameOwnerChanged for n
  coherent,         \* no signal so far contradicted the ones before it
  reply             \* what the last driver handler answered

vars == <<owners, services_owned, conn_state, connected, closing,
          unique_pid_hash, processes, told, announced, coherent, reply>>

NoReply == [conn |-> NoConn, name |-> NoConn, result |-> "none"]

-----------------------------------------------------------------------------
(***************************************************************************)
(* Queues of owners.                                                       *)
(***************************************************************************)
\* _dbus_list_remove_link, insertion before the i-th link, _dbus_list_get_last.
RemoveLink(list, i) == SubSeq(list, 1, i - 1) \o SubSeq(list, i + 1, Len(list))
InsertLink(list, i, x) == SubSeq(list, 1, i - 1) \o <<x>> \o SubSeq(list, i, Len(list))
GetLast(list) == list[Len(list)]

HasOwner(q, c) == \E i \in DOMAIN q : q[i].conn = c

OwnerLink(q, c) == CHOOSE i \in DOMAIN q : q[i].conn = c

PrimaryOwner(q) == IF q = << >> THEN NoConn ELSE q[1].conn

NewOwner(c, f) == [conn |-> c,
                   allow_replacement |-> ALLOW_REPLACEMENT \in f,
                   do_not_queue |-> DO_NOT_QUEUE \in f]

(***************************************************************************)
(* A service as one handler sees it: its queue, what clients will know of  *)
(* it once the messages the handler has queued so far are sent, and        *)
(* whether the BusService object was made by this handler.                 *)
(* bus_transaction_send drops messages for a closed connection.            *)
(***************************************************************************)
Service(n) == [q |-> owners[n], told |-> told[n], announced |-> announced[n],
               coherent |-> coherent, fresh |-> FALSE]

SendLost(s, c) ==
  IF c \in connected
  THEN [s EXCEPT !.told = @ \ {c}, !.coherent = @ /\ c \in s.told]
  ELSE s

SendAcquired(s, c) ==
  IF c \in connected
  THEN [s EXCEPT !.told = @ \cup {c}, !.coherent = @ /\ c \notin s.told]
  ELSE s

SendOwnerChanged(s, old, new) ==
  [s EXCEPT !.announced = new, !.coherent = @ /\ s.announced = old]

-----------------------------------------------------------------------------
(***************************************************************************)
(* Operations on a service.                                                *)
(***************************************************************************)
Requeue(q, c, f) ==
  LET i == OwnerLink(q, c)
  IN  IF REPLACE_EXISTING \in f
      THEN InsertLink(RemoveLink(q, i), 2, NewOwner(c, f))
      ELSE [q EXCEPT ![i] = NewOwner(c, f)]

Enqueue(q, c, f) ==
  IF REPLACE_EXISTING \notin f \/ q = << >>
  THEN Append(q, NewOwner(c, f))
  ELSE InsertLink(q, 2, NewOwner(c, f))

\* Mutant: no search for an owner that is already queued.
AddOwnerAgain(s, c, f) ==
  LET t == IF s.q = << >> THEN SendAcquired(s, c) ELSE s
  IN  [t EXCEPT !.q = Enqueue(@, c, f)]

AddOwner(s, c, f) ==
  LET t == IF s.q = << >> THEN SendAcquired(s, c) ELSE s
  IN  [t EXCEPT !.q = IF HasOwner(@, c) THEN Requeue(@, c, f)
                                        ELSE Enqueue(@, c, f)]

\* Mutant: the old owner goes to the end of the queue.
SwapOwnerToEnd(s) ==
  LET old == s.q[1].conn
      new == s.q[2].conn
      t == SendAcquired(SendOwnerChanged(SendLost(s, old), old, new), new)
  IN  [t EXCEPT !.q = Append(Tail(s.q), s.q[1])]

\* Mutant: the old owner is not told NameLost.
SwapOwnerSilently(s) ==
  LET old == s.q[1].conn
      new == s.q[2].conn
      t == SendAcquired(SendOwnerChanged(s, old, new), new)
  IN  [t EXCEPT !.q = [@ EXCEPT ![1] = s.q[2], ![2] = s.q[1]]]

SwapOwner(s) ==
  LET old == s.q[1].conn
      new == s.q[2].conn
      t == SendAcquired(SendOwnerChanged(SendLost(s, old), old, new), new)
  IN  [t EXCEPT !.q = [@ EXCEPT ![1] = s.q[2], ![2] = s.q[1]]]

RemovePrimary(s) ==
  LET old == s.q[1].conn
      t == SendLost(s, old)
      u == IF Len(s.q) = 1
           THEN SendOwnerChanged(t, old, NoConn)
           ELSE SendAcquired(SendOwnerChanged(t, old, s.q[2].conn), s.q[2].conn)
  IN  [u EXCEPT !.q = Tail(@)]

\* Mutant: a connection that was only waiting is told NameLost as well.
RemoveOwnerLoudly(s, c) ==
  IF PrimaryOwner(s.q) = c
  THEN RemovePrimary(s)
  ELSE [SendLost(s, c) EXCEPT !.q = RemoveLink(@, OwnerLink(@, c))]

RemoveOwner(s, c) ==
  IF PrimaryOwner(s.q) = c
  THEN RemovePrimary(s)
  ELSE [s EXCEPT !.q = RemoveLink(@, OwnerLink(@, c))]

Ensure(s, c, f) ==
  [AddOwner(SendOwnerChanged(s, NoConn, c), c, f) EXCEPT !.fresh = TRUE]

\* Mutant: the owner's consent is not looked at.
ReplaceableAnyway(q, f) == REPLACE_EXISTING \in f

Replaceable(q, f) == q[1].allow_replacement /\ REPLACE_EXISTING \in f

\* Mutant: DO_NOT_QUEUE is not looked at when the answer is chosen.
AcquireResultQueued(q, c, f) ==
  IF q = << >> THEN "PRIMARY_OWNER"
  ELSE IF q[1].conn = c THEN "ALREADY_OWNER"
  ELSE IF Replaceable(q, f) THEN "PRIMARY_OWNER"
  ELSE "IN_QUEUE"

AcquireResult(q, c, f) ==
  IF q = << >> THEN "PRIMARY_OWNER"
  ELSE IF q[1].conn = c THEN "ALREADY_OWNER"
  ELSE IF Replaceable(q, f) THEN "PRIMARY_OWNER"
  ELSE IF DO_NOT_QUEUE \in f THEN "EXISTS"
  ELSE "IN_QUEUE"

ReplaceOwner(s, c, f) ==
  LET t == AddOwner(s, c, f)
  IN  IF s.q[1].do_not_queue THEN RemovePrimary(t) ELSE SwapOwner(t)

LeaveQueue(q, c) == IF HasOwner(q, c) THEN RemoveLink(q, OwnerLink(q, c)) ELSE q

Acquire(s, c, f) ==
  IF s.q = << >> THEN Ensure(s, c, f)
  ELSE IF s.q[1].conn = c THEN [s EXCEPT !.q = [@ EXCEPT ![1] = NewOwner(c, f)]]
  ELSE IF Replaceable(s.q, f) THEN ReplaceOwner(s, c, f)
  ELSE IF DO_NOT_QUEUE \in f THEN [s EXCEPT !.q = LeaveQueue(@, c)]
  ELSE AddOwner(s, c, f)

-----------------------------------------------------------------------------
(***************************************************************************)
(* Names of the form N.unique-PID (Windows): the request is for N, and the *)
(* registry remembers PID.  If the remembered process no longer exists,    *)
(* the primary owner is first made to give N up.                           *)
(***************************************************************************)
OldPidDead(c, n) ==
  /\ unique_pid_hash[n] \notin {NoPid, ProcOf[c]}
  /\ unique_pid_hash[n] \notin processes

ReleaseOldService(s, c, n, unique) ==
  IF unique /\ OldPidDead(c, n) /\ s.q # << >> THEN RemovePrimary(s) ELSE s

\* Failing to insert the pid is not reported, and the entry is then missing.
RememberedPids(c, n, unique) ==
  IF unique /\ (unique_pid_hash[n] = NoPid \/ OldPidDead(c, n))
  THEN {ProcOf[c], NoPid}
  ELSE {unique_pid_hash[n]}

-----------------------------------------------------------------------------
(***************************************************************************)
(* Executing a transaction: bus_owner_new put the service at the end of    *)
(* its owner's services_owned, the last bus_owner_unref takes it off.      *)
(***************************************************************************)
\* Mutant: the entry is cleared and its link left in the list.
DisownClear(owned, n) ==
  [owned EXCEPT ![CHOOSE i \in DOMAIN owned : owned[i] = n] = NoConn]

Disown(owned, n) == RemoveLink(owned, CHOOSE i \in DOMAIN owned : owned[i] = n)

OwnedAfter(n, s) ==
  [c \in Conns |->
     LET owned == services_owned[c]
         before == HasOwner(owners[n], c)
         after == HasOwner(s.q, c)
     IN  IF ~before /\ after THEN Append(owned, n)
         ELSE IF before /\ ~after THEN Disown(owned, n)
         ELSE IF before /\ s.fresh THEN Append(Disown(owned, n), n)
         ELSE owned]

Execute(n, s) ==
  /\ owners' = [owners EXCEPT ![n] = s.q]
  /\ told' = [told EXCEPT ![n] = s.told]
  /\ announced' = [announced EXCEPT ![n] = s.announced]
  /\ coherent' = s.coherent
  /\ services_owned' = OwnedAfter(n, s)

\* A cancelled transaction sends nothing; q is what its hooks leave behind.
Cancel(n, q) ==
  /\ owners' = [owners EXCEPT ![n] = q]
  /\ services_owned' = OwnedAfter(n, [Service(n) EXCEPT !.q = q])
  /\ UNCHANGED <<told, announced, coherent>>

Answer(c, n, result) == reply' = [conn |-> c, name |-> n, result |-> result]

Dispatching(c) == closing = NoConn /\ conn_state[c] = "active"

-----------------------------------------------------------------------------
(***************************************************************************)
(* Handlers.                                                               *)
(***************************************************************************)
Init ==
  /\ owners = [n \in BusNames |-> << >>]
  /\ services_owned = [c \in Conns |-> << >>]
  /\ conn_state = [c \in Conns |-> "incomplete"]
  /\ connected = Conns
  /\ closing = NoConn
  /\ unique_pid_hash = [n \in Names |-> NoPid]
  /\ processes = Pids
  /\ told = [n \in BusNames |-> {}]
  /\ announced = [n \in BusNames |-> NoConn]
  /\ coherent = TRUE
  /\ reply = NoReply

Hello(c) ==
  /\ closing = NoConn
  /\ conn_state[c] = "incomplete"
  /\ conn_state' = [conn_state EXCEPT ![c] = "active"]
  /\ Execute(c, Ensure(Service(c), c, {}))
  /\ reply' = NoReply
  /\ UNCHANGED <<connected, closing, unique_pid_hash, processes>>

\* bus_connection_complete is not undone when a later step of Hello fails.
HelloOom(c) ==
  /\ closing = NoConn /\ c \in connected
  /\ conn_state[c] = "incomplete"
  /\ conn_state' = [conn_state EXCEPT ![c] = "active"]
  /\ Answer(c, c, "NO_MEMORY")
  /\ UNCHANGED <<owners, services_owned, connected, closing, unique_pid_hash,
                 processes, told, announced, coherent>>

\* Mutant: the limit is off by one.
RequestErrorLate(c, n) ==
  IF n \in Conns THEN "INVALID_ARGS"
  ELSE IF <<c, n>> \notin MayOwn THEN "ACCESS_DENIED"
  ELSE IF Len(services_owned[c]) > MaxServices THEN "LIMITS_EXCEEDED"
  ELSE "none"

RequestError(c, n) ==
  IF n \in Conns THEN "INVALID_ARGS"
  ELSE IF <<c, n>> \notin MayOwn THEN "ACCESS_DENIED"
  ELSE IF Len(services_owned[c]) >= MaxServices THEN "LIMITS_EXCEEDED"
  ELSE "none"

\* Last, the messages that were waiting for the name are sent to its owner;
\* a message the policy refuses makes the request fail, the name being kept.
RequestName(c, n, unique, f) ==
  /\ Dispatching(c)
  /\ unique => n \in UniqueNames
  /\ LET s == ReleaseOldService(Service(n), c, n, unique)
         error == RequestError(c, n)
     IN  IF error = "none"
         THEN /\ Execute(n, Acquire(s, c, f))
              /\ \/ Answer(c, n, AcquireResult(s.q, c, f))
                 \/ n \in AutoStarted /\ Answer(c, n, "ACCESS_DENIED")
         ELSE Execute(n, s) /\ Answer(c, n, error)
  /\ IF n \in Names
     THEN \E p \in RememberedPids(c, n, unique) :
            unique_pid_hash' = [unique_pid_hash EXCEPT ![n] = p]
     ELSE UNCHANGED unique_pid_hash
  /\ UNCHANGED <<conn_state, connected, closing, processes>>

\* What a cancelled request keeps: the changes made without a cancel hook.  An
\* allocation that fails after a primary owner was unlinked or swapped is left to
\* RegistryTransaction.
Unhooked(q, c, f) ==
  IF ~HasOwner(q, c) THEN q
  ELSE IF PrimaryOwner(q) = c THEN [q EXCEPT ![1] = NewOwner(c, f)]
  ELSE IF AcquireResult(q, c, f) = "EXISTS" THEN LeaveQueue(q, c)
  ELSE Requeue(q, c, f)

RequestNameOom(c, n, unique, f) ==
  /\ Dispatching(c) /\ c \in connected
  /\ unique => n \in UniqueNames
  /\ RequestError(c, n) = "none"
  /\ \E q \in {owners[n], Unhooked(owners[n], c, f)} : Cancel(n, q)
  /\ \E p \in {unique_pid_hash[n]} \cup
              (IF owners[n] = << >> \/ ~OldPidDead(c, n)
               THEN RememberedPids(c, n, unique) ELSE {}) :
       unique_pid_hash' = [unique_pid_hash EXCEPT ![n] = p]
  /\ Answer(c, n, "NO_MEMORY")
  /\ UNCHANGED <<conn_state, connected, closing, processes>>

ReleaseResult(q, c) ==
  IF q = << >> THEN "NON_EXISTENT"
  ELSE IF HasOwner(q, c) THEN "RELEASED" ELSE "NOT_OWNER"

\* A suffix .unique-PID is not taken off: there is no service of that name.
ReleaseName(c, n, unique) ==
  /\ Dispatching(c)
  /\ unique => n \in UniqueNames
  /\ IF n \in Conns \/ unique
     THEN /\ Answer(c, n, IF n \in Conns THEN "INVALID_ARGS" ELSE "NON_EXISTENT")
          /\ UNCHANGED <<owners, services_owned, told, announced, coherent,
                         unique_pid_hash>>
     ELSE /\ Execute(n, IF HasOwner(owners[n], c) THEN RemoveOwner(Service(n), c)
                                                  ELSE Service(n))
          /\ Answer(c, n, ReleaseResult(owners[n], c))
          /\ unique_pid_hash' = [unique_pid_hash EXCEPT ![n] = NoPid]
  /\ UNCHANGED <<conn_state, connected, closing, processes>>

\* Taking a waiting connection off the queue has no cancel hook either.
ReleaseNameOom(c, n) ==
  /\ Dispatching(c) /\ c \in connected
  /\ n \in Names
  /\ PrimaryOwner(owners[n]) # c
  /\ Cancel(n, LeaveQueue(owners[n], c))
  /\ unique_pid_hash' = [unique_pid_hash EXCEPT ![n] = NoPid]
  /\ Answer(c, n, "NO_MEMORY")
  /\ UNCHANGED <<conn_state, connected, closing, processes>>

(***************************************************************************)
(* A connection goes away.  The transport closes at any time; messages     *)
(* read before that are still dispatched, and the local Disconnected       *)
(* message comes after them.                                               *)
(***************************************************************************)
TransportClosed(c) ==
  /\ closing = NoConn
  /\ c \in connected
  /\ connected' = connected \ {c}
  /\ told' = [n \in BusNames |-> told[n] \ {c}]
  /\ reply' = NoReply
  /\ UNCHANGED <<owners, services_owned, conn_state, closing, unique_pid_hash,
                 processes, announced, coherent>>

DisconnectBegin(c) ==
  /\ closing = NoConn
  /\ c \notin connected
  /\ conn_state[c] # "gone"
  /\ closing' = c
  /\ reply' = NoReply
  /\ UNCHANGED <<owners, services_owned, conn_state, connected, unique_pid_hash,
                 processes, told, announced, coherent>>

\* Mutant: the loop starts from the oldest service.
DisconnectReleaseFirst(c) ==
  /\ closing = c
  /\ services_owned[c] # << >>
  /\ LET n == Head(services_owned[c])
     IN  Execute(n, RemoveOwner(Service(n), c))
  /\ reply' = NoReply
  /\ UNCHANGED <<conn_state, connected, closing, unique_pid_hash, processes>>

\* Mutant: the loop only gives up names the connection is primary owner of.
DisconnectReleasePrimary(c) ==
  /\ closing = c
  /\ services_owned[c] # << >>
  /\ LET n == GetLast(services_owned[c])
     IN  PrimaryOwner(owners[n]) = c /\ Execute(n, RemovePrimary(Service(n)))
  /\ reply' = NoReply
  /\ UNCHANGED <<conn_state, connected, closing, unique_pid_hash, processes>>

\* One turn of the loop over services_owned, in a transaction of its own.
DisconnectRelease(c) ==
  /\ closing = c
  /\ services_owned[c] # << >>
  /\ LET n == GetLast(services_owned[c])
     IN  Execute(n, RemoveOwner(Service(n), c))
  /\ reply' = NoReply
  /\ UNCHANGED <<conn_state, connected, closing, unique_pid_hash, processes>>

DisconnectEnd(c) ==
  /\ closing = c
  /\ services_owned[c] = << >>
  /\ conn_state' = [conn_state EXCEPT ![c] = "gone"]
  /\ closing' = NoConn
  /\ reply' = NoReply
  /\ UNCHANGED <<owners, services_owned, connected, unique_pid_hash, processes,
                 told, announced, coherent>>

ProcessExit(p) ==
  /\ p \in processes
  /\ processes' = processes \ {p}
  /\ reply' = NoReply
  /\ UNCHANGED <<owners, services_owned, conn_state, connected, closing,
                 unique_pid_hash, told, announced, coherent>>

Next ==
  \/ \E c \in Conns : \/ Hello(c)
                      \/ HelloOom(c)
                      \/ TransportClosed(c)
                      \/ DisconnectBegin(c)
                      \/ DisconnectRelease(c)
                      \/ DisconnectEnd(c)
  \/ \E c \in Conns, n \in BusNames, u \in BOOLEAN : ReleaseName(c, n, u)
  \/ \E c \in Conns, n \in BusNames : ReleaseNameOom(c, n)
  \/ \E c \in Conns, n \in BusNames, u \in BOOLEAN, f \in Flags :
       RequestName(c, n, u, f) \/ RequestNameOom(c, n, u, f)
  \/ \E p \in Pids : ProcessExit(p)

(***************************************************************************)
(* The main loop keeps dispatching, so a Disconnected message is handled   *)
(* sooner or later and its handler runs to the end.                        *)
(***************************************************************************)
Fairness ==
  \A c \in Conns : WF_vars(DisconnectBegin(c) \/ DisconnectRelease(c) \/ DisconnectEnd(c))

Spec == Init /\ [][Next]_vars /\ Fairness

-----------------------------------------------------------------------------
(***************************************************************************)
(* Properties.                                                             *)
(***************************************************************************)

\* The shape of the registry: queues of BusOwner records, lists of owned
\* services, connection states, and the signals clients have seen.
TypeOK ==
  /\ owners \in [BusNames -> Seq(Owner)]
  /\ services_owned \in [Conns -> Seq(BusNames)]
  /\ conn_state \in [Conns -> {"incomplete", "active", "gone"}]
  /\ connected \subseteq Conns
  /\ closing \in Conns \cup {NoConn}
  /\ unique_pid_hash \in [Names -> Pids \cup {NoPid}]
  /\ processes \subseteq Pids
  /\ told \in [BusNames -> SUBSET Conns]
  /\ announced \in [BusNames -> Conns \cup {NoConn}]
  /\ coherent \in BOOLEAN
  /\ reply \in [conn : Conns \cup {NoConn}, name : BusNames \cup {NoConn},
                result : RequestResults \cup ReleaseResults \cup ErrorResults
                         \cup {"none"}]

NoDuplicates(q) == \A i, j \in DOMAIN q : q[i].conn = q[j].conn => i = j

\* A connection waits at most once in the queue of a name, only connections
\* that said Hello and are not yet torn down wait there, and nobody but c ever
\* owns or waits for the unique name of c (services.c asserts this nowhere, it
\* follows from every path that adds an owner).
QueueWellFormed ==
  \A n \in BusNames :
    /\ NoDuplicates(owners[n])
    /\ \A i \in DOMAIN owners[n] : /\ conn_state[owners[n][i].conn] = "active"
                                   /\ n \in Conns => owners[n][i].conn = n

\* The two ends of the ownership relation, service->owners and
\* d->services_owned, name the same pairs, each once, on every path that
\* enqueues, replaces, releases or disconnects; the disconnect loop relies on it
\* to find every queue the connection is in, and the limit
\* max_services_per_connection counts by it.
OwnedAgrees ==
  \A c \in Conns :
    /\ \A n \in BusNames :
         HasOwner(owners[n], c) <=> \E i \in DOMAIN services_owned[c] :
                                      services_owned[c][i] = n
    /\ \A i, j \in DOMAIN services_owned[c] :
         services_owned[c][i] = services_owned[c][j] => i = j
    /\ Len(services_owned[c]) <= MaxServices

\* Between two handlers, what the signals have told clients is what the registry
\* holds: the connected primary owner, and only it, has NameAcquired without a
\* later NameLost, and the last NameOwnerChanged names the primary owner.
ViewsAgree ==
  \A n \in BusNames :
    /\ told[n] = {PrimaryOwner(owners[n])} \cap connected
    /\ announced[n] = PrimaryOwner(owners[n])

\* No signal contradicts an earlier one: NameLost only goes to a connection that
\* was told NameAcquired, NameAcquired to one that was not, and the old owner in
\* NameOwnerChanged is the new owner of the one before.
SignalsCoherent == coherent

ReplyTrue ==
  LET q == owners[reply.name]
      c == reply.conn
  IN  /\ reply.result \in {"PRIMARY_OWNER", "ALREADY_OWNER"} => PrimaryOwner(q) = c
      /\ reply.result = "IN_QUEUE" => HasOwner(q, c) /\ PrimaryOwner(q) # c
      /\ reply.result = "EXISTS" => ~HasOwner(q, c) /\ q # << >>
      /\ reply.result \in {"RELEASED", "NOT_OWNER"} => ~HasOwner(q, c)

\* The answer a client gets to RequestName or ReleaseName is true of the
\* registry when the answer is sent (bus_registry_acquire_service computes
\* *result on a different path than the one that edits the queue).
ReplyTruthful == [][ReplyTrue']_vars

\* A connection that is torn down gives its unique name back after every other
\* name: the disconnect loop takes services_owned from the end, and the unique
\* name was put there first.
BaseServiceLast ==
  [][\A c \in Conns : owners[c] # << >> /\ owners'[c] = << >> =>
       \A n \in Names : ~HasOwner(owners[n], c)]_vars

RecordedPidDead(n) ==
  n \in Names /\ unique_pid_hash[n] # NoPid /\ unique_pid_hash[n] \notin processes

\* How a name changes hands.  A free name goes to the connection that asks for
\* it.  An owned name goes to the next in line when its owner asked to release it
\* or is being torn down, and to a requester only if the owner allowed
\* replacement.  The one other way is the clean-up after a dead process.
NameHandover ==
  [][\A n \in BusNames :
       LET q == owners[n]
           old == PrimaryOwner(q)
           new == PrimaryOwner(owners'[n])
           heir == IF Len(q) < 2 THEN NoConn ELSE q[2].conn
       IN  old # new =>
             \/ old = NoConn /\ (new = reply'.conn \/ n = new)
             \/ old # NoConn /\ new = heir /\ old \in {reply'.conn, closing}
             \/ old # NoConn /\ new = reply'.conn /\ q[1].allow_replacement
             \/ RecordedPidDead(n)]_vars

Ahead(q, a, b) == \E i, j \in DOMAIN q : i < j /\ q[i].conn = a /\ q[j].conn = b

\* Nobody loses their place in a queue through other connections' coming and
\* going: b overtakes a only in a request made by b, or by a itself.
QueueOrderStable ==
  [][\A n \in BusNames : \A a, b \in Conns :
       Ahead(owners[n], a, b) /\ Ahead(owners'[n], b, a) =>
         reply'.name = n /\ reply'.conn \in {a, b}]_vars

\* "If DBUS_NAME_FLAG_ALLOW_REPLACEMENT is not specified by application A [...]
\* then application B will not replace application A as the owner"
\* (doc/dbus-specification.xml): a request never takes a name from another
\* connection that is up, whose process runs, and that did not allow it.
OwnerNotReplaced ==
  [][\A n \in Names :
       LET q == owners[n]
       IN  /\ q # << >>
           /\ ~q[1].allow_replacement
           /\ q[1].conn \in connected /\ ProcOf[q[1].conn] \in processes
           /\ reply'.conn \notin {NoConn, q[1].conn}
           => PrimaryOwner(owners'[n]) = q[1].conn]_vars

\* Once its transport is closed a connection is freed in the end, and by then it
\* owns and waits for nothing: bus_connection_disconnected's loop terminates.
DisconnectCompletes ==
  \A c \in Conns :
    c \notin connected ~> /\ conn_state[c] = "gone"
                          /\ \A n \in BusNames : ~HasOwner(owners[n], c)
=============================================================================
