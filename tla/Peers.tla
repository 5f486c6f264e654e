------------------------------- MODULE Peers --------------------------------
(***************************************************************************)
(* The connections of the daemon and the match rules they keep with it     *)
(* (bus/connection.c, bus/signals.c, and the parts of bus/driver.c and     *)
(* bus/dispatch.c that use them): a connection is accepted, authenticates  *)
(* and says Hello within limits of number and time, adds and removes match *)
(* rules, receives the messages that match them, and goes away.            *)
(*                                                                         *)
(* One action is one handler or callback of the main loop.  The name of an *)
(* active connection stands for its unique name.  The tests of a rule on   *)
(* type, interface, member, path and arguments are one filter, the set of  *)
(* message contents it lets through.  Time is what the authentication      *)
(* timeout sees of it: which connections are overdue.  The stamp that      *)
(* keeps a connection from getting a message twice is cleared by counting  *)
(* up, so it is the set of connections marked so far; its wrap-around      *)
(* after 2^32 messages is left out.                                        *)
(***************************************************************************)
EXTENDS Integers, Sequences, FiniteSets

CONSTANTS
  Conns,          \* connections
  Driver,         \* the daemon itself, org.freedesktop.DBus
  NoConn,         \* no connection, no name
  Users,          \* Unix users
  UserOf,         \* UserOf[c]: the user of a connection, NoConn if it has none
  Contents,       \* contents of messages
  Rules,          \* match rules that are asked for
  Refused,        \* <<s, c>>: the policy keeps messages of s from c
  MaxIncomplete,  \* max_incomplete_connections
  MaxCompleted,   \* max_completed_connections
  MaxPerUser,     \* max_connections_per_user
  MaxMatches,     \* max_match_rules_per_connection
  MaxLeaks        \* bound: failed completions that leave the count of a user raised

Peer == Conns \cup {Driver, NoConn}

ASSUME PeersAssumption ==
  /\ IsFiniteSet(Conns)
  /\ NoConn # Driver /\ {NoConn, Driver} \cap (Conns \cup Users) = {}
  /\ UserOf \in [Conns -> Users \cup {NoConn}]
  /\ Rules \subseteq [go_to : Conns, sender : Peer, destination : Peer, filter : SUBSET Contents]
  /\ {MaxIncomplete, MaxCompleted, MaxPerUser, MaxMatches, MaxLeaks} \subseteq Nat

VARIABLES
  stage,          \* "new", "incomplete", "active" or "gone"
  open,           \* connections whose transport is up
  incomplete,     \* connections->incomplete, oldest first
  n_incomplete,
  n_completed,
  by_user,        \* connections->completed_by_user
  leaked,         \* failed completions that raised by_user
  overdue,        \* incomplete connections whose time to authenticate is over
  timer,          \* expire_timeout is enabled
  all_rules,      \* matchmaker->all_rules
  n_match_rules   \* d->n_match_rules

connVars == <<stage, open, incomplete, n_incomplete, n_completed, by_user, leaked, overdue, timer>>
vars == <<connVars, all_rules, n_match_rules>>

\* The elements of a list; a list without its i-th link, _dbus_list_remove_link.
Members(list) == {list[i] : i \in DOMAIN list}
RemoveLink(list, i) == SubSeq(list, 1, i - 1) \o SubSeq(list, i + 1, Len(list))

\* A loop that goes over a list and keeps the links whose positions are given.
Kept(list, positions) ==
  LET kept[i \in 0..Len(list)] ==
        IF i = 0 THEN <<>>
        ELSE IF i \in positions THEN Append(kept[i - 1], list[i]) ELSE kept[i - 1]
  IN kept[Len(list)]

\* No match rule is touched.
Quiet == UNCHANGED <<all_rules, n_match_rules>>

-----------------------------------------------------------------------------
Init ==
  /\ stage = [c \in Conns |-> "new"]
  /\ open = {}
  /\ incomplete = <<>>
  /\ n_incomplete = 0 /\ n_completed = 0
  /\ by_user = [u \in Users |-> 0]
  /\ leaked = [u \in Users |-> 0]
  /\ overdue = {}
  /\ timer = FALSE
  /\ all_rules = <<>>
  /\ n_match_rules = [c \in Conns |-> 0]

\* Mutant: the timeout is only set for a connection that is over time.
ExpireIncompleteLate(list, conns) ==
  /\ open' = conns \ (Members(list) \cap overdue)
  /\ timer' = (Members(list) \cap overdue # {})

\* bus_connections_expire_incomplete: the connections that are over time come
\* first in the list and are closed, the first one that is not sets the timeout.
ExpireIncomplete(list, conns) ==
  /\ open' = conns \ (Members(list) \cap overdue)
  /\ timer' = (Members(list) \ overdue # {})

\* bus_connections_setup_connection.  With too many of them the oldest incomplete
\* connection is closed, which takes effect in the main loop.
Accept(c) ==
  /\ stage[c] = "new"
  /\ stage' = [stage EXCEPT ![c] = "incomplete"]
  /\ incomplete' = Append(incomplete, c)
  /\ n_incomplete' = n_incomplete + 1
  /\ LET conns == open \cup {c}
     IN ExpireIncomplete(incomplete', IF n_incomplete' > MaxIncomplete
                                      THEN conns \ {incomplete'[1]} ELSE conns)
  /\ UNCHANGED <<n_completed, by_user, leaked, overdue>> /\ Quiet

\* No memory for a new connection: it is closed and never known.
AcceptOom(c) ==
  /\ stage[c] = "new"
  /\ stage' = [stage EXCEPT ![c] = "gone"]
  /\ UNCHANGED <<open, incomplete, n_incomplete, n_completed, by_user, leaked, overdue, timer>> /\ Quiet

\* Connections run out of time in the order they came.
TimePasses(c) ==
  /\ \E i \in DOMAIN incomplete :
       /\ incomplete[i] = c
       /\ \A j \in 1..(i - 1) : incomplete[j] \in overdue
  /\ c \notin overdue
  /\ overdue' = overdue \cup {c}
  /\ UNCHANGED <<stage, open, incomplete, n_incomplete, n_completed, by_user, leaked, timer>> /\ Quiet

ExpireTimeout ==
  /\ timer
  /\ ExpireIncomplete(incomplete, open)
  /\ UNCHANGED <<stage, incomplete, n_incomplete, n_completed, by_user, leaked, overdue>> /\ Quiet

\* The peer closes the connection, or a message before Hello makes the daemon do it.
Close(c) ==
  /\ c \in open
  /\ open' = open \ {c}
  /\ UNCHANGED <<stage, incomplete, n_incomplete, n_completed, by_user, leaked, overdue, timer>> /\ Quiet

-----------------------------------------------------------------------------
(***************************************************************************)
(* Hello.  A connection over a limit is left as it is and may try again.   *)
(***************************************************************************)
CheckLimits(c) ==
  /\ n_completed < MaxCompleted
  /\ UserOf[c] # NoConn => by_user[UserOf[c]] < MaxPerUser

AdjustForUser(c, n) ==
  by_user' = IF UserOf[c] = NoConn THEN by_user
             ELSE [by_user EXCEPT ![UserOf[c]] = @ + n]

\* c leaves the list of incomplete connections by its link_in_connection_list.
Unlink(c) == RemoveLink(incomplete, CHOOSE i \in DOMAIN incomplete : incomplete[i] = c)

Complete(c) ==
  /\ stage[c] = "incomplete"
  /\ CheckLimits(c)
  /\ AdjustForUser(c, 1)
  /\ stage' = [stage EXCEPT ![c] = "active"]
  /\ incomplete' = Unlink(c)
  /\ n_incomplete' = n_incomplete - 1
  /\ n_completed' = n_completed + 1
  /\ overdue' = overdue \ {c}
  /\ ExpireIncomplete(incomplete', open)
  /\ UNCHANGED <<leaked>> /\ Quiet

\* Memory runs out after the connection was counted.
CompleteOom(c) ==
  /\ stage[c] = "incomplete"
  /\ CheckLimits(c)
  /\ UserOf[c] # NoConn
  /\ leaked[UserOf[c]] < MaxLeaks
  /\ AdjustForUser(c, 1)
  /\ leaked' = [leaked EXCEPT ![UserOf[c]] = @ + 1]
  /\ UNCHANGED <<stage, open, incomplete, n_incomplete, n_completed, overdue, timer>> /\ Quiet

-----------------------------------------------------------------------------
(***************************************************************************)
(* Match rules.                                                            *)
(***************************************************************************)
Owned(rules, c) == {i \in DOMAIN rules : rules[i].go_to = c}

\* Nothing changes and the answer is an error: the limit is reached, the rule
\* cannot be parsed or memory runs out, also for the acknowledgement.
AddMatchFails(c) ==
  /\ stage[c] = "active"
  /\ UNCHANGED <<connVars, all_rules, n_match_rules>>

\* When memory runs out for a copy of the call to others, the acknowledgement is
\* taken back and the rule stays.
AddMatch(c, rule) ==
  /\ stage[c] = "active" /\ rule.go_to = c
  /\ n_match_rules[c] < MaxMatches
  /\ all_rules' = Append(all_rules, rule)
  /\ n_match_rules' = [n_match_rules EXCEPT ![c] = @ + 1]
  /\ UNCHANGED connVars

\* The last rule that is equal goes.  The removal is not undone with the reply.
RemoveMatch(c, rule) ==
  /\ stage[c] = "active" /\ rule.go_to = c
  /\ \E i \in DOMAIN all_rules :
       /\ all_rules[i] = rule
       /\ \A j \in DOMAIN all_rules : j > i => all_rules[j] # rule
       /\ all_rules' = RemoveLink(all_rules, i)
  /\ n_match_rules' = [n_match_rules EXCEPT ![c] = @ - 1]
  /\ UNCHANGED connVars

\* There is no such rule and nothing changes.  The acknowledgement is queued
\* before the search, and the error that follows does not cancel the
\* transaction: the caller gets both.
RemoveMatchMissing(c, rule) ==
  /\ stage[c] = "active" /\ rule.go_to = c
  /\ rule \notin Members(all_rules)
  /\ UNCHANGED <<connVars, all_rules, n_match_rules>>

-----------------------------------------------------------------------------
(***************************************************************************)
(* Routing a message from s with destination d, NoConn for a broadcast: it *)
(* changes nothing here, so it is a function of the state.                 *)
(***************************************************************************)
NameMatches(name, peer) == name = NoConn \/ name = peer

Matches(rule, s, d, content) ==
  /\ NameMatches(rule.sender, s)
  /\ NameMatches(rule.destination, d)
  /\ content \in rule.filter

\* Mutant: the addressed recipient is not marked.
GetRecipientsUnmarked(s, d, content) ==
  LET found[i \in 0..Len(all_rules)] ==
        IF i = 0 THEN <<>>
        ELSE IF Matches(all_rules[i], s, d, content) /\ all_rules[i].go_to \notin Members(found[i - 1])
        THEN Append(found[i - 1], all_rules[i].go_to) ELSE found[i - 1]
  IN IF d \in Conns THEN <<d>> \o found[Len(all_rules)] ELSE found[Len(all_rules)]

\* bus_matchmaker_get_recipients: the addressed recipient is marked first, then
\* each connection is appended and marked when a rule of it matches.
GetRecipients(s, d, content) ==
  LET marked[i \in 0..Len(all_rules)] ==
        IF i = 0 THEN IF d \in Conns THEN <<d>> ELSE <<>>
        ELSE IF Matches(all_rules[i], s, d, content) /\ all_rules[i].go_to \notin Members(marked[i - 1])
        THEN Append(marked[i - 1], all_rules[i].go_to) ELSE marked[i - 1]
  IN marked[Len(all_rules)]

\* Can a message be routed: the policy may refuse the addressed recipient.
Sendable(s, d) ==
  /\ s \in Conns => stage[s] = "active"
  /\ d \in Conns => stage[d] = "active" /\ <<s, d>> \notin Refused

\* bus_dispatch_matches: the connections the message is sent to, in order.  The
\* policy may refuse one that asked for it, which is left out.
DispatchMatches(s, d, content) ==
  LET to == GetRecipients(s, d, content)
  IN Kept(to, {i \in DOMAIN to : <<s, to[i]>> \notin Refused})

-----------------------------------------------------------------------------
\* The rules that go to a connection or name it.
Concerns(rule, c) == rule.go_to = c \/ rule.sender = c \/ rule.destination = c

\* The rules that go when a connection does, and those of them that d is told of.
Concerning(c) == {i \in DOMAIN all_rules : Concerns(all_rules[i], c)}
GoneOf(c, d) == Concerning(c) \cap Owned(all_rules, d)

\* Mutant: the connections whose rules go are not told.
MatchmakerDisconnectedQuietly(c) ==
  /\ all_rules' = Kept(all_rules, DOMAIN all_rules \ Concerning(c))
  /\ n_match_rules' = [n_match_rules EXCEPT ![c] = 0]

\* bus_matchmaker_disconnected
MatchmakerDisconnected(c) ==
  /\ all_rules' = Kept(all_rules, DOMAIN all_rules \ Concerning(c))
  /\ n_match_rules' = [d \in Conns |-> n_match_rules[d] - Cardinality(GoneOf(c, d))]

\* Mutant: the count of the user stays.
DisconnectedCounted(c) ==
  /\ stage[c] \in {"incomplete", "active"} /\ c \notin open
  /\ IF n_match_rules[c] > 0 THEN MatchmakerDisconnected(c) ELSE UNCHANGED <<all_rules, n_match_rules>>
  /\ n_completed' = IF stage[c] = "active" THEN n_completed - 1 ELSE n_completed
  /\ n_incomplete' = IF stage[c] = "incomplete" THEN n_incomplete - 1 ELSE n_incomplete
  /\ incomplete' = IF stage[c] = "incomplete" THEN Unlink(c) ELSE incomplete
  /\ overdue' = overdue \ {c}
  /\ stage' = [stage EXCEPT ![c] = "gone"]
  /\ UNCHANGED <<open, leaked, timer, by_user>>

\* The Disconnected message is dispatched: bus_connection_disconnected.  The names
\* it owns are the business of the registry.
Disconnected(c) ==
  /\ stage[c] \in {"incomplete", "active"} /\ c \notin open
  /\ IF n_match_rules[c] > 0 THEN MatchmakerDisconnected(c) ELSE UNCHANGED <<all_rules, n_match_rules>>
  /\ \/ stage[c] = "active" /\ n_completed' = n_completed - 1 /\ AdjustForUser(c, -1)
        /\ UNCHANGED <<incomplete, n_incomplete, overdue>>
     \/ stage[c] = "incomplete" /\ n_incomplete' = n_incomplete - 1
        /\ incomplete' = Unlink(c) /\ overdue' = overdue \ {c}
        /\ UNCHANGED <<n_completed, by_user>>
  /\ stage' = [stage EXCEPT ![c] = "gone"]
  /\ UNCHANGED <<open, leaked, timer>>

Next ==
  \/ \E c \in Conns : \/ Accept(c) \/ AcceptOom(c) \/ TimePasses(c) \/ Close(c)
                      \/ Complete(c) \/ CompleteOom(c) \/ AddMatchFails(c) \/ Disconnected(c)
  \/ \E rule \in Rules : \/ AddMatch(rule.go_to, rule) \/ RemoveMatch(rule.go_to, rule)
                        \/ RemoveMatchMissing(rule.go_to, rule)
  \/ ExpireTimeout

(***************************************************************************)
(* Time passes; the main loop runs the timeout when it is due and          *)
(* dispatches the Disconnected message of a closed connection.             *)
(***************************************************************************)
Fairness ==
  /\ \A c \in Conns : WF_vars(TimePasses(c)) /\ WF_vars(Disconnected(c))
  /\ WF_vars(ExpireTimeout)

Spec == Init /\ [][Next]_vars /\ Fairness

-----------------------------------------------------------------------------
(***************************************************************************)
(* Properties.                                                             *)
(***************************************************************************)

\* The variables have their types; counts do not go below zero.
TypeOK ==
  /\ stage \in [Conns -> {"new", "incomplete", "active", "gone"}]
  /\ open \subseteq Conns
  /\ Members(incomplete) \subseteq Conns
  /\ n_incomplete \in Nat /\ n_completed \in Nat
  /\ by_user \in [Users -> Nat] /\ leaked \in [Users -> Nat]
  /\ overdue \subseteq Conns
  /\ timer \in BOOLEAN
  /\ Members(all_rules) \subseteq Rules
  /\ n_match_rules \in [Conns -> Nat]

OfUser(u) == {c \in Conns : stage[c] = "active" /\ UserOf[c] = u}

\* The counts the limits are checked against are exact, through every order of
\* accepting, completing, timing out and disconnecting; the count of a user is too
\* high by the completions that failed after it was raised, and by nothing else.
CountsExact ==
  /\ TypeOK
  /\ Members(incomplete) = {c \in Conns : stage[c] = "incomplete"}
  /\ n_incomplete = Len(incomplete)
  /\ n_incomplete = Cardinality(Members(incomplete))
  /\ n_completed = Cardinality({c \in Conns : stage[c] = "active"}) /\ n_completed <= MaxCompleted
  /\ \A u \in Users : by_user[u] = Cardinality(OfUser(u)) + leaked[u] /\ by_user[u] <= MaxPerUser

\* Rules go to active connections only, so none outlives its BusConnectionData, and
\* each connection knows how many it has, also when another one's end removed some.
RulesExact ==
  /\ \A i \in DOMAIN all_rules : stage[all_rules[i].go_to] = "active"
  /\ \A c \in Conns : n_match_rules[c] = Cardinality(Owned(all_rules, c)) /\ n_match_rules[c] <= MaxMatches

\* A message goes once to its destination and to every connection with a matching
\* rule that the policy permits, and to nobody else, whatever the number of rules.
RoutedExactly ==
  \A s \in Conns \cup {Driver}, d \in Peer, content \in Contents : Sendable(s, d) =>
    LET to == DispatchMatches(s, d, content)
        Wants(c) == c = d \/ \E i \in Owned(all_rules, c) : Matches(all_rules[i], s, d, content)
    IN \A c \in Conns : Cardinality({i \in DOMAIN to : to[i] = c})
                          = IF Wants(c) /\ <<s, c>> \notin Refused THEN 1 ELSE 0

\* An accepted connection becomes active or goes away: the authentication timeout
\* is never lost.
AuthEnds == \A c \in Conns : stage[c] = "incomplete" ~> stage[c] # "incomplete"
=============================================================================
