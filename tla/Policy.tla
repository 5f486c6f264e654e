------------------------------- MODULE Policy -------------------------------
(***************************************************************************)
(* The security policy of the daemon (bus/policy.c): the <allow> and       *)
(* <deny> elements of the configuration become lists of rules, one per     *)
(* context; a connection that completes gets the lists that concern it,    *)
(* one after the other, and bus_client_policy_optimize throws out what it  *)
(* takes to be overridden.  The last rule that applies decides.            *)
(*                                                                         *)
(* A client policy is the sequence of its rules and the set of positions   *)
(* the optimiser kept.  A query is what bus_client_policy_check_can_send,  *)
(* _receive and _own look at: the fields of the message, the names in      *)
(* whose queues the peer is, whether a reply was asked for.  Which rule    *)
(* writes to the log is left out.                                          *)
(***************************************************************************)
EXTENDS Integers, Sequences

CONSTANTS
  Conns,       \* connections
  Null,         \* NULL: not set in a rule, absent from a message
  Elements,    \* the <allow> and <deny> elements of configuration files
  Queries,     \* what the policy is asked
  Uid,         \* Uid[c]: the user of a connection, Null if it has no Unix user
  Groups,      \* Groups[c]: the sequence of its groups
  Console,     \* Console[c]: its user is at the console
  MaxRules     \* bound: rules read in all

\* The attributes of an element.
SendAttributes ==
  {"send_interface", "send_member", "send_error", "send_destination", "send_path",
   "send_type", "send_requested_reply"}
ReceiveAttributes ==
  {"receive_interface", "receive_member", "receive_error", "receive_sender",
   "receive_path", "receive_type", "receive_requested_reply"}
Attributes == SendAttributes \cup ReceiveAttributes \cup {"eavesdrop", "own", "user", "group"}

\* The contexts of a <policy> element.
Contexts == {<<"default">>, <<"mandatory">>, <<"console", TRUE>>, <<"console", FALSE>>}
            \cup {<<"user", Uid[c]>> : c \in {d \in Conns : Uid[d] # Null}}
            \cup UNION {{<<"group", Groups[c][i]>> : i \in DOMAIN Groups[c]} : c \in Conns}

ASSUME PolicyAssumption ==
  /\ \A e \in Elements : DOMAIN e \subseteq Attributes \cup {"allow"} /\ e.allow \in BOOLEAN
  /\ \A q \in Queries : q.check \in {"send", "receive", "own"}
  /\ MaxRules \in Nat
  /\ Groups \in [Conns -> Seq(UNION {{Groups[c][i] : i \in DOMAIN Groups[c]} : c \in Conns})]
  /\ Console \in [Conns -> BOOLEAN]

VARIABLES
  policy,      \* context->policy
  authentic,   \* connections whose user was let in
  client,      \* the policy of a connection, and the mandatory rules when it was made
  n_read       \* rules read so far

vars == <<policy, authentic, client, n_read>>

-----------------------------------------------------------------------------
(***************************************************************************)
(* From an element to a rule: append_rule_from_element.                    *)
(***************************************************************************)

\* Pairs of attributes that may not occur together.
Conflicts ==
  (SendAttributes \X ((ReceiveAttributes \ {"receive_path", "receive_type"}) \cup {"own", "user", "group"}))
  \cup ({"send_interface", "send_member"} \X {"send_error"})
  \cup ({"receive_interface", "receive_member"} \X {"receive_error"})
  \cup ({"receive_interface", "receive_member", "receive_error", "eavesdrop",
         "receive_requested_reply"} \X {"own", "user", "group"})
  \cup {<<"own", "user">>, <<"own", "group">>, <<"user", "group">>}

WellFormed(e) ==
  /\ DOMAIN e \cap Attributes # {}
  /\ "send_member" \in DOMAIN e => {"send_interface", "send_path"} \cap DOMAIN e # {}
  /\ "receive_member" \in DOMAIN e => {"receive_interface", "receive_path"} \cap DOMAIN e # {}
  /\ \A p \in Conflicts : ~(p[1] \in DOMAIN e /\ p[2] \in DOMAIN e)

\* What a rule makes of an attribute: "*" is a wildcard, an absent one too.
Value(e, a) == IF a \in DOMAIN e /\ e[a] # "*" THEN e[a] ELSE Null

Flag(e, a, default) == IF a \in DOMAIN e THEN e[a] = "true" ELSE default

RuleType(e) ==
  CASE SendAttributes \cap DOMAIN e # {} -> "send"
    [] (ReceiveAttributes \cup {"eavesdrop"}) \cap DOMAIN e # {} /\ SendAttributes \cap DOMAIN e = {} -> "receive"
    [] OTHER -> CHOOSE a \in {"own", "user", "group"} : a \in DOMAIN e

\* requested_reply defaults to TRUE for allow rules, to FALSE for deny rules.
RuleOf(e) ==
  LET t == RuleType(e)
      Of(send, receive) == CASE t = "send" -> Value(e, send) [] t = "receive" -> Value(e, receive) [] OTHER -> Null
  IN [type |-> t,
      allow |-> e.allow,
      message_type |-> Of("send_type", "receive_type"),
      path |-> Of("send_path", "receive_path"),
      interface |-> Of("send_interface", "receive_interface"),
      member |-> Of("send_member", "receive_member"),
      error |-> Of("send_error", "receive_error"),
      name |-> IF t \in {"send", "receive"} THEN Of("send_destination", "receive_sender") ELSE Value(e, t),
      requested_reply |-> CASE t = "send" -> Flag(e, "send_requested_reply", e.allow)
                            [] t = "receive" -> Flag(e, "receive_requested_reply", e.allow)
                            [] OTHER -> FALSE,
      eavesdrop |-> Flag(e, "eavesdrop", FALSE)]

PerClient(rule) == rule.type \in {"send", "receive", "own"}

-----------------------------------------------------------------------------
(***************************************************************************)
(* Which rules apply: the bodies of the loops of check_can_send,           *)
(* check_can_receive and check_can_own.                                    *)
(***************************************************************************)
ReplyApplies(rule, q) ==
  IF rule.allow THEN q.requested_reply \/ ~rule.requested_reply \/ rule.eavesdrop
                ELSE ~q.requested_reply \/ rule.requested_reply

EavesdropApplies(rule, q) ==
  IF rule.allow THEN ~q.eavesdropping \/ rule.eavesdrop
                ELSE q.eavesdropping \/ ~rule.eavesdrop

\* A field that the message lacks does not keep a rule from applying, except the
\* interface, whose absence keeps allow rules from it.
FieldsApply(rule, q) ==
  /\ rule.message_type \in {Null, q.message_type}
  /\ rule.path = Null \/ q.path \in {Null, rule.path}
  /\ \/ rule.interface = Null
     \/ q.interface = rule.interface
     \/ q.interface = Null /\ ~rule.allow
  /\ rule.member = Null \/ q.member \in {Null, rule.member}
  /\ rule.error = Null \/ q.error \in {Null, rule.error}

Applies(rule, q) ==
  /\ rule.type = q.check
  /\ rule.name = Null \/ rule.name \in q.names
  /\ rule.type # "own" => FieldsApply(rule, q) /\ (q.reply => ReplyApplies(rule, q))
  /\ rule.type = "receive" => EavesdropApplies(rule, q)

\* The last rule that applies decides; without one the answer is no.
Allowed(rules, kept, q) ==
  \E i \in kept : /\ Applies(rules[i], q) /\ rules[i].allow
                  /\ \A j \in kept : j > i => ~Applies(rules[j], q)

\* The test of bus_client_policy_optimize.
Overrides(rule) ==
  /\ rule.name = Null
  /\ rule.type # "own" => /\ rule.message_type = Null /\ rule.path = Null /\ rule.interface = Null
                          /\ rule.member = Null /\ rule.error = Null

\* Mutant: every preceding rule goes, whatever its type.
OptimizeAnyType(rules) ==
  {i \in DOMAIN rules : \A j \in DOMAIN rules : j > i => ~Overrides(rules[j])}

\* The positions that remain.  remove_rules_by_type_up_to takes out the rules of
\* the same type before an overriding one, so a rule stays if none follows it.
Optimize(rules) ==
  {i \in DOMAIN rules :
     \A j \in DOMAIN rules : j > i /\ rules[j].type = rules[i].type => ~Overrides(rules[j])}

-----------------------------------------------------------------------------
(***************************************************************************)
(* The lists of a connection, in order: bus_policy_create_client_policy.   *)
(***************************************************************************)
GroupContexts(c) == [i \in DOMAIN Groups[c] |-> <<"group", Groups[c][i]>>]

UserContexts(c) == IF Uid[c] = Null THEN <<>> ELSE <<<<"user", Uid[c]>>, <<"console", Console[c]>>>>

\* Mutant: the mandatory rules come first.
ContextsOfMandatoryFirst(c) == <<<<"mandatory">>, <<"default">>>> \o GroupContexts(c) \o UserContexts(c)

ContextsOf(c) == <<<<"default">>>> \o GroupContexts(c) \o UserContexts(c) \o <<<<"mandatory">>>>

\* The rules of a list go to the end of the client policy, without the ones about
\* users and groups.
AddListToClient(rules, list) ==
  LET added[i \in 0..Len(list)] ==
        IF i = 0 THEN rules
        ELSE IF PerClient(list[i]) THEN Append(added[i - 1], list[i]) ELSE added[i - 1]
  IN added[Len(list)]

\* The lists one after the other.
Joined(p, contexts) ==
  LET joined[k \in 0..Len(contexts)] ==
        IF k = 0 THEN <<>> ELSE AddListToClient(joined[k - 1], p[contexts[k]])
  IN joined[Len(contexts)]

\* May a user connect at all: bus_policy_allow_unix_user.
UserApplies(rule, c) ==
  \/ rule.type = "user" /\ rule.name \in {Null, Uid[c]}
  \/ rule.type = "group" /\ (rule.name = Null \/ \E i \in DOMAIN Groups[c] : rule.name = Groups[c][i])

AllowUnixUser(p, c, owner) ==
  LET rules == p[<<"default">>] \o p[<<"mandatory">>]
      applying == {i \in DOMAIN rules : UserApplies(rules[i], c)}
  IN IF applying = {} THEN owner
     ELSE \E i \in applying : rules[i].allow /\ \A j \in applying : j <= i

-----------------------------------------------------------------------------
NoRules == [x \in Contexts |-> <<>>]

Init ==
  /\ policy = NoRules
  /\ authentic = {}
  /\ client = [c \in Conns |-> Null]
  /\ n_read = 0

\* Rules about users and groups make no sense in the policy of a user or group.
Acceptable(x, e) == WellFormed(e) /\ (x[1] \in {"user", "group"} => PerClient(RuleOf(e)))

\* A configuration is the sequence of its elements, each with its context.
Configurations(n) == UNION {[1..k -> Contexts \X Elements] : k \in 0..n}

\* The rules go to the end of the list of their context.
ListOf(config, x) ==
  LET list[i \in 0..Len(config)] ==
        IF i = 0 THEN <<>>
        ELSE IF config[i][1] = x THEN Append(list[i - 1], RuleOf(config[i][2])) ELSE list[i - 1]
  IN list[Len(config)]

\* The configuration is read and takes effect, at the start or when it is loaded
\* again.  Connections keep the policy they have.
Load(config) ==
  /\ n_read' = n_read + Len(config)
  /\ \A i \in DOMAIN config : Acceptable(config[i][1], config[i][2])
  /\ policy' = [x \in Contexts |-> ListOf(config, x)]
  /\ UNCHANGED <<authentic, client>>

\* The transport asks the policy of that moment about the Unix user, if there is one.
Authenticate(c, owner) ==
  /\ c \notin authentic
  /\ Uid[c] # Null => AllowUnixUser(policy, c, owner)
  /\ authentic' = authentic \cup {c}
  /\ UNCHANGED <<policy, client, n_read>>

\* bus_connection_complete, with the policy of its own moment
Complete(c) ==
  /\ c \in authentic /\ client[c] = Null
  /\ LET rules == Joined(policy, ContextsOf(c))
     IN client' = [client EXCEPT ![c] = [rules |-> rules, kept |-> Optimize(rules),
                                         mandatory |-> policy[<<"mandatory">>]]]
  /\ UNCHANGED <<policy, authentic, n_read>>

Disconnect(c) ==
  /\ c \in authentic
  /\ authentic' = authentic \ {c}
  /\ client' = [client EXCEPT ![c] = Null]
  /\ UNCHANGED <<policy, n_read>>

Next ==
  \/ \E config \in Configurations(MaxRules - n_read) : Load(config)
  \/ \E c \in Conns : \/ \E owner \in BOOLEAN : Authenticate(c, owner)
                      \/ Complete(c)
                      \/ Disconnect(c)

Spec == Init /\ [][Next]_vars

-----------------------------------------------------------------------------
(***************************************************************************)
(* Properties.                                                             *)
(***************************************************************************)

\* Every rule the optimiser takes to override others applies to the query.  This
\* fails for replies, whose rules ask who requested them, and for receive rules
\* that are about eavesdropping only.
Plain(rules, q) ==
  \A i \in DOMAIN rules : Overrides(rules[i]) /\ rules[i].type = q.check => Applies(rules[i], q)

Sound(rules, q) == Allowed(rules, Optimize(rules), q) = Allowed(rules, DOMAIN rules, q)

\* The optimised policy of a connection gives the answers of all its rules, for
\* every message that the overriding rules apply to.
OptimizeSound ==
  \A c \in Conns : client[c] # Null =>
    \A q \in Queries : Plain(client[c].rules, q) =>
      Allowed(client[c].rules, client[c].kept, q)
        = Allowed(client[c].rules, DOMAIN client[c].rules, q)

\* What the mandatory context says about a message is what the policy of every
\* connection answers, whatever other contexts say and the optimiser removes.
MandatoryFinal ==
  \A c \in Conns : client[c] # Null =>
    LET mandatory == client[c].mandatory
    IN \A q \in Queries :
         Plain(client[c].rules, q) /\ (\E i \in DOMAIN mandatory : Applies(mandatory[i], q)) =>
           Allowed(client[c].rules, client[c].kept, q) = Allowed(mandatory, DOMAIN mandatory, q)

\* The optimised policy answers every question like the rules it was made from:
\* "the deny will always override the allow.  So we delete the allow."
DenyOverrides ==
  \A c \in Conns : client[c] # Null =>
    \A q \in Queries : Allowed(client[c].rules, client[c].kept, q)
                         = Allowed(client[c].rules, DOMAIN client[c].rules, q)
=============================================================================
