----------------------------- MODULE WatchList -----------------------------
(***************************************************************************)
(* A DBusWatchList (dbus/dbus-watch.c): the watches of a connection, a     *)
(* server or a babysitter, and the functions by which a main loop learns   *)
(* of them.  A main loop may refuse a watch when it is out of memory.      *)
(* DBusTimeoutList (dbus/dbus-timeout.c) is the same, word for word.       *)
(***************************************************************************)
EXTENDS Naturals

CONSTANTS
  Items,   \* the watches
  Loops,   \* the main loops that may be asked to watch them
  NoLoop   \* the functions are not set

LoopAssumption == NoLoop \notin Loops

VARIABLES
  watches,   \* the watches of the list
  enabled,   \* those that are enabled
  loop,      \* whose functions are set
  added,     \* what each main loop was told to watch, and not to forget
  told       \* what each main loop believes to be enabled

vars == <<watches, enabled, loop, added, told>>

Init ==
  /\ watches = {}
  /\ enabled \in SUBSET Items
  /\ loop = NoLoop
  /\ added = [l \in Loops |-> {}]
  /\ told = [l \in Loops |-> {}]

\* The main loop reads the flag when it is told of the watch.
Learns(l, S) ==
  /\ added' = [added EXCEPT ![l] = @ \cup S]
  /\ told' = [told EXCEPT ![l] = @ \cup (S \cap enabled)]

Forgets(l, S) ==
  /\ added' = [added EXCEPT ![l] = @ \ S]
  /\ told' = [told EXCEPT ![l] = @ \ S]

\* _dbus_watch_list_add_watch: what the main loop refuses is taken out again.
AddWatch(w) ==
  /\ w \notin watches
  /\ \/ /\ watches' = watches \cup {w}
        /\ IF loop = NoLoop THEN UNCHANGED <<added, told>> ELSE Learns(loop, {w})
     \/ UNCHANGED <<watches, added, told>>
  /\ UNCHANGED <<enabled, loop>>

\* _dbus_watch_list_remove_watch
RemoveWatch(w) ==
  /\ w \in watches
  /\ watches' = watches \ {w}
  /\ IF loop = NoLoop THEN UNCHANGED <<added, told>> ELSE Forgets(loop, {w})
  /\ UNCHANGED <<enabled, loop>>

\* _dbus_watch_list_toggle_watch
ToggleWatch(w) ==
  /\ w \in watches
  /\ enabled' = (enabled \ {w}) \cup ({w} \ enabled)
  /\ told' = IF loop = NoLoop THEN told
             ELSE [told EXCEPT ![loop] = (@ \ {w}) \cup ({w} \ enabled)]
  /\ UNCHANGED <<watches, loop, added>>

\* Mutant: the main loop that gives way is not told.
SetFunctionsQuietly(l) ==
  /\ l # loop
  /\ loop' = l
  /\ Learns(l, watches)
  /\ UNCHANGED <<watches, enabled>>

\* _dbus_watch_list_set_functions to those of another main loop: it is told of
\* all watches, then the last one forgets them.
SetFunctions(l) ==
  /\ l # loop
  /\ loop' = l
  /\ added' = [k \in Loops |-> IF k = l THEN added[k] \cup watches
                               ELSE IF k = loop THEN added[k] \ watches ELSE added[k]]
  /\ told' = [k \in Loops |-> IF k = l THEN told[k] \cup (watches \cap enabled)
                              ELSE IF k = loop THEN told[k] \ watches ELSE told[k]]
  /\ UNCHANGED <<watches, enabled>>

\* The new main loop is out of memory after some of the watches (S); it is told
\* to forget those, and the last functions stay.
SetFunctionsFails(l, S) ==
  /\ l # loop
  /\ S \subseteq watches /\ S # watches
  /\ added' = [added EXCEPT ![l] = (@ \cup S) \ S]
  /\ told' = [told EXCEPT ![l] = (@ \cup (S \cap enabled)) \ S]
  /\ UNCHANGED <<watches, enabled, loop>>

\* No functions: what _dbus_watch_list_free begins with.
UnsetFunctions ==
  /\ loop # NoLoop
  /\ Forgets(loop, watches)
  /\ loop' = NoLoop
  /\ UNCHANGED <<watches, enabled>>

Next ==
  \/ \E w \in Items : AddWatch(w) \/ RemoveWatch(w) \/ ToggleWatch(w)
  \/ \E l \in Loops : SetFunctions(l) \/ \E S \in SUBSET Items : SetFunctionsFails(l, S)
  \/ UnsetFunctions

Spec == Init /\ [][Next]_vars

-----------------------------------------------------------------------------
(* Properties *)

TypeOK ==
  /\ watches \in SUBSET Items
  /\ enabled \in SUBSET Items
  /\ loop \in Loops \cup {NoLoop}
  /\ added \in [Loops -> SUBSET Items]
  /\ told \in [Loops -> SUBSET Items]

\* The main loop whose functions are set watches what is in the list, and has
\* the flags right; every other one watches nothing, also after it refused some
\* watch half way.
LoopsAgree ==
  \A l \in Loops :
    /\ added[l] = (IF l = loop THEN watches ELSE {})
    /\ told[l] = (IF l = loop THEN watches \cap enabled ELSE {})
=============================================================================
