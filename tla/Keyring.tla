------------------------------- MODULE Keyring -------------------------------
(***************************************************************************)
(* The keyring file of DBUS_COOKIE_SHA1 (dbus/dbus-keyring.c): servers in  *)
(* several processes hand out the identifier of a recent key of the file,  *)
(* adding one when there is none, and their clients look that key up in    *)
(* the same file.  The file is locked by the existence of another one,     *)
(* which is taken to be stale when it stays too long.                      *)
(***************************************************************************)
EXTENDS Integers, Sequences, FiniteSets, SequencesExt

CONSTANTS
  Servers,
  NewKeyTimeout,      \* NEW_KEY_TIMEOUT_SECONDS
  ExpireKeysTimeout,  \* EXPIRE_KEYS_TIMEOUT_SECONDS
  MaxTimeTravel,      \* MAX_TIME_TRAVEL_SECONDS
  MaxLockTimeouts,    \* MAX_LOCK_TIMEOUTS
  MaxKeysInFile,      \* MAX_KEYS_IN_FILE
  MaxLag,             \* bound on how long a reload takes
  MaxTime,            \* bound on the clock
  MaxKeys,            \* bound on keys ever made
  MaxCrashes

VARIABLES
  now,
  file,      \* the keys in the keyring file, oldest line first
  lock,      \* the lock file exists
  server,    \* what each server is doing
  handed,    \* the keys handed out, and when, while they can be counted on
  made,      \* keys made so far: the next identifier
  crashes,
  broken     \* the lock file of a server still at work was deleted

vars == << now, file, lock, server, handed, made, crashes, broken >>

Idle == [pc |-> "idle", keys |-> <<>>, tries |-> 0, began |-> 0, owns |-> FALSE]

\* A mistake: keys that are not recent enough to be handed out are dropped.
FreshIfRecent(key, at) ==
  /\ ~(at + MaxTimeTravel < key.time)
  /\ at - NewKeyTimeout < key.time

\* The lines of the file that are loaded: not from too far in the future, not
\* expired, and, when a key will be added, leaving room for it.
Fresh(key, at) ==
  /\ ~(at + MaxTimeTravel < key.time)
  /\ ~(at - ExpireKeysTimeout > key.time)

Loaded(lines, at, add_new) ==
  LET fresh == SelectSeq(lines, LAMBDA key : Fresh(key, at))
      room == IF add_new THEN MaxKeysInFile - 1 ELSE MaxKeysInFile
  IN  SubSeq(fresh, 1, IF Len(fresh) < room THEN Len(fresh) ELSE room)

Recent(keys) == {i \in DOMAIN keys : now - NewKeyTimeout < keys[i].time}
find_recent_key(keys) == keys[CHOOSE i \in Recent(keys) : \A j \in Recent(keys) : i <= j]

\* Until when a key that was handed out can be counted on.
Promised(h) == h.at + (ExpireKeysTimeout - NewKeyTimeout)

Become(s, to) == server' = [server EXCEPT ![s] = to]
Goto(s, pc) == Become(s, [server[s] EXCEPT !.pc = pc])

----------------------------------------------------------------------------

\* A server that authenticates a client loads the keyring of that client's user,
\* without the lock.
_dbus_keyring_new_for_credentials(s) ==
  /\ server[s].pc = "idle"
  /\ Become(s, [Idle EXCEPT !.pc = "best", !.keys = Loaded(file, now, FALSE)])
  /\ UNCHANGED << now, file, lock, handed, made, crashes, broken >>

\* It hands out a recent key, or adds one and then looks again.
_dbus_keyring_get_best_key(s) ==
  /\ server[s].pc \in {"best", "again"}
  /\ IF Recent(server[s].keys) # {}
     THEN /\ handed' = handed \cup {[key |-> find_recent_key(server[s].keys), at |-> now]}
          /\ Become(s, Idle)
     ELSE /\ Become(s, IF server[s].pc = "again" THEN Idle
                       ELSE [server[s] EXCEPT !.pc = "lock", !.tries = 0, !.began = now])
          /\ UNCHANGED handed
  /\ UNCHANGED << now, file, lock, made, crashes, broken >>

\* The lock file is created if it is not there; if it is there at every attempt
\* it is deleted and created once more.
_dbus_keyring_lock(s) ==
  /\ server[s].pc = "lock"
  /\ IF ~lock
     THEN /\ lock' = TRUE
          /\ Become(s, [server[s] EXCEPT !.pc = "read", !.tries = 0, !.owns = TRUE])
     ELSE /\ Become(s, [server[s] EXCEPT
                          !.tries = @ + 1,
                          !.pc = IF @ = "lock" /\ server[s].tries + 1 = MaxLockTimeouts
                                 THEN "stale" ELSE @])
          /\ UNCHANGED lock
  /\ UNCHANGED << now, file, handed, made, crashes, broken >>

DeleteStale(s) ==
  /\ server[s].pc = "stale"
  /\ IF lock
     THEN /\ lock' = FALSE
          /\ broken' = (broken \/ \E t \in Servers : server[t].owns)
          /\ Goto(s, "create")
     ELSE Become(s, Idle) /\ UNCHANGED << lock, broken >>
  /\ UNCHANGED << now, file, handed, made, crashes >>

CreateAfterStale(s) ==
  /\ server[s].pc = "create"
  /\ IF ~lock
     THEN lock' = TRUE /\ Become(s, [server[s] EXCEPT !.pc = "read", !.tries = 0, !.owns = TRUE])
     ELSE Become(s, Idle) /\ UNCHANGED lock
  /\ UNCHANGED << now, file, handed, made, crashes, broken >>

\* With the lock, the file is read, a key with an identifier of its own is added
\* and the file is saved in one step (a rename); lack of memory or of space
\* leaves it as it was.
_dbus_keyring_reload(s) ==
  /\ server[s].pc = "read"
  /\ Become(s, [server[s] EXCEPT !.pc = "save",
                                 !.keys = Loaded(file, server[s].began, TRUE)])
  /\ UNCHANGED << now, file, lock, handed, made, crashes, broken >>

add_new_key(keys) == Append(keys, [id |-> made + 1, time |-> now])

SaveKeyring(s) ==
  /\ server[s].pc = "save"
  /\ \/ /\ made < MaxKeys
        /\ LET keys == add_new_key(server[s].keys)
           IN  /\ file' = keys
               /\ Become(s, [server[s] EXCEPT !.pc = "unlock", !.keys = keys])
        /\ made' = made + 1
     \/ Goto(s, "failed") /\ UNCHANGED << file, made >>
  /\ UNCHANGED << now, lock, handed, crashes, broken >>

\* Whoever created the lock file, it is deleted.
_dbus_keyring_unlock(s) ==
  /\ server[s].pc \in {"unlock", "failed"}
  /\ lock' = FALSE
  /\ broken' = (broken \/ \E t \in Servers \ {s} : server[t].owns)
  /\ IF server[s].pc = "failed" THEN Become(s, Idle)
     ELSE Become(s, [server[s] EXCEPT !.pc = "again", !.owns = FALSE, !.began = 0])
  /\ UNCHANGED << now, file, handed, made, crashes >>

\* A server may die, its lock file staying behind.
Crash(s) ==
  /\ crashes < MaxCrashes
  /\ server[s].pc # "idle"
  /\ crashes' = crashes + 1
  /\ Become(s, Idle)
  /\ UNCHANGED << now, file, lock, handed, made, broken >>

\* From the time a reload takes for its own to the saving of the file at most
\* MaxLag passes: the waits for the lock are seconds, the timeouts minutes.
Tick ==
  /\ now < MaxTime
  /\ \A s \in Servers : server[s].pc \in {"lock", "stale", "create", "read", "save"} =>
                          now < server[s].began + MaxLag
  /\ now' = now + 1
  /\ handed' = {h \in handed : now' <= Promised(h)}
  /\ UNCHANGED << file, lock, server, made, crashes, broken >>

Init ==
  /\ now = 0
  /\ file = <<>>
  /\ lock = FALSE
  /\ server = [s \in Servers |-> Idle]
  /\ handed = {}
  /\ made = 0
  /\ crashes = 0
  /\ broken = FALSE

Next ==
  \/ \E s \in Servers :
       \/ _dbus_keyring_new_for_credentials(s)
       \/ _dbus_keyring_get_best_key(s)
       \/ _dbus_keyring_lock(s)
       \/ DeleteStale(s)
       \/ CreateAfterStale(s)
       \/ _dbus_keyring_reload(s)
       \/ SaveKeyring(s)
       \/ _dbus_keyring_unlock(s)
       \/ Crash(s)
  \/ Tick

Spec == Init /\ [][Next]_vars

----------------------------------------------------------------------------

\* The client that is told the identifier of a key, and loads the file within
\* the time between the two timeouts, finds that key there, whatever other
\* servers add and expire meanwhile and whichever of them die, as long as no
\* lock file was taken from a server that was only slow (_dbus_keyring_reload,
\* find_recent_key, _dbus_keyring_get_hex_key).
KeyFound ==
  ~broken =>
    \A h \in handed :
      now <= Promised(h) => h.key \in Range(Loaded(file, now, FALSE))
=============================================================================
