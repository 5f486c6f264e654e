----------------------------- MODULE MCLibrary ------------------------------
(***************************************************************************)
(* Small instances of the parts of the library that keep no company: a     *)
(* message on its way through the bus and the values, names and signatures *)
(* it is made of (Message and what it extends), shared connections, the    *)
(* main loop, the watch list, the object tree, and the routines of the     *)
(* tables.  A behaviour is one of the part that runs; the others have      *)
(* nothing to do.  The watch list, the tree, the routines and the values   *)
(* share the variables v1 .. v7, which mean what their part says.          *)
(***************************************************************************)
EXTENDS Message

CONSTANTS Components, t1, t2, c1, c2, watch1, watch2, l1, l2, h1, h2, Nil

VARIABLES
  part,
  hasGuid, conn, table, noGuid, slot, bus, pool, thread, crash,
  loop, cb, frames,
  v1, v2, v3, v4, v5, v6, v7

Sharing == INSTANCE SharedConnections WITH Threads <- {t1, t2}, Conns <- {c1, c2}, BusLocked <- TRUE, None <- Nil
ASSUME Sharing!SharedAssumption

Casts == {{watch1, watch2}, {watch1, t1}}
Looping == INSTANCE MainLoop WITH Watches <- {watch1, watch2}, Timeouts <- {t1}, MaxDepth <- 2, MaxDispatch <- 1

Watching == INSTANCE WatchList WITH Items <- {watch1, watch2}, Loops <- {l1, l2}, NoLoop <- Nil,
              watches <- v1, enabled <- v2, loop <- v3, added <- v4, told <- v5
ASSUME Watching!LoopAssumption

\* /a, /a/a and /b
TreePaths == {<<47, 97>>, <<47, 97, 47, 97>>, <<47, 98>>}
Objects == INSTANCE ObjectTree WITH Paths <- TreePaths, Handlers <- {h1, h2}, MaxNodes <- 4, None <- Nil,
          nodes <- v1, root <- v2, dispatch <- v3, registered <- v4

Tables == INSTANCE MCRoutines
AllRoutines == Tables!Code
Running == INSTANCE Routines WITH Code <- AllRoutines, name <- v1, pc <- v2, held <- v3, error <- v4,
             status <- v5, promise <- v6, faults <- v7

-----------------------------------------------------------------------------
(***************************************************************************)
(* Messages: one of each type and one of an unknown type.                  *)
(***************************************************************************)
Four(n) == Word(n, 4)

SmallKinds ==
  {[type |-> METHOD_CALL, args |-> PATH :> <<47>> @@ MEMBER :> <<97>>],
   [type |-> METHOD_RETURN, args |-> DESTINATION :> <<58, 49, 46, 49>> @@ REPLY_SERIAL :> Four(5)],
   [type |-> SIGNAL, args |-> PATH :> <<47, 97>> @@ INTERFACE :> <<97, 46, 97>> @@ MEMBER :> <<97>>],
   [type |-> ERROR, args |-> ERROR_NAME :> <<97, 46, 98>> @@ REPLY_SERIAL :> Four(5)],
   [type |-> 9, args |-> <<>>]}

SmallFieldValues == MEMBER :> {<<97, 98, 99>>} @@ REPLY_SERIAL :> {Four(6)} @@ PATH :> {<<47, 97, 98>>}

\* "a", the array of the number 7, a variant with the byte 9
SmallArguments ==
  {[t |-> STRING_, v |-> <<97>>], [t |-> ARRAY, elem |-> <<UINT32>>, v |-> <<[t |-> UINT32, v |-> Four(7)]>>],
   [t |-> VARIANT, v |-> [t |-> BYTE, v |-> <<9>>]]}

ColonOneDotTwo == <<58, 49, 46, 50>>
SomeInterface == <<76, 46, 97>>
SomePath == <<47, 76>>

-----------------------------------------------------------------------------
(***************************************************************************)
(* Words and values.  v1 says what v2 is, and how many letters or values   *)
(* it may still grow by is v3.                                             *)
(***************************************************************************)
Letters ==
  [name |-> {46, 47, 97, 49, 45, 58},                        \* ./a1-:
   utf8 |-> {97, 0, 128, 143, 160, 191, 193, 194, 224, 237, 240, 244},
   signature |-> {115, 97, 118, 40, 41, 123, 125}]           \* sav(){}

\* Words to start from: the empty one, and those that come close to a limit.
Words ==
  [name |-> {<<<<>>, 5>>, <<[i \in 1 .. MaxName - 1 |-> 97], 2>>, <<<<97, 46>> \o [i \in 1 .. MaxName - 3 |-> 97], 2>>},
   utf8 |-> {<<<<>>, 3>>, <<<<240, 160>>, 2>>},
   signature |-> {<<<<>>, 4>>, <<<<97, 123>>, 4>>, <<<<40>>, 4>>, <<[i \in 1 .. MaxDepth |-> 97], 2>>,
                  <<<<40, 40, 40, 40, 115, 41, 41, 41, 41>>, 0>>,
                  <<<<97, 123, 115, 97, 123, 115, 97, 123, 115, 115, 125, 125, 125>>, 0>>}]

B(t, x) == [t |-> t, v |-> IF dbus_type_is_fixed(t) THEN Word(x, dbus_type_get_alignment(t)) ELSE x]
A(e, x) == [t |-> ARRAY, v |-> x, elem |-> e]

Short == {B(BYTE, 7), B(STRING_, <<>>), B(STRING_, <<97, 98>>), B(UINT32, 258)}
Basics == Short \cup {B(UINT64, 3), B(INT16, 5), B(BOOLEAN_, 1), B(SIGNATURE, <<115>>), B(OBJECT_PATH, <<47>>)}
Strings97 == A(<<STRING_>>, <<B(STRING_, <<97>>)>>)
Arrays(S) ==
  {A(Sig(a), <<>>) : a \in S} \cup {A(Sig(a), <<a>>) : a \in S}
    \cup {A(Sig(p[1]), p) : p \in {q \in S \X S : Sig(q[1]) = Sig(q[2])}}
Structs(S) == {B(STRUCT, p) : p \in S \X S}
Variants(S) == {B(VARIANT, a) : a \in S}
Entries == {B(DICT_ENTRY, <<a, b>>) : a \in {B(STRING_, <<97>>), B(BYTE, 1)}, b \in Variants({B(BYTE, 7), B(UINT32, 258)})}
Containers == Arrays(Short \cup {B(UINT64, 3)}) \cup Structs(Short) \cup Variants(Basics)
Deeper ==
  Arrays(Entries)
    \cup Arrays({A(<<STRING_>>, <<>>), Strings97, A(<<UINT64>>, <<>>)})
    \cup Arrays(Variants({B(BYTE, 1), B(UINT32, 1)}))
    \cup Variants({B(STRUCT, <<B(BYTE, 1), Strings97>>), A(<<UINT64>>, <<>>), A(<<UINT64>>, <<B(UINT64, 1)>>)})
    \cup {B(STRUCT, <<Strings97, x>>) : x \in Short}

\* What a basic value is changed to, shorter and longer.
Changed(t) ==
  CASE dbus_type_is_fixed(t) -> {Word(0, dbus_type_get_alignment(t))}
    [] t = STRING_ -> {<<>>, <<98>>, <<98, 98, 98, 98, 98>>}
    [] t = SIGNATURE -> {<<>>, <<117, 117>>}
    [] t = OBJECT_PATH -> {<<47, 97>>}

\* A byte is another one, bytes are missing, one is too many.
Damaged(s) ==
  {[s EXCEPT ![i] = b] : i \in DOMAIN s, b \in {0, 1, 2, 4, 12, 115, 255}}
    \cup {SubSeq(s, 1, n) : n \in 0 .. Len(s)} \cup {s \o <<0>>}

ValuesInit ==
  \/ /\ v1 \in DOMAIN Letters
     /\ \E w \in Words[v1] : v2 = w[1] /\ v3 = w[2]
  \/ /\ v1 \in {"body", "edited", "damaged"}
     /\ v2 \in {<<>>} \cup {<<x>> : x \in Basics \cup Containers \cup Deeper} /\ v3 = 1

ValuesNext ==
  /\ v3 > 0 /\ v3' = v3 - 1 /\ UNCHANGED v1
  /\ IF v1 \in DOMAIN Letters
     THEN \E a \in Letters[v1] : v2' = Append(v2, a)
     ELSE v2' \in {<<B(BYTE, 1)>> \o v2, <<B(STRING_, <<97>>)>> \o v2, v2 \o <<B(BYTE, 1)>>, v2 \o <<B(UINT32, 9)>>}

\* The array of numbers is not checked for whole numbers.
Solid(vs) ==
  LET s == BodySig(vs) IN \A i \in 1 .. Len(s) - 1 : ~(s[i] = ARRAY /\ s[i + 1] \in {UINT32, UINT64})

-----------------------------------------------------------------------------
sharingVars == <<hasGuid, conn, table, noGuid, slot, bus, pool, thread, crash>>
loopVars == <<loop, cb, frames>>
partVars == <<v1, v2, v3, v4, v5, v6, v7>>
allVars == <<part, vars, sharingVars, loopVars, partVars>>

NoMessage ==
  /\ stage = "none" /\ native = LE /\ m = {} /\ wire = <<>> /\ said = {}
  /\ failed = FALSE /\ swapped = FALSE /\ edits = 0

NoSharing ==
  /\ hasGuid = FALSE /\ conn = [c \in {c1, c2} |-> Sharing!Unborn] /\ table = Nil /\ noGuid = {}
  /\ slot = Nil /\ bus = Nil /\ pool = Nil /\ thread = [t \in {t1, t2} |-> Sharing!Idle] /\ crash = "none"

NoLoop ==
  /\ loop = [callbacks |-> <<>>, watch_count |-> 0, timeout_count |-> 0, depth |-> 1, need_dispatch |-> 0]
  /\ cb = [c \in {watch1, watch2, t1} |-> Looping!NewCallback] /\ frames = <<>>

PartsInit ==
  /\ part \in Components
  /\ IF part = "message" THEN Init ELSE NoMessage
  /\ IF part = "sharing" THEN Sharing!Init ELSE NoSharing
  /\ IF part = "loop" THEN Looping!Init ELSE NoLoop
  /\ CASE part = "watches" -> Watching!Init /\ v6 = 0 /\ v7 = 0
       [] part = "tree" -> Objects!Init /\ v5 = 0 /\ v6 = 0 /\ v7 = 0
       [] part = "routines" -> Running!Init
       [] part = "values" -> ValuesInit /\ v4 = 0 /\ v5 = 0 /\ v6 = 0 /\ v7 = 0
       [] OTHER -> v1 = 0 /\ v2 = 0 /\ v3 = 0 /\ v4 = 0 /\ v5 = 0 /\ v6 = 0 /\ v7 = 0

PartsNext ==
  /\ UNCHANGED part
  /\ \/ part = "message" /\ Next /\ UNCHANGED <<sharingVars, loopVars, partVars>>
     \/ part = "sharing" /\ Sharing!Next /\ UNCHANGED <<vars, loopVars, partVars>>
     \/ part = "loop" /\ Looping!Next /\ UNCHANGED <<vars, sharingVars, partVars>>
     \/ /\ UNCHANGED <<vars, sharingVars, loopVars>>
        /\ \/ part = "watches" /\ Watching!Next /\ UNCHANGED <<v6, v7>>
           \/ part = "tree" /\ Objects!Next /\ UNCHANGED <<v5, v6, v7>>
           \/ part = "routines" /\ Running!Next
           \/ part = "values" /\ ValuesNext /\ UNCHANGED <<v4, v5, v6, v7>>

PartsSpec == PartsInit /\ [][PartsNext]_allVars

-----------------------------------------------------------------------------
(***************************************************************************)
(* Properties: see the modules.                                            *)
(***************************************************************************)

\* Validation: the hand-written checks accept what the grammar of names, of
\* UTF-8 and of signatures says.
WordsExact ==
  part = "values" =>
    /\ v1 \in {"name", "utf8"} => NamesExact(v2)
    /\ v1 = "signature" => NestedSignatureExact(v2)

\* Marshalling: what is written can be read, edited in place and byte-swapped,
\* and damage is noticed.
ValuesExact ==
  part = "values" =>
    /\ v1 = "body" => Marshalled(v2)
    /\ v1 = "edited" => EditedInPlace(v2, Changed)
    /\ v1 = "damaged" /\ Solid(v2) => ValidatedBody(v2, Damaged)

\* Message: the bytes are those of what was asked for, through edits, reuse and
\* the bus.
MessagesExact == part = "message" => MessageExact /\ Delivered

\* Message: the first byte of the header says in which byte order the header and
\* the body are, also after _dbus_header_byteswap and _dbus_marshal_byteswap
\* turned both into the order of this machine.
FlagTrue == part = "message" => EndiannessFlagTrue

\* SharedConnections: the reference count of a connection is the number of
\* references the threads and libdbus have, so that neither a thread nor the weak
\* reference of dbus-bus.c names a finalized one; and once its disconnect message
\* is queued, dbus_connection_open and dbus_bus_get never return it again.
SharedSafely == []Sharing!SharedSound /\ Sharing!NeverReturnedAgain

\* MainLoop: the counts of the loop and the reference counts of its callbacks are
\* exact, and _dbus_loop_iterate calls a handler only while its watch or timeout
\* is in the list and enabled and its loop runs, whatever the handlers before it
\* in the same iteration added, removed, or ran the loop for.
LoopSafely == []Looping!LoopSound /\ Looping!CalledWhileListed

\* WatchList: the main loop whose functions are set watches exactly what is in the
\* list and no other one watches anything, also after
\* _dbus_watch_list_set_functions ran out of memory half way.
LoopsAgree == part = "watches" => Watching!LoopsAgree

\* ObjectTree: the handlers found for a path are the registered one and the
\* registered fallbacks above it, deepest first, after failed registrations and
\* unregistrations during a dispatch too; a node is freed when neither the tree
\* nor a running dispatch refers to it, and not before.
TreeExact == part = "tree" => Objects!HandlersExact /\ Objects!TreeSound

\* Routines: a function of the tables that ends, at whichever step it failed,
\* holds what it promises its caller and nothing else, leaks its table names
\* apart, and has set its DBusError exactly when it failed.
RoutinesClean == part = "routines" => Running!NoLeak /\ Running!ErrorContract
=============================================================================
