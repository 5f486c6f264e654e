------------------------------ MODULE MCPeers -------------------------------
(***************************************************************************)
(* Small instances of Peers, connections of one user and one without, of   *)
(* RegistryTransaction, three connections and a pool with one slot more    *)
(* than there are connections, of Authentication, of the Keyring two       *)
(* servers share, and of a Transport.  A behaviour is one of the part that *)
(* runs; the others stay as they were, with nothing to do.                 *)
(***************************************************************************)
EXTENDS Peers

CONSTANTS
  Parts,              \* "connections", "transaction", "authentication", "keyring", "transport"
  LateOom,            \* see RegistryTransaction
  c1, c2, c3, o1, o2, o3, o4, NoObj

VARIABLES
  part,
  owners, refcount, conn, owned, hooks, step, client, saved,
  ends, authClient, authServer, toServer, toClient, noMemory, world,
  now, file, lock, server, handed, made, crashes, broken,
  transport, wire, peer, held, lowMemory

Asks(c, s, d, f) == [go_to |-> c, sender |-> s, destination |-> d, filter |-> f]

SmallRules ==
  {Asks(c1, NoConn, NoConn, {1}), Asks(c1, c2, NoConn, {1, 2}), Asks(c2, NoConn, c3, {1}),
   Asks(c3, Driver, NoConn, {2})}

NotTo == {<<c1, c3>>}

OneUser == [c \in Conns |-> IF c = c2 THEN NoConn ELSE "u"]

Pool == {o1, o2, o3, o4}
Transaction == INSTANCE RegistryTransaction WITH Objs <- Pool
ASSUME Transaction!TransactionAssumption

Auth == INSTANCE Authentication WITH client <- authClient, server <- authServer,
          Me <- "me", Other <- "other", MaxFailures <- 3, MaxBuffer <- 1, MaxNoMemory <- 2
ASSUME Auth!AuthAssumption

Cookies == INSTANCE Keyring WITH Servers <- {"s1", "s2"}, NewKeyTimeout <- 2, ExpireKeysTimeout <- 3,
             MaxTimeTravel <- 2, MaxLockTimeouts <- 1, MaxKeysInFile <- 5, MaxLag <- 1, MaxTime <- 4,
             MaxKeys <- 2, MaxCrashes <- 1

Socket == INSTANCE Transport WITH t <- transport, noMemory <- lowMemory, Sizes <- {1, 2}, MaxLive <- 2,
            MaxItems <- 3, ReadSize <- 2, MaxNoMemory <- 1

-----------------------------------------------------------------------------
transactionVars == <<owners, refcount, conn, owned, hooks, step, client, saved>>
authVars == <<ends, authClient, authServer, toServer, toClient, noMemory, world>>
keyringVars == <<now, file, lock, server, handed, made, crashes, broken>>
transportVars == <<transport, wire, peer, held, lowMemory>>
allVars == <<part, vars, transactionVars, authVars, keyringVars, transportVars>>

\* Nobody talks.
Silence ==
  /\ ends = {} /\ authClient = [state |-> "Closed"] /\ authServer = [state |-> "Closed"]
  /\ toServer = <<>> /\ toClient = <<>> /\ noMemory = 0 /\ world = {}

NoSocket == transport = {} /\ wire = <<>> /\ peer = {} /\ held = <<>> /\ lowMemory = 0

PartsInit ==
  /\ part \in Parts /\ Init /\ Transaction!Init /\ Cookies!Init
  /\ IF part = "authentication" THEN Auth!Init ELSE Silence
  /\ IF part = "transport" THEN Socket!Init ELSE NoSocket

PartsNext ==
  /\ UNCHANGED part
  /\ \/ part = "connections" /\ Next
        /\ UNCHANGED <<transactionVars, authVars, keyringVars, transportVars>>
     \/ part = "transaction" /\ Transaction!Next
        /\ UNCHANGED <<vars, authVars, keyringVars, transportVars>>
     \/ part = "authentication" /\ Auth!Next
        /\ UNCHANGED <<vars, transactionVars, keyringVars, transportVars>>
     \/ part = "keyring" /\ Cookies!Next
        /\ UNCHANGED <<vars, transactionVars, authVars, transportVars>>
     \/ part = "transport" /\ Socket!Next
        /\ UNCHANGED <<vars, transactionVars, authVars, keyringVars>>

PartsSpec == PartsInit /\ [][PartsNext]_allVars /\ Fairness /\ Auth!Fairness

\* See RegistryTransaction: every reference to an owner is counted, and what a
\* transaction that is cancelled did to a queue is undone.
CancelSafely == []Transaction!RefsExact /\ Transaction!CancelKeepsQueue
SelfCancelling == Transaction!SelfCancelling

\* See Authentication: the server authenticates nobody who proved nothing, and
\* two ends of this library come to an end.
Authenticates == []Auth!AuthSound /\ Auth!ConversationEnds

\* See Keyring: a key that was handed out is in the file while it counts.
KeyFound == Cookies!KeyFound

\* See Transport: the read watch follows the size of the live messages.
Backpressure == part = "transport" => Socket!Backpressure
=============================================================================
