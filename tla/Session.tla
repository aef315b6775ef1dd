------------------------------- MODULE Session -------------------------------
(***************************************************************************)
(* A client's way into the game and out of it: Connection (connection.cpp), *)
(* ProtocolGame::login, connect, logout and release (protocolgame.cpp), and *)
(* the reference counts that keep the Player alive.                         *)
(*                                                                          *)
(* Three threads act: the network thread runs one completion handler of one *)
(* connection at a time, holding its connectionLock; the dispatcher runs    *)
(* the queued tasks; the scheduler fires eventConnect.  All clients ask for *)
(* the same character, on a server with replaceKickOnLogin and without      *)
(* allowClones.  A Player object is named by the client whose login made it.*)
(***************************************************************************)
EXTENDS Integers, Sequences, FiniteSets

CONSTANTS
  Client,   \* the connections, each with its ProtocolGame
  Nobody,
  MaxRef    \* the largest referenceCounter (2^32 - 1 in the code)

ASSUME SessionAssumption == Nobody \notin Client /\ MaxRef \in Nat /\ MaxRef > 2

VARIABLES
  state,       \* "none", or Connection::connectionState, disconnected or not
  socket,      \* the socket is open
  pending,     \* the asynchronous reads and writes in progress
  first,       \* Connection::receivedFirst
  net,         \* the handler the network thread is in
  tasks,       \* the dispatcher's list
  eventConnect,\* the player a scheduled connect() is for
  player,      \* ProtocolGame::player
  accepts,     \* ProtocolGame::acceptPackets
  client,      \* Player::client
  refs,        \* Player::referenceCounter
  held,        \* the game holds its references: those of its maps and of its check list
               \* (game.cpp:5563), counted as one
  online,      \* the players in the game's maps
  freed        \* the deleted Player objects

vars == <<state, socket, pending, first, net, tasks, eventConnect, player, accepts,
          client, refs, held, online, freed>>

connVars   == <<state, socket, pending>>
playerVars == <<player, client, refs, held, online, freed>>

Idle == [client |-> Nobody, at |-> "idle", reads |-> Nobody]
Handler(c, at, o) == [client |-> c, at |-> at, reads |-> o]

Task(kind, c, o) == [kind |-> kind, client |-> c, target |-> o]
ReleaseTask(c) == Task("release", c, Nobody)

Init ==
  /\ state = [c \in Client |-> "none"]
  /\ socket = [c \in Client |-> FALSE]
  /\ pending = [c \in Client |-> {}]
  /\ first = {}
  /\ net = Idle
  /\ tasks = <<>>
  /\ eventConnect = [c \in Client |-> Nobody]
  /\ player = [c \in Client |-> Nobody]
  /\ accepts = {}
  /\ client = [o \in Client |-> Nobody]
  /\ refs = [o \in Client |-> 0]
  /\ held = {}
  /\ online = {}
  /\ freed = {}

(***************************************************************************)
(* Connection::close, send and disconnect                                  *)
(***************************************************************************)
(* No shared_ptr to the Connection is left. *)
Expired(c) == state[c] = "disconnected" /\ pending[c] = {} /\ net.client # c

(* The handler has returned, and so has released connectionLock. *)
Unlocked(c) == net.client = c => net.at = "ended"

(* close(force) with the operations ops in progress; queue is the task list   *)
(* before it.                                                                 *)
Close_WaitsForWrite(c, force, ops, queue) ==
  /\ state' = [state EXCEPT ![c] = "disconnected"]
  /\ socket' = [socket EXCEPT ![c] = @ /\ ~force /\ "write" \in ops]
  /\ pending' = [pending EXCEPT ![c] = ops]
  /\ tasks' = IF ~force /\ "write" \in ops THEN queue ELSE Append(queue, ReleaseTask(c))

Close(c, force, ops, queue) ==
  /\ state' = [state EXCEPT ![c] = "disconnected"]
  /\ socket' = [socket EXCEPT ![c] = @ /\ ~force /\ "write" \in ops]
  /\ pending' = [pending EXCEPT ![c] = ops]
  /\ tasks' = Append(queue, ReleaseTask(c))

(* Protocol::disconnect, by the dispatcher. *)
Disconnect(c, queue) ==
  \/ /\ Expired(c)
     /\ tasks' = queue
     /\ UNCHANGED connVars
  \/ /\ ~Expired(c)
     /\ Unlocked(c)
     /\ Close(c, FALSE, pending[c], queue)

(* disconnectClient: a last message and disconnect(). *)
DisconnectClient(c, queue) ==
  \/ /\ Expired(c)
     /\ tasks' = queue
     /\ UNCHANGED connVars
  \/ /\ ~Expired(c)
     /\ Unlocked(c)
     /\ LET sends == IF state[c] = "open" THEN {"write"} ELSE {}
        IN Close(c, FALSE, pending[c] \cup sends, queue)

(***************************************************************************)
(* The network thread                                                      *)
(***************************************************************************)
Accept(c) ==
  /\ state[c] = "none"
  /\ state' = [state EXCEPT ![c] = "open"]
  /\ socket' = [socket EXCEPT ![c] = TRUE]
  /\ pending' = [pending EXCEPT ![c] = {"read"}]
  /\ UNCHANGED <<first, net, tasks, eventConnect, playerVars, accepts>>

(* The read completes with an error, or the write does. *)
Fail(c, op) ==
  /\ net = Idle
  /\ op \in pending[c]
  /\ Close(c, TRUE, pending[c] \ {op}, tasks)
  /\ net' = Handler(c, "ended", Nobody)
  /\ UNCHANGED <<first, eventConnect, playerVars, accepts>>

(* handleTimeout of a running timer. *)
Timeout(c) ==
  /\ net = Idle
  /\ socket[c] /\ pending[c] # {}
  /\ Close(c, TRUE, pending[c], tasks)
  /\ net' = Handler(c, "ended", Nobody)
  /\ UNCHANGED <<first, eventConnect, playerVars, accepts>>

(* parseHeader beyond MAX_PACKETS_PER_SECOND: the read is not renewed. *)
TooManyPackets(c) ==
  /\ net = Idle
  /\ socket[c] /\ "read" \in pending[c]
  /\ state[c] = "open"
  /\ Close(c, FALSE, pending[c] \ {"read"}, tasks)
  /\ net' = Handler(c, "ended", Nobody)
  /\ UNCHANGED <<first, eventConnect, playerVars, accepts>>

(* A packet after the connection was closed: the read is not renewed. *)
ReadNothing(c) ==
  /\ net = Idle
  /\ socket[c] /\ "read" \in pending[c]
  /\ state[c] = "disconnected"
  /\ pending' = [pending EXCEPT ![c] = @ \ {"read"}]
  /\ net' = Handler(c, "ended", Nobody)
  /\ UNCHANGED <<state, socket, first, tasks, eventConnect, playerVars, accepts>>

(* onRecvFirstMessage: a login task, or a refusal. *)
ReadFirst(c) ==
  /\ net = Idle
  /\ socket[c] /\ "read" \in pending[c]
  /\ state[c] = "open" /\ c \notin first
  /\ first' = first \cup {c}
  /\ net' = Handler(c, "ended", Nobody)
  /\ \/ tasks' = Append(tasks, Task("login", c, Nobody)) /\ UNCHANGED connVars
     \/ Close(c, FALSE, pending[c] \cup {"write"}, tasks)
     \/ Close(c, FALSE, pending[c], tasks)
  /\ UNCHANGED <<eventConnect, playerVars, accepts>>

(* ProtocolGame::parsePacket begins: it has tested the connection's state and  *)
(* acceptPackets and will read through ProtocolGame::player.                   *)
ReadPacket_Closed(c) ==
  /\ net = Idle
  /\ socket[c] /\ "read" \in pending[c]
  /\ c \in first
  /\ c \in accepts
  /\ net' = Handler(c, "parsing", player[c])
  /\ UNCHANGED <<connVars, first, tasks, eventConnect, playerVars, accepts>>

ReadPacket(c) ==
  /\ net = Idle
  /\ socket[c] /\ "read" \in pending[c]
  /\ state[c] = "open" /\ c \in first
  /\ c \in accepts
  /\ net' = Handler(c, "parsing", player[c])
  /\ UNCHANGED <<connVars, first, tasks, eventConnect, playerVars, accepts>>

(* ... and ends: it has queued the packet's task, which holds the pointer, and   *)
(* perhaps a logout; or disconnected the client of a removed player; or done      *)
(* nothing.  Bound: a packet is queued when none of the client is.                *)
ParsePacket(c) ==
  LET packet == Task("packet", c, net.reads)
  IN /\ net.client = c /\ net.at = "parsing"
     /\ net' = Handler(c, "ended", Nobody)
     /\ \/ /\ \A i \in DOMAIN tasks : tasks[i].client = c => tasks[i].kind # "packet"
           /\ \/ net.reads \in online /\ tasks' = Append(tasks, packet)
              \/ tasks' = tasks \o <<packet, Task("logout", c, Nobody)>>
           /\ UNCHANGED connVars
        \/ net.reads \notin online /\ Close(c, FALSE, pending[c], tasks)
        \/ UNCHANGED <<connVars, tasks>>
     /\ UNCHANGED <<first, eventConnect, playerVars, accepts>>

(* onWriteOperation of the last message. *)
Written(c) ==
  /\ net = Idle
  /\ socket[c] /\ "write" \in pending[c]
  /\ pending' = [pending EXCEPT ![c] = @ \ {"write"}]
  /\ socket' = [socket EXCEPT ![c] = state[c] # "disconnected"]
  /\ net' = Handler(c, "ended", Nobody)
  /\ UNCHANGED <<state, first, tasks, eventConnect, playerVars, accepts>>

(* The handler's shared_ptr to the connection is destroyed. *)
HandlerEnds(c) ==
  /\ net.client = c /\ net.at = "ended"
  /\ net' = Idle
  /\ UNCHANGED <<connVars, first, tasks, eventConnect, playerVars, accepts>>

(***************************************************************************)
(* The dispatcher                                                          *)
(***************************************************************************)
(* decrementReferenceCounter() *)
Drop(o) ==
  LET n == IF refs[o] = 0 THEN MaxRef ELSE refs[o] - 1
  IN /\ refs' = [refs EXCEPT ![o] = n]
     /\ freed' = IF n = 0 THEN freed \cup {o} ELSE freed

Run(kind, c, o) == tasks # <<>> /\ Head(tasks) = Task(kind, c, o)

Found == online

(* login() without such a player in the game: a check fails before or after   *)
(* the new Player is referenced, the player is placed, or its login script    *)
(* has it kicked at once.                                                     *)
NewPlayer(c, n) ==
  /\ player' = [player EXCEPT ![c] = c]
  /\ client' = [client EXCEPT ![c] = c]
  /\ refs' = [refs EXCEPT ![c] = n]

LoginRefused(c) ==
  /\ \E n \in {0, 1} : NewPlayer(c, n)
  /\ DisconnectClient(c, Tail(tasks))
  /\ UNCHANGED <<accepts, held, online, freed>>

LoginPlaced_NotReferenced(c) ==
  /\ NewPlayer(c, 1)
  /\ held' = held \cup {c}
  /\ online' = online \cup {c}
  /\ accepts' = accepts \cup {c}
  /\ tasks' = Tail(tasks)
  /\ UNCHANGED <<connVars, freed>>

LoginPlaced(c) ==
  /\ NewPlayer(c, 2)
  /\ held' = held \cup {c}
  /\ online' = online \cup {c}
  /\ accepts' = accepts \cup {c}
  /\ tasks' = Tail(tasks)
  /\ UNCHANGED <<connVars, freed>>

LoginKicked(c) ==
  /\ NewPlayer(c, 2)
  /\ held' = held \cup {c}
  /\ accepts' = accepts \cup {c}
  /\ Disconnect(c, Tail(tasks))
  /\ UNCHANGED <<online, freed>>

(* connect(): take over a player that has no client. *)
TakeOver(c, o) ==
  /\ player' = [player EXCEPT ![c] = o]
  /\ client' = [client EXCEPT ![o] = c]
  /\ refs' = [refs EXCEPT ![o] = @ + 1]
  /\ accepts' = accepts \cup {c}
  /\ tasks' = Tail(tasks)
  /\ UNCHANGED <<connVars, held, online, freed>>

Connect_TakesAnyPlayer(c, o) ==
  \/ /\ o \notin online
     /\ DisconnectClient(c, Tail(tasks))
     /\ UNCHANGED <<playerVars, accepts>>
  \/ /\ o \in online
     /\ Expired(c)
     /\ tasks' = Tail(tasks)
     /\ UNCHANGED <<connVars, playerVars, accepts>>
  \/ /\ o \in online
     /\ ~Expired(c)
     /\ TakeOver(c, o)

Connect_Silent(c, o) ==
  \/ /\ o \notin online \/ client[o] # Nobody \/ Expired(c)
     /\ tasks' = Tail(tasks)
     /\ UNCHANGED <<connVars, playerVars, accepts>>
  \/ /\ o \in online /\ client[o] = Nobody
     /\ ~Expired(c)
     /\ TakeOver(c, o)

Connect(c, o) ==
  \/ /\ o \notin online \/ client[o] # Nobody
     /\ DisconnectClient(c, Tail(tasks))
     /\ UNCHANGED <<playerVars, accepts>>
  \/ /\ o \in online /\ client[o] = Nobody
     /\ Expired(c)
     /\ tasks' = Tail(tasks)
     /\ UNCHANGED <<connVars, playerVars, accepts>>
  \/ /\ o \in online /\ client[o] = Nobody
     /\ ~Expired(c)
     /\ TakeOver(c, o)

(* login() with the player in the game: its client is disconnected and a       *)
(* connect() scheduled, or it has none and connect() runs now.                 *)
LoginReplaces(c, o) ==
  /\ client[o] # Nobody
  /\ Disconnect(client[o], Tail(tasks))
  /\ eventConnect' = [eventConnect EXCEPT ![c] = o]
  /\ UNCHANGED <<playerVars, accepts>>

LoginResumes(c, o) ==
  /\ client[o] = Nobody
  /\ Connect(c, o)
  /\ UNCHANGED eventConnect

Login(c) ==
  /\ Run("login", c, Nobody)
  /\ \/ /\ Found = {}
        /\ LoginRefused(c) \/ LoginPlaced(c) \/ LoginKicked(c)
        /\ UNCHANGED eventConnect
     \/ \E o \in Found : LoginReplaces(c, o) \/ LoginResumes(c, o)
  /\ UNCHANGED <<first, net>>

(* The scheduler hands the connect() over, ahead of the other tasks. *)
ConnectDue(c) ==
  /\ eventConnect[c] # Nobody
  /\ tasks' = <<Task("connect", c, eventConnect[c])>> \o tasks
  /\ eventConnect' = [eventConnect EXCEPT ![c] = Nobody]
  /\ UNCHANGED <<connVars, first, net, playerVars, accepts>>

ConnectTask(c) ==
  /\ \E o \in Client : Run("connect", c, o) /\ Connect(c, o)
  /\ UNCHANGED <<first, net, eventConnect>>

(* c's protocol has a player, whose client it is. *)
Controls(c) == \E o \in Client : player[c] = o /\ client[o] = c

Release(c) ==
  /\ Run("release", c, Nobody)
  /\ tasks' = Tail(tasks)
  /\ \/ /\ Controls(c)
        /\ client' = [client EXCEPT ![player[c]] = Nobody]
        /\ Drop(player[c])
        /\ player' = [player EXCEPT ![c] = Nobody]
     \/ /\ ~Controls(c)
        /\ UNCHANGED <<client, refs, freed, player>>
  /\ UNCHANGED <<connVars, first, net, eventConnect, accepts, held, online>>

(* logout(): the connection is closed and the player removed. *)
Leave(c, queue) ==
  \/ /\ player[c] = Nobody
     /\ tasks' = queue
     /\ UNCHANGED <<connVars, online>>
  \/ /\ player[c] # Nobody
     /\ Disconnect(c, queue)
     /\ online' = online \ {player[c]}

Logout(c) ==
  /\ Run("logout", c, Nobody)
  /\ \/ Leave(c, Tail(tasks))
     \/ /\ player[c] \in online  \* not here, not during a fight, not by the script
        /\ tasks' = Tail(tasks)
        /\ UNCHANGED <<connVars, online>>
  /\ UNCHANGED <<first, net, eventConnect, player, client, refs, held, freed, accepts>>

(* kickPlayer(), and the ping timeout of sendPing() when it may log out. *)
Kick(o) ==
  /\ o \in online
  /\ \/ client[o] # Nobody /\ Leave(client[o], tasks)
     \/ client[o] = Nobody /\ online' = online \ {o} /\ UNCHANGED <<connVars, tasks>>
  /\ UNCHANGED <<first, net, eventConnect, player, client, refs, held, freed, accepts>>

(* Creature::onDeath with a corpse: the player is removed, his connection stays. *)
Death(o) ==
  /\ o \in online
  /\ online' = online \ {o}
  /\ UNCHANGED <<connVars, first, net, tasks, eventConnect, player, accepts, client, refs,
                 held, freed>>

(* Game::cleanup() lets a removed player go. *)
Cleanup(o) ==
  /\ o \in held \ online
  /\ held' = held \ {o}
  /\ Drop(o)
  /\ UNCHANGED <<connVars, first, net, tasks, eventConnect, player, accepts, client,
                 online>>

(* onConnect's challenge or the game's output is sent to a client. *)
Send(c) ==
  /\ state[c] = "open"
  /\ "write" \notin pending[c]
  /\ Unlocked(c)
  /\ pending' = [pending EXCEPT ![c] = @ \cup {"write"}]
  /\ UNCHANGED <<state, socket, first, net, tasks, eventConnect, playerVars, accepts>>

(* Modules::executeOnRecvbyte, through the pointer. *)
PacketTask(c) ==
  /\ \E o \in Client \cup {Nobody} : Run("packet", c, o)
  /\ tasks' = Tail(tasks)
  /\ UNCHANGED <<connVars, first, net, eventConnect, playerVars, accepts>>

Dispatch ==
  \E c \in Client : Login(c) \/ ConnectTask(c) \/ Release(c) \/ PacketTask(c) \/ Logout(c)

Handle(c) ==
  \/ ReadNothing(c)
  \/ ReadFirst(c)
  \/ ParsePacket(c)
  \/ Written(c)
  \/ HandlerEnds(c)

Next ==
  \/ Dispatch
  \/ \E c \in Client :
       \/ Accept(c)
       \/ Handle(c)
       \/ ReadPacket(c)
       \/ \E op \in {"read", "write"} : Fail(c, op)
       \/ Timeout(c)
       \/ TooManyPackets(c)
       \/ ConnectDue(c)
       \/ Send(c)
  \/ \E o \in Client : Kick(o) \/ Death(o) \/ Cleanup(o)

Spec == Init /\ [][Next]_vars

-----------------------------------------------------------------------------
(* The variables have their types; the dispatcher's tasks are those of clients. *)
TypeOK ==
  /\ state \in [Client -> {"none", "open", "disconnected"}]
  /\ socket \in [Client -> BOOLEAN]
  /\ pending \in [Client -> SUBSET {"read", "write"}]
  /\ first \subseteq Client /\ accepts \subseteq Client
  /\ net \in [client : Client \cup {Nobody}, at : {"idle", "parsing", "ended"},
              reads : Client \cup {Nobody}]
  /\ tasks \in Seq([kind : {"login", "connect", "release", "packet", "logout"}, client : Client,
                    target : Client \cup {Nobody}])
  /\ eventConnect \in [Client -> Client \cup {Nobody}]
  /\ player \in [Client -> Client \cup {Nobody}]
  /\ client \in [Client -> Client \cup {Nobody}]
  /\ refs \in [Client -> 0 .. MaxRef]
  /\ held \subseteq Client
  /\ online \subseteq Client /\ freed \subseteq Client

(* A protocol that holds a player is that player's client, and no other is:    *)
(* two clients racing for one character never both control it.                 *)
ClientsMatch ==
  /\ TypeOK
  /\ \A c, o \in Client : o \notin freed => (player[c] = o <=> client[o] = c)

(* A Player that a protocol points to, or that is in the game, is not deleted. *)
NoDanglingPlayer ==
  /\ \A c \in Client : player[c] \notin freed
  /\ online \cap freed = {}

(* The network thread parses packets through a pointer that only the dispatcher *)
(* clears: while it does, the pointer stays and the Player is not deleted.      *)
(* The task of a packet runs after the connection may have gone, with the       *)
(* pointer its packet was parsed with: the Player is not deleted before.        *)
ReaderIsSafe ==
  /\ net.at = "parsing" /\ net.reads # Nobody =>
       net.reads \notin freed /\ player[net.client] = net.reads
  /\ \A i \in DOMAIN tasks : tasks[i].kind = "packet" => tasks[i].target \notin freed

(* No client is forgotten between login() and a connect() that comes later: once *)
(* its login task is done it is let in, or disconnected, or its connect() is to   *)
(* come.                                                                          *)
LoginIsDecided ==
  \A c \in first :
    \/ c \in accepts \/ state[c] = "disconnected"
    \/ eventConnect[c] # Nobody
    \/ \E i \in DOMAIN tasks : tasks[i].client = c /\ tasks[i].kind \in {"login", "connect"}

(* A Player keeps a closed connection for a client, and no release() to come     *)
(* will reset it.                                                                *)
Leaked(o, c) ==
  /\ client[o] = c /\ state[c] = "disconnected"
  /\ \A i \in DOMAIN tasks : tasks[i] # ReleaseTask(c)

(* connect() returns for an expired connection "to prevent leakage of the Player"  *)
(* (protocolgame.cpp:225), and yet takes a player over for a closed one that a      *)
(* handler or a write still holds.  That is the one way for a Player to keep a dead *)
(* client: no disconnection, kick, log-out, failure or release leaves one behind,   *)
(* in whatever order they come, nor does a login() that connects at once.           *)
OnlyALateConnectLeaks ==
  [][ \A o, c \in Client : Leaked(o, c)' /\ ~Leaked(o, c) =>
        ConnectTask(c) /\ state[c] = "disconnected" /\ ~Expired(c) ]_vars
=============================================================================
