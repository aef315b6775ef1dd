--------------------------- MODULE SessionProofs ----------------------------
(***************************************************************************)
(* Proofs about sessions, for any number of clients that race for one       *)
(* character, and, in the last section, about the waiting list.             *)
(*                                                                          *)
(* The argument: a protocol gets its player at most once, because a client  *)
(* has one login to come (its task, the timer of its connect(), or that     *)
(* connect()'s task) and none after it was let in; so protocols and players *)
(* point to each other in pairs, and the reference counts count exactly     *)
(* those pairs and the game's own reference.                                *)
(***************************************************************************)
EXTENDS Session, WaitList, SequenceTheorems, FiniteSetTheorems, TLAPS

TaskSet == [kind : {"login", "connect", "release", "packet", "logout"},
            client : Client, target : Client \cup {Nobody}]

Queued(q) == {q[i] : i \in DOMAIN q}

Enters(t) == t.kind \in {"login", "connect"}

Refers(t) == t.kind = "packet" /\ t.target # Nobody

Precedes(t) == Refers(t) \/ t.kind = "login"

(* The order in the dispatcher's list: a client enters once, and its release() *)
(* comes after its packets and its login().                                    *)
Queue(q) ==
  /\ q \in Seq(TaskSet)
  /\ \A i, j \in DOMAIN q :
       /\ Enters(q[i]) /\ Enters(q[j]) /\ q[i].client = q[j].client => i = j
       /\ Precedes(q[i]) /\ q[j].kind = "release" /\ q[i].client = q[j].client => i < j

(* The Player object named after c has not been created. *)
Fresh(c) == client[c] = Nobody /\ c \notin held /\ c \notin freed

Outside(c) == c \in first /\ c \notin accepts /\ player[c] = Nobody

Entrances ==
  /\ \A t \in Queued(tasks) :
       /\ Enters(t) => Outside(t.client) /\ eventConnect[t.client] = Nobody
       /\ t.kind = "login" => Fresh(t.client)
       /\ t.kind = "release" => state[t.client] = "disconnected"
       /\ Refers(t) => player[t.client] = t.target
  /\ \A c \in Client :
       /\ eventConnect[c] # Nobody => Outside(c)
       /\ c \notin first =>
            /\ player[c] = Nobody /\ c \notin accepts
            /\ eventConnect[c] = Nobody /\ Fresh(c)

Pairs == \A c, o \in Client : player[c] = o <=> client[o] = c

(* The second case is a Player whose preloadPlayer failed. *)
Counts ==
  /\ online \subseteq held
  /\ \A o \in Client :
       /\ o \in freed => client[o] = Nobody /\ o \notin held
       /\ o \in held => refs[o] = IF client[o] = Nobody THEN 1 ELSE 2
       /\ o \notin held /\ client[o] # Nobody => refs[o] \in {0, 1}

Reading ==
  net.at = "parsing" =>
    /\ net.client \in accepts /\ state[net.client] = "open"
    /\ net.reads = player[net.client]

Inv == TypeOK /\ Queue(tasks) /\ Entrances /\ Pairs /\ Counts /\ Reading

(***************************************************************************)
(* What the operations on the list do, element by element.                 *)
(***************************************************************************)
LEMMA QueueElements ==
  ASSUME NEW q \in Seq(TaskSet)
  PROVE  /\ Len(q) \in Nat
         /\ DOMAIN q = 1 .. Len(q)
         /\ \A i \in 1 .. Len(q) : q[i] \in TaskSet
BY LenProperties, ElementOfSeq

LEMMA AppendTask ==
  ASSUME NEW q \in Seq(TaskSet), NEW t \in TaskSet
  PROVE  /\ Append(q, t) \in Seq(TaskSet)
         /\ Len(q) \in Nat
         /\ DOMAIN q = 1 .. Len(q)
         /\ DOMAIN Append(q, t) = 1 .. Len(q) + 1
         /\ \A i \in 1 .. Len(q) : Append(q, t)[i] = q[i]
         /\ Append(q, t)[Len(q) + 1] = t
         /\ Queued(Append(q, t)) = Queued(q) \cup {t}
<1> DEFINE longer == Append(q, t)
<1>1. /\ longer \in Seq(TaskSet)
      /\ Len(q) \in Nat
      /\ DOMAIN q = 1 .. Len(q)
      /\ DOMAIN longer = 1 .. Len(q) + 1
      /\ \A i \in 1 .. Len(q) : longer[i] = q[i]
      /\ longer[Len(q) + 1] = t
  BY AppendProperties, LenProperties
<1> HIDE DEF longer
<1>2. Queued(longer) = Queued(q) \cup {t}
  BY <1>1 DEF Queued
<1> QED
  BY <1>1, <1>2 DEF longer

LEMMA PopTask ==
  ASSUME NEW q \in Seq(TaskSet), q # <<>>
  PROVE  /\ Len(q) \in Nat \ {0}
         /\ Head(q) \in TaskSet /\ Head(q) = q[1]
         /\ Tail(q) \in Seq(TaskSet)
         /\ DOMAIN q = 1 .. Len(q)
         /\ DOMAIN Tail(q) = 1 .. Len(q) - 1
         /\ \A i \in 1 .. Len(q) - 1 : Tail(q)[i] = q[i + 1]
         /\ Queued(q) = {Head(q)} \cup Queued(Tail(q))
<1> DEFINE rest == Tail(q)
           head == Head(q)
<1>1. /\ Len(q) \in Nat \ {0}
      /\ head \in TaskSet /\ head = q[1]
      /\ rest \in Seq(TaskSet)
      /\ DOMAIN q = 1 .. Len(q)
      /\ DOMAIN rest = 1 .. Len(q) - 1
      /\ \A i \in 1 .. Len(q) - 1 : rest[i] = q[i + 1]
  BY HeadTailProperties, EmptySeq, LenProperties
<1> HIDE DEF rest, head
<1>2. Queued(rest) \subseteq Queued(q)
  <2> SUFFICES ASSUME NEW i \in DOMAIN rest
               PROVE  rest[i] \in Queued(q)
    BY DEF Queued
  <2>1. i + 1 \in DOMAIN q /\ rest[i] = q[i + 1]
    BY <1>1
  <2> QED
    BY <2>1 DEF Queued
<1>3. head \in Queued(q)
  BY <1>1 DEF Queued
<1>4. ASSUME NEW i \in DOMAIN q
      PROVE  q[i] = head \/ q[i] \in Queued(rest)
  <2>1. CASE i # 1
    <3>1. i - 1 \in 1 .. Len(q) - 1 /\ rest[i - 1] = q[(i - 1) + 1] /\ (i - 1) + 1 = i
      BY <1>1, <2>1
    <3> QED
      BY <1>1, <3>1 DEF Queued
  <2> QED
    BY <1>1, <2>1
<1>5. Queued(q) \subseteq {head} \cup Queued(rest)
  BY <1>4 DEF Queued
<1> QED
  BY <1>1, <1>2, <1>3, <1>5 DEF rest, head

LEMMA PushTask ==
  ASSUME NEW q \in Seq(TaskSet), NEW t \in TaskSet
  PROVE  /\ <<t>> \o q \in Seq(TaskSet)
         /\ Len(q) \in Nat
         /\ DOMAIN q = 1 .. Len(q)
         /\ DOMAIN (<<t>> \o q) = 1 .. Len(q) + 1
         /\ (<<t>> \o q)[1] = t
         /\ \A i \in 1 .. Len(q) : (<<t>> \o q)[i + 1] = q[i]
         /\ Queued(<<t>> \o q) = Queued(q) \cup {t}
<1> DEFINE longer == <<t>> \o q
<1>1. /\ <<t>> \in Seq(TaskSet)
      /\ Len(<<t>>) = 1
      /\ <<t>>[1] = t
  OBVIOUS
<1>2. /\ longer \in Seq(TaskSet)
      /\ Len(longer) = 1 + Len(q)
      /\ \A i \in 1 .. 1 + Len(q) : longer[i] = IF i <= 1 THEN <<t>>[i] ELSE q[i - 1]
  BY <1>1, ConcatProperties
<1>3. Len(q) \in Nat /\ DOMAIN q = 1 .. Len(q) /\ DOMAIN longer = 1 .. Len(q) + 1
  BY <1>2, LenProperties
<1>4. longer[1] = t /\ \A i \in 1 .. Len(q) : longer[i + 1] = q[i]
  BY <1>1, <1>2, <1>3
<1> HIDE DEF longer
<1>5. Queued(longer) = Queued(q) \cup {t}
  <2>1. ASSUME NEW i \in DOMAIN longer
        PROVE  longer[i] \in Queued(q) \cup {t}
    <3>1. CASE i = 1
      BY <1>4, <3>1
    <3>2. CASE i # 1
      <4>1. i - 1 \in 1 .. Len(q) /\ longer[(i - 1) + 1] = q[i - 1]
        BY <1>3, <1>4, <3>2
      <4> QED
        BY <1>3, <4>1 DEF Queued
    <3> QED
      BY <3>1, <3>2
  <2>2. ASSUME NEW i \in DOMAIN q
        PROVE  q[i] \in Queued(longer)
    <3>1. i + 1 \in DOMAIN longer /\ longer[i + 1] = q[i]
      BY <1>3, <1>4
    <3> QED
      BY <3>1 DEF Queued
  <2>3. t \in Queued(longer)
    BY <1>3, <1>4 DEF Queued
  <2> QED
    BY <2>1, <2>2, <2>3 DEF Queued
<1> QED
  BY <1>2, <1>3, <1>4, <1>5 DEF longer

(* The order is kept by what is done to the list. *)
LEMMA RestIsQueue ==
  ASSUME NEW q, Queue(q), q # <<>>
  PROVE  /\ Queue(Tail(q))
         /\ \A t \in Queued(Tail(q)) :
              /\ Enters(Head(q)) /\ Enters(t) => t.client # Head(q).client
              /\ Head(q).kind = "release" /\ Precedes(t) => t.client # Head(q).client
<1> DEFINE rest == Tail(q)
           head == Head(q)
<1>1. /\ Len(q) \in Nat \ {0}
      /\ head = q[1]
      /\ rest \in Seq(TaskSet)
      /\ DOMAIN q = 1 .. Len(q)
      /\ DOMAIN rest = 1 .. Len(q) - 1
      /\ \A i \in 1 .. Len(q) - 1 : rest[i] = q[i + 1]
  BY PopTask DEF Queue
<1> HIDE DEF rest, head
<1>2. ASSUME NEW i \in DOMAIN rest, NEW j \in DOMAIN rest
      PROVE  /\ Enters(rest[i]) /\ Enters(rest[j]) /\ rest[i].client = rest[j].client => i = j
             /\ Precedes(rest[i]) /\ rest[j].kind = "release" /\ rest[i].client = rest[j].client => i < j
  <2>1. /\ i + 1 \in DOMAIN q /\ j + 1 \in DOMAIN q
        /\ rest[i] = q[i + 1] /\ rest[j] = q[j + 1]
        /\ i \in Nat /\ j \in Nat
    BY <1>1
  <2>2. /\ Enters(q[i + 1]) /\ Enters(q[j + 1]) /\ q[i + 1].client = q[j + 1].client => i + 1 = j + 1
        /\ Precedes(q[i + 1]) /\ q[j + 1].kind = "release" /\ q[i + 1].client = q[j + 1].client => i + 1 < j + 1
    BY <2>1 DEF Queue
  <2> QED
    BY <2>1, <2>2
<1>3. ASSUME NEW i \in DOMAIN rest
      PROVE  /\ Enters(head) /\ Enters(rest[i]) => rest[i].client # head.client
             /\ head.kind = "release" /\ Precedes(rest[i]) => rest[i].client # head.client
  <2>1. i + 1 \in DOMAIN q /\ 1 \in DOMAIN q /\ rest[i] = q[i + 1] /\ i + 1 > 1
    BY <1>1
  <2>2. /\ Enters(q[i + 1]) /\ Enters(q[1]) /\ q[i + 1].client = q[1].client => i + 1 = 1
        /\ Precedes(q[i + 1]) /\ q[1].kind = "release" /\ q[i + 1].client = q[1].client => i + 1 < 1
    BY <2>1 DEF Queue
  <2> QED
    BY <1>1, <2>1, <2>2
<1> QED
  BY <1>1, <1>2, <1>3 DEF rest, head, Queue, Queued

LEMMA AppendIsQueue ==
  ASSUME NEW q, Queue(q), NEW t \in TaskSet,
         \A u \in Queued(q) :
           /\ Enters(t) /\ Enters(u) => u.client # t.client
           /\ Precedes(t) /\ u.kind = "release" => u.client # t.client
  PROVE  Queue(Append(q, t)) /\ Queued(Append(q, t)) = Queued(q) \cup {t}
<1> DEFINE longer == Append(q, t)
<1>1. /\ longer \in Seq(TaskSet)
      /\ Len(q) \in Nat
      /\ DOMAIN q = 1 .. Len(q)
      /\ DOMAIN longer = 1 .. Len(q) + 1
      /\ \A i \in 1 .. Len(q) : longer[i] = q[i] /\ q[i] \in Queued(q)
      /\ longer[Len(q) + 1] = t
      /\ Queued(longer) = Queued(q) \cup {t}
  BY AppendTask DEF Queue, Queued
<1> HIDE DEF longer
<1>2. ASSUME NEW i \in DOMAIN longer, NEW j \in DOMAIN longer
      PROVE  /\ Enters(longer[i]) /\ Enters(longer[j]) /\ longer[i].client = longer[j].client => i = j
             /\ Precedes(longer[i]) /\ longer[j].kind = "release" /\ longer[i].client = longer[j].client => i < j
  <2>1. CASE i \in 1 .. Len(q) /\ j \in 1 .. Len(q)
    BY <1>1, <2>1 DEF Queue
  <2>2. CASE i \in 1 .. Len(q) /\ j = Len(q) + 1
    <3>1. /\ longer[i] \in Queued(q) /\ longer[j] = t /\ i < j
      BY <1>1, <2>2
    <3> QED
      BY <3>1
  <2>3. CASE i = Len(q) + 1 /\ j \in 1 .. Len(q)
    <3>1. /\ longer[j] \in Queued(q) /\ longer[i] = t
      BY <1>1, <2>3
    <3> QED
      BY <3>1
  <2>4. CASE i = Len(q) + 1 /\ j = Len(q) + 1
    <3>1. longer[i] = t /\ longer[j] = t /\ i = j
      BY <1>1, <2>4
    <3>2. ~(Precedes(t) /\ t.kind = "release")
      BY DEF Precedes, Refers
    <3> QED
      BY <3>1, <3>2
  <2> QED
    BY <1>1, <2>1, <2>2, <2>3, <2>4
<1> QED
  BY <1>1, <1>2 DEF longer, Queue

LEMMA PushIsQueue ==
  ASSUME NEW q, Queue(q), NEW t \in TaskSet, t.kind = "connect",
         \A u \in Queued(q) : Enters(u) => u.client # t.client
  PROVE  Queue(<<t>> \o q) /\ Queued(<<t>> \o q) = Queued(q) \cup {t}
<1> DEFINE longer == <<t>> \o q
<1>1. /\ longer \in Seq(TaskSet)
      /\ Len(q) \in Nat
      /\ DOMAIN q = 1 .. Len(q)
      /\ DOMAIN longer = 1 .. Len(q) + 1
      /\ longer[1] = t
      /\ \A i \in 1 .. Len(q) : longer[i + 1] = q[i]
      /\ Queued(longer) = Queued(q) \cup {t}
  BY PushTask DEF Queue
<1> HIDE DEF longer
<1>2. \A i \in DOMAIN longer : i = 1 \/ (i - 1 \in DOMAIN q /\ longer[i] = q[i - 1] /\ q[i - 1] \in Queued(q))
  <2> SUFFICES ASSUME NEW i \in DOMAIN longer, i # 1
               PROVE  i - 1 \in DOMAIN q /\ longer[i] = q[i - 1] /\ q[i - 1] \in Queued(q)
    OBVIOUS
  <2>1. i - 1 \in 1 .. Len(q) /\ (i - 1) + 1 = i
    BY <1>1
  <2>2. longer[(i - 1) + 1] = q[i - 1]
    BY <1>1, <2>1
  <2> QED
    BY <1>1, <2>1, <2>2 DEF Queued
<1>3. ASSUME NEW i \in DOMAIN longer, NEW j \in DOMAIN longer
      PROVE  /\ Enters(longer[i]) /\ Enters(longer[j]) /\ longer[i].client = longer[j].client => i = j
             /\ Precedes(longer[i]) /\ longer[j].kind = "release" /\ longer[i].client = longer[j].client => i < j
  <2>1. CASE i = 1 /\ j = 1
    BY <1>1, <2>1 DEF Precedes, Refers
  <2>2. CASE i = 1 /\ j # 1
    <3>1. longer[i] = t /\ longer[j] \in Queued(q)
      BY <1>1, <1>2, <2>2
    <3> QED
      BY <3>1 DEF Precedes, Refers
  <2>3. CASE i # 1 /\ j = 1
    <3>1. longer[j] = t /\ longer[i] \in Queued(q)
      BY <1>1, <1>2, <2>3
    <3> QED
      BY <3>1
  <2>4. CASE i # 1 /\ j # 1
    <3>1. /\ i - 1 \in DOMAIN q /\ j - 1 \in DOMAIN q
          /\ longer[i] = q[i - 1] /\ longer[j] = q[j - 1]
      BY <1>2, <2>4
    <3>2. /\ Enters(q[i - 1]) /\ Enters(q[j - 1]) /\ q[i - 1].client = q[j - 1].client => i - 1 = j - 1
          /\ Precedes(q[i - 1]) /\ q[j - 1].kind = "release" /\ q[i - 1].client = q[j - 1].client => i - 1 < j - 1
      BY <3>1 DEF Queue
    <3>3. i \in Nat /\ j \in Nat
      BY <1>1
    <3> QED
      BY <3>1, <3>2, <3>3
  <2> QED
    BY <2>1, <2>2, <2>3, <2>4
<1> QED
  BY <1>1, <1>3 DEF longer, Queue

(***************************************************************************)
(* Steps that touch connections only.                                      *)
(***************************************************************************)
(* What remains of q is in the list, and new in it are release()s of closed     *)
(* connections.                                                                 *)
ConnStep(q) ==
  /\ state' \in [Client -> {"none", "open", "disconnected"}]
  /\ socket' \in [Client -> BOOLEAN]
  /\ pending' \in [Client -> SUBSET {"read", "write"}]
  /\ Queue(tasks')
  /\ \A t \in Queued(tasks') :
       t \in Queued(q) \/ (t.kind = "release" /\ state'[t.client] = "disconnected")
  /\ \A c \in Client : state[c] = "disconnected" => state'[c] = "disconnected"

LEMMA CloseStep ==
  ASSUME TypeOK, NEW c \in Client, NEW force \in BOOLEAN, NEW ops \in SUBSET {"read", "write"},
         NEW q, Queue(q), Close(c, force, ops, q)
  PROVE  /\ ConnStep(q) /\ Queued(q) \subseteq Queued(tasks')
         /\ state' = [state EXCEPT ![c] = "disconnected"]
<1>1. ReleaseTask(c) \in TaskSet /\ ReleaseTask(c).kind = "release" /\ ReleaseTask(c).client = c
  BY DEF ReleaseTask, Task, TaskSet
<1>2. tasks' = Append(q, ReleaseTask(c))
  BY DEF Close
<1> DEFINE r == ReleaseTask(c)
<1> HIDE DEF r
<1>3. ~Enters(r) /\ ~Refers(r) /\ ~Precedes(r)
  BY <1>1 DEF Enters, Refers, Precedes, r
<1>4. Queue(tasks') /\ Queued(tasks') = Queued(q) \cup {r}
  BY <1>1, <1>2, <1>3, AppendIsQueue DEF r
<1>5. /\ state' = [state EXCEPT ![c] = "disconnected"]
      /\ socket' \in [Client -> BOOLEAN]
      /\ pending' \in [Client -> SUBSET {"read", "write"}]
  BY DEF Close, TypeOK
<1> QED
  BY <1>1, <1>4, <1>5 DEF ConnStep, TypeOK, r

LEMMA DisconnectStep ==
  ASSUME TypeOK, NEW c \in Client, NEW q, Queue(q),
         Disconnect(c, q) \/ DisconnectClient(c, q) \/ (tasks' = q /\ UNCHANGED connVars)
  PROVE  /\ ConnStep(q) /\ Queued(q) \subseteq Queued(tasks')
         /\ net.at = "parsing" /\ net.client \in Client => state'[net.client] = state[net.client]
         /\ DisconnectClient(c, q) => state'[c] = "disconnected"
<1>1. CASE tasks' = q /\ UNCHANGED connVars
  <2>1. DisconnectClient(c, q) => state'[c] = "disconnected"
    BY <1>1 DEF DisconnectClient, Expired, Close, TypeOK, connVars
  <2> QED
    BY <1>1, <2>1 DEF ConnStep, connVars, TypeOK
<1>2. CASE Disconnect(c, q) /\ Unlocked(c) /\ Close(c, FALSE, pending[c], q)
  <2>1. pending[c] \in SUBSET {"read", "write"}
    BY DEF TypeOK
  <2>2. /\ ConnStep(q) /\ Queued(q) \subseteq Queued(tasks')
        /\ state' = [state EXCEPT ![c] = "disconnected"]
    BY <1>2, <2>1, CloseStep
  <2>3. net.at = "parsing" => net.client # c
    BY <1>2 DEF Unlocked
  <2> QED
    BY <2>2, <2>3 DEF TypeOK
<1>3. CASE /\ DisconnectClient(c, q) /\ Unlocked(c)
           /\ LET sends == IF state[c] = "open" THEN {"write"} ELSE {}
              IN Close(c, FALSE, pending[c] \cup sends, q)
  <2>1. pending[c] \cup (IF state[c] = "open" THEN {"write"} ELSE {}) \in SUBSET {"read", "write"}
    BY DEF TypeOK
  <2>2. /\ ConnStep(q) /\ Queued(q) \subseteq Queued(tasks')
        /\ state' = [state EXCEPT ![c] = "disconnected"]
    BY <1>3, <2>1, CloseStep
  <2>3. net.at = "parsing" => net.client # c
    BY <1>3 DEF Unlocked
  <2> QED
    BY <2>2, <2>3 DEF TypeOK
<1> QED
  BY <1>1, <1>2, <1>3 DEF Disconnect, DisconnectClient

LEMMA ConnectionsOnly ==
  ASSUME Inv, NEW q, Queued(q) \subseteq Queued(tasks), ConnStep(q),
         UNCHANGED <<player, client, refs, held, freed, accepts, eventConnect>>,
         online' \subseteq online, first \subseteq first', first' \subseteq Client,
         net' \in [client : Client \cup {Nobody}, at : {"idle", "parsing", "ended"},
                   reads : Client \cup {Nobody}],
         net'.at = "parsing" => net' = net /\ state'[net.client] = state[net.client]
  PROVE  Inv'
<1>1. TypeOK'
  BY DEF Inv, TypeOK, ConnStep, Queue, TaskSet
<1>2. Queue(tasks')
  BY DEF ConnStep
<1>3. ASSUME NEW t \in Queued(tasks')
      PROVE  /\ Enters(t) => Outside(t.client)' /\ eventConnect'[t.client] = Nobody
             /\ t.kind = "login" => Fresh(t.client)'
             /\ t.kind = "release" => state'[t.client] = "disconnected"
             /\ Refers(t) => player'[t.client] = t.target
  <2>1. CASE t \in Queued(q)
    <3>1. t \in Queued(tasks) /\ t.client \in Client
      BY <1>2, <1>3, <2>1, QueueElements DEF Queue, Queued, TaskSet
    <3>2. /\ Enters(t) => Outside(t.client) /\ eventConnect[t.client] = Nobody
          /\ t.kind = "login" => Fresh(t.client)
          /\ t.kind = "release" => state[t.client] = "disconnected"
          /\ Refers(t) => player[t.client] = t.target
      BY <3>1 DEF Inv, Entrances
    <3> QED
      BY <3>1, <3>2 DEF Outside, Fresh, ConnStep
  <2>2. CASE t.kind = "release" /\ state'[t.client] = "disconnected"
    BY <2>2 DEF Enters, Refers
  <2> QED
    BY <1>3, <2>1, <2>2 DEF ConnStep
<1>4. ASSUME NEW c \in Client
      PROVE  /\ eventConnect'[c] # Nobody => Outside(c)'
             /\ c \notin first' =>
                  /\ player'[c] = Nobody /\ c \notin accepts'
                  /\ eventConnect'[c] = Nobody /\ Fresh(c)'
  BY DEF Inv, Entrances, Outside, Fresh
<1>5. Entrances'
  BY <1>3, <1>4 DEF Entrances
<1>6. Pairs' /\ Counts'
  BY DEF Inv, Pairs, Counts
<1>7. Reading'
  BY DEF Inv, Reading
<1> QED
  BY <1>1, <1>2, <1>5, <1>6, <1>7 DEF Inv

(* The handlers of the network thread that queue at most a release(). *)
LEMMA HandlersKeep ==
  ASSUME Inv, NEW c \in Client,
         \/ Accept(c) \/ ReadNothing(c) \/ Written(c) \/ HandlerEnds(c) \/ Send(c)
         \/ Timeout(c) \/ TooManyPackets(c) \/ \E op \in {"read", "write"} : Fail(c, op)
  PROVE  Inv'
<1>1. TypeOK /\ Queue(tasks) /\ Reading
  BY DEF Inv
<1>2. /\ UNCHANGED <<player, client, refs, held, freed, accepts, eventConnect, online, first>>
      /\ first \subseteq Client
  BY <1>1 DEF Accept, ReadNothing, Written, HandlerEnds, Send, Timeout, TooManyPackets, Fail,
              playerVars, TypeOK
<1>3. /\ Handler(c, "ended", Nobody) \in [client : Client \cup {Nobody}, at : {"idle", "parsing", "ended"},
                                          reads : Client \cup {Nobody}]
      /\ Idle \in [client : Client \cup {Nobody}, at : {"idle", "parsing", "ended"},
                   reads : Client \cup {Nobody}]
      /\ Handler(c, "ended", Nobody).at # "parsing" /\ Idle.at # "parsing"
  BY DEF Handler, Idle
<1>4. CASE Accept(c) \/ Send(c)
  <2>1. ConnStep(tasks)
    <3>1. pending' \in [Client -> SUBSET {"read", "write"}]
      <4>1. /\ pending \in [Client -> SUBSET {"read", "write"}]
            /\ {"read"} \in SUBSET {"read", "write"}
            /\ pending[c] \cup {"write"} \in SUBSET {"read", "write"}
        BY <1>1 DEF TypeOK
      <4>2. \/ pending' = [pending EXCEPT ![c] = {"read"}]
            \/ pending' = [pending EXCEPT ![c] = pending[c] \cup {"write"}]
        BY <1>4 DEF Accept, Send
      <4> QED
        BY <4>1, <4>2
    <3>2. /\ state' \in [Client -> {"none", "open", "disconnected"}]
          /\ socket' \in [Client -> BOOLEAN]
          /\ \A d \in Client : state[d] = "disconnected" => state'[d] = "disconnected"
          /\ UNCHANGED tasks
      BY <1>1, <1>4 DEF Accept, Send, TypeOK
    <3> QED
      BY <1>1, <3>1, <3>2 DEF ConnStep
  <2>2. UNCHANGED net
    BY <1>4 DEF Accept, Send
  <2>3. net.at = "parsing" => state'[net.client] = state[net.client]
    BY <1>1, <1>4 DEF Accept, Send, Reading, TypeOK
  <2> QED
    BY <1>1, <1>2, <2>1, <2>2, <2>3, ConnectionsOnly DEF TypeOK
<1>5. CASE ReadNothing(c) \/ Written(c) \/ HandlerEnds(c)
  <2>1. ConnStep(tasks)
    <3>1. \/ UNCHANGED pending
          \/ pending' = [pending EXCEPT ![c] = pending[c] \ {"read"}]
          \/ pending' = [pending EXCEPT ![c] = pending[c] \ {"write"}]
      BY <1>5 DEF ReadNothing, Written, HandlerEnds, connVars
    <3>2. pending' \in [Client -> SUBSET {"read", "write"}]
      <4>1. /\ pending \in [Client -> SUBSET {"read", "write"}]
            /\ pending[c] \ {"read"} \in SUBSET {"read", "write"}
            /\ pending[c] \ {"write"} \in SUBSET {"read", "write"}
        BY <1>1 DEF TypeOK
      <4> QED
        BY <3>1, <4>1
    <3>3. /\ UNCHANGED <<state, tasks>>
          /\ socket' \in [Client -> BOOLEAN]
      BY <1>1, <1>5 DEF ReadNothing, Written, HandlerEnds, TypeOK, connVars
    <3> QED
      BY <1>1, <3>2, <3>3 DEF ConnStep, TypeOK
  <2>2. net' = Handler(c, "ended", Nobody) \/ net' = Idle
    BY <1>5 DEF ReadNothing, Written, HandlerEnds
  <2> QED
    BY <1>2, <1>3, <2>1, <2>2, ConnectionsOnly
<1>6. CASE Timeout(c) \/ TooManyPackets(c) \/ \E op \in {"read", "write"} : Fail(c, op)
  <2>1. \E force \in BOOLEAN, ops \in SUBSET {"read", "write"} : Close(c, force, ops, tasks)
    <3>1. pending[c] \in SUBSET {"read", "write"}
      BY <1>1 DEF TypeOK
    <3>2. CASE Timeout(c)
      BY <3>1, <3>2 DEF Timeout
    <3>3. CASE TooManyPackets(c)
      <4>1. pending[c] \ {"read"} \in SUBSET {"read", "write"}
        BY <3>1
      <4> QED
        BY <3>3, <4>1 DEF TooManyPackets
    <3>4. ASSUME NEW op \in {"read", "write"}, Fail(c, op)
          PROVE  \E force \in BOOLEAN, ops \in SUBSET {"read", "write"} : Close(c, force, ops, tasks)
      <4>1. pending[c] \ {op} \in SUBSET {"read", "write"}
        BY <3>1
      <4> QED
        BY <3>4, <4>1 DEF Fail
    <3> QED
      BY <1>6, <3>2, <3>3, <3>4
  <2>2. ConnStep(tasks)
    BY <1>1, <2>1, CloseStep
  <2>3. net' = Handler(c, "ended", Nobody)
    BY <1>6 DEF Timeout, TooManyPackets, Fail
  <2> QED
    BY <1>2, <1>3, <2>2, <2>3, ConnectionsOnly
<1> QED
  BY <1>4, <1>5, <1>6

(***************************************************************************)
(* The handlers that queue a task of a client's.                           *)
(***************************************************************************)
(* A task t comes to the list. *)
LEMMA NewTask ==
  ASSUME Inv, NEW t \in TaskSet, Queue(tasks'), Queued(tasks') = Queued(tasks) \cup {t},
         UNCHANGED <<connVars, playerVars, accepts>>,
         first \subseteq first', first' \subseteq Client,
         net' \in [client : Client \cup {Nobody}, at : {"idle", "parsing", "ended"},
                   reads : Client \cup {Nobody}],
         net'.at = "parsing" => net' = net,
         eventConnect' \in [Client -> Client \cup {Nobody}],
         \A c \in Client : eventConnect'[c] # Nobody => eventConnect'[c] = eventConnect[c],
         Enters(t) => Outside(t.client)' /\ eventConnect'[t.client] = Nobody,
         t.kind = "login" => Fresh(t.client),
         t.kind # "release",
         Refers(t) => player[t.client] = t.target
  PROVE  Inv'
<1>1. TypeOK'
  BY DEF Inv, TypeOK, Queue, connVars, playerVars, TaskSet
<1>2. ASSUME NEW u \in Queued(tasks')
      PROVE  /\ Enters(u) => Outside(u.client)' /\ eventConnect'[u.client] = Nobody
             /\ u.kind = "login" => Fresh(u.client)'
             /\ u.kind = "release" => state'[u.client] = "disconnected"
             /\ Refers(u) => player'[u.client] = u.target
  <2>1. CASE u = t
    BY <2>1 DEF Fresh, playerVars
  <2>2. CASE u \in Queued(tasks)
    <3>1. u.client \in Client
      BY <2>2, QueueElements DEF Inv, Queue, Queued, TaskSet
    <3>2. /\ Enters(u) => Outside(u.client) /\ eventConnect[u.client] = Nobody
          /\ u.kind = "login" => Fresh(u.client)
          /\ u.kind = "release" => state[u.client] = "disconnected"
          /\ Refers(u) => player[u.client] = u.target
      BY <2>2 DEF Inv, Entrances
    <3> QED
      BY <3>1, <3>2 DEF Outside, Fresh, playerVars, connVars
  <2> QED
    BY <1>2, <2>1, <2>2
<1>3. ASSUME NEW c \in Client
      PROVE  /\ eventConnect'[c] # Nobody => Outside(c)'
             /\ c \notin first' =>
                  /\ player'[c] = Nobody /\ c \notin accepts'
                  /\ eventConnect'[c] = Nobody /\ Fresh(c)'
  BY DEF Inv, Entrances, Outside, Fresh, playerVars
<1>4. Entrances'
  BY <1>2, <1>3 DEF Entrances
<1>5. Pairs' /\ Counts' /\ Reading'
  BY DEF Inv, Pairs, Counts, Reading, playerVars, connVars
<1> QED
  BY <1>1, <1>4, <1>5 DEF Inv

LEMMA ReadFirstKeeps ==
  ASSUME Inv, NEW c \in Client, ReadFirst(c)
  PROVE  Inv'
<1>1. TypeOK /\ Queue(tasks) /\ Entrances
  BY DEF Inv
<1>2. /\ c \notin first /\ first' = first \cup {c}
      /\ net' = Handler(c, "ended", Nobody)
      /\ UNCHANGED <<eventConnect, playerVars, accepts>>
      /\ pending[c] \in SUBSET {"read", "write"}
  BY <1>1 DEF ReadFirst, TypeOK
<1>3. /\ net' \in [client : Client \cup {Nobody}, at : {"idle", "parsing", "ended"},
                   reads : Client \cup {Nobody}]
      /\ net'.at # "parsing"
  BY <1>2 DEF Handler
<1>4. first \subseteq first' /\ first' \subseteq Client
  BY <1>1, <1>2 DEF TypeOK
<1>5. CASE Close(c, FALSE, pending[c] \cup {"write"}, tasks) \/ Close(c, FALSE, pending[c], tasks)
  <2>1. pending[c] \cup {"write"} \in SUBSET {"read", "write"}
    BY <1>2
  <2>2. ConnStep(tasks)
    BY <1>1, <1>2, <1>5, <2>1, CloseStep
  <2> QED
    BY <1>2, <1>3, <1>4, <2>2, ConnectionsOnly DEF playerVars
<1>6. CASE tasks' = Append(tasks, Task("login", c, Nobody)) /\ UNCHANGED connVars
  <2> DEFINE t == Task("login", c, Nobody)
  <2>1. t \in TaskSet /\ t.kind = "login" /\ t.client = c
    BY DEF Task, TaskSet
  <2> HIDE DEF t
  <2>2. Enters(t) /\ ~Refers(t)
    BY <2>1 DEF Enters, Refers
  <2>3. \A u \in Queued(tasks) : Enters(u) \/ u.kind = "release" => u.client # c
    <3>1. state[c] # "disconnected"
      BY DEF ReadFirst
    <3> QED
      BY <1>1, <1>2, <3>1 DEF Entrances, Outside
  <2>4. Queue(tasks') /\ Queued(tasks') = Queued(tasks) \cup {t}
    BY <1>1, <1>6, <2>1, <2>2, <2>3, AppendIsQueue DEF t
  <2>5. Outside(c)' /\ eventConnect'[c] = Nobody /\ Fresh(c)
    BY <1>1, <1>2 DEF Entrances, Outside, playerVars
  <2>6. eventConnect' \in [Client -> Client \cup {Nobody}] /\ eventConnect' = eventConnect
    BY <1>1, <1>2 DEF TypeOK
  <2> QED
    BY <1>2, <1>3, <1>4, <1>6, <2>1, <2>2, <2>4, <2>5, <2>6, NewTask
<1> QED
  BY <1>5, <1>6 DEF ReadFirst

LEMMA ReadPacketKeeps ==
  ASSUME Inv, NEW c \in Client, ReadPacket(c)
  PROVE  Inv'
<1>1. /\ net' = Handler(c, "parsing", player[c])
      /\ c \in accepts /\ state[c] = "open"
      /\ UNCHANGED <<connVars, first, tasks, eventConnect, playerVars, accepts>>
  BY DEF ReadPacket
<1>2. /\ net' \in [client : Client \cup {Nobody}, at : {"idle", "parsing", "ended"},
                   reads : Client \cup {Nobody}]
      /\ net'.client = c /\ net'.reads = player[c]
  BY <1>1 DEF Handler, Inv, TypeOK
<1>3. TypeOK' /\ Queue(tasks')
  BY <1>1, <1>2 DEF Inv, TypeOK, connVars, playerVars
<1>4. Entrances' /\ Pairs' /\ Counts'
  BY <1>1 DEF Inv, Entrances, Outside, Fresh, Pairs, Counts, connVars, playerVars
<1>5. Reading'
  BY <1>1, <1>2 DEF Reading, connVars, playerVars
<1> QED
  BY <1>3, <1>4, <1>5 DEF Inv

(* The client is connected, so that no release() of it is in the list, and its *)
(* player is still the one the packet was parsed with.                         *)
LEMMA ParsePacketKeeps ==
  ASSUME Inv, NEW c \in Client, ParsePacket(c)
  PROVE  Inv'
<1> DEFINE packet == Task("packet", c, net.reads)
           logout == Task("logout", c, Nobody)
<1>1. TypeOK /\ Queue(tasks) /\ Entrances /\ Reading
  BY DEF Inv
<1>2. /\ net.client = c /\ net.at = "parsing"
      /\ net' = Handler(c, "ended", Nobody)
      /\ UNCHANGED <<first, eventConnect, playerVars, accepts>>
  BY DEF ParsePacket
<1>3. /\ net' \in [client : Client \cup {Nobody}, at : {"idle", "parsing", "ended"},
                   reads : Client \cup {Nobody}]
      /\ net'.at # "parsing" /\ first \subseteq Client
  BY <1>1, <1>2 DEF Handler, TypeOK
<1>4. /\ packet \in TaskSet /\ packet.kind = "packet" /\ packet.client = c /\ packet.target = net.reads
      /\ logout \in TaskSet /\ logout.kind = "logout" /\ logout.client = c
  BY <1>1 DEF Task, TaskSet, TypeOK
<1>5. /\ ~Enters(packet) /\ ~Enters(logout) /\ ~Refers(logout) /\ ~Precedes(logout)
      /\ player[c] = packet.target
  BY <1>1, <1>2, <1>4 DEF Enters, Refers, Precedes, Reading
<1>6. \A u \in Queued(tasks) : u.kind = "release" => u.client # c
  BY <1>1, <1>2 DEF Entrances, Reading
<1> HIDE DEF packet, logout
<1>7. Queue(Append(tasks, packet)) /\ Queued(Append(tasks, packet)) = Queued(tasks) \cup {packet}
  BY <1>1, <1>4, <1>5, <1>6, AppendIsQueue
<1>8. eventConnect' \in [Client -> Client \cup {Nobody}] /\ eventConnect' = eventConnect
  BY <1>1, <1>2 DEF TypeOK
<1>9. CASE tasks' = Append(tasks, packet) /\ UNCHANGED connVars
  BY <1>2, <1>3, <1>4, <1>5, <1>7, <1>8, <1>9, NewTask
<1>10. CASE tasks' = tasks \o <<packet, logout>> /\ UNCHANGED connVars
  <2> DEFINE q == Append(tasks, packet)
  <2>1. tasks' = Append(q, logout)
    BY <1>1, <1>4, <1>10 DEF Queue
  <2>2. Queue(q) /\ Queued(q) = Queued(tasks) \cup {packet}
    BY <1>7
  <2> HIDE DEF q
  <2>3. Queue(tasks') /\ Queued(tasks') = Queued(q) \cup {logout}
    BY <1>4, <1>5, <2>1, <2>2, AppendIsQueue
  <2>4. Queued(tasks') = Queued(tasks) \cup {packet, logout}
    BY <2>2, <2>3
  <2>5. TypeOK'
    BY <1>1, <1>2, <1>3, <1>10, <2>3 DEF TypeOK, Queue, connVars, playerVars, TaskSet
  <2>6. ASSUME NEW u \in Queued(tasks')
        PROVE  /\ Enters(u) => Outside(u.client)' /\ eventConnect'[u.client] = Nobody
               /\ u.kind = "login" => Fresh(u.client)'
               /\ u.kind = "release" => state'[u.client] = "disconnected"
               /\ Refers(u) => player'[u.client] = u.target
    <3>1. CASE u \in Queued(tasks)
      BY <1>1, <1>2, <1>10, <3>1 DEF Entrances, Outside, Fresh, connVars, playerVars
    <3>2. CASE u = packet
      BY <1>2, <1>4, <1>5, <3>2 DEF playerVars
    <3>3. CASE u = logout
      BY <1>4, <1>5, <3>3
    <3> QED
      BY <2>4, <2>6, <3>1, <3>2, <3>3
  <2>7. Entrances'
    BY <1>1, <1>2, <2>6 DEF Entrances, Outside, Fresh, playerVars
  <2>8. Pairs' /\ Counts' /\ Reading'
    BY <1>2, <1>3 DEF Inv, Pairs, Counts, Reading, playerVars
  <2> QED
    BY <2>3, <2>5, <2>7, <2>8 DEF Inv
<1>11. CASE Close(c, FALSE, pending[c], tasks) \/ UNCHANGED <<connVars, tasks>>
  <2>1. pending[c] \in SUBSET {"read", "write"}
    BY <1>1 DEF TypeOK
  <2>2. ConnStep(tasks)
    <3>1. CASE Close(c, FALSE, pending[c], tasks)
      BY <1>1, <2>1, <3>1, CloseStep
    <3>2. CASE UNCHANGED <<connVars, tasks>>
      BY <1>1, <3>2 DEF ConnStep, connVars, TypeOK
    <3> QED
      BY <1>11, <3>1, <3>2
  <2> QED
    BY <1>2, <1>3, <2>2, ConnectionsOnly DEF playerVars
<1> QED
  BY <1>9, <1>10, <1>11 DEF ParsePacket, packet, logout

LEMMA ConnectDueKeeps ==
  ASSUME Inv, NEW c \in Client, ConnectDue(c)
  PROVE  Inv'
<1> USE SessionAssumption
<1>1. TypeOK /\ Queue(tasks) /\ Entrances
  BY DEF Inv
<1> DEFINE t == Task("connect", c, eventConnect[c])
<1>2. /\ eventConnect[c] # Nobody
      /\ tasks' = <<t>> \o tasks
      /\ eventConnect' = [eventConnect EXCEPT ![c] = Nobody]
      /\ UNCHANGED <<connVars, first, net, playerVars, accepts>>
  BY DEF ConnectDue
<1>3. t \in TaskSet /\ t.kind = "connect" /\ t.client = c
  BY <1>1 DEF Task, TaskSet, TypeOK
<1> HIDE DEF t
<1>4. ~Refers(t) /\ \A u \in Queued(tasks) : Enters(u) => u.client # c
  BY <1>1, <1>2, <1>3 DEF Refers, Entrances
<1>5. Queue(tasks') /\ Queued(tasks') = Queued(tasks) \cup {t}
  BY <1>1, <1>2, <1>3, <1>4, PushIsQueue
<1>6. /\ eventConnect' \in [Client -> Client \cup {Nobody}]
      /\ eventConnect'[c] = Nobody
      /\ \A d \in Client : eventConnect'[d] # Nobody => eventConnect'[d] = eventConnect[d]
  BY <1>1, <1>2 DEF TypeOK
<1>7. Outside(c)'
  BY <1>1, <1>2 DEF Entrances, Outside, playerVars
<1>8. /\ net' \in [client : Client \cup {Nobody}, at : {"idle", "parsing", "ended"},
                   reads : Client \cup {Nobody}]
      /\ first \subseteq first' /\ first' \subseteq Client
  BY <1>1, <1>2 DEF TypeOK
<1> QED
  BY <1>2, <1>3, <1>4, <1>5, <1>6, <1>7, <1>8, NewTask

(***************************************************************************)
(* The dispatcher's tasks.                                                 *)
(***************************************************************************)
(* What is known of a task that is taken from the list, and of the rest. *)
LEMMA TaskTaken ==
  ASSUME Inv, NEW kind, NEW c \in Client, NEW o, Run(kind, c, o)
  PROVE  /\ Queue(Tail(tasks)) /\ Queued(Tail(tasks)) \subseteq Queued(tasks)
         /\ \A t \in Queued(tasks) : t.client \in Client
         /\ kind \in {"login", "connect"} =>
              /\ Outside(c) /\ eventConnect[c] = Nobody
              /\ \A t \in Queued(Tail(tasks)) : Enters(t) => t.client # c
         /\ kind = "login" => Fresh(c)
         /\ kind = "release" =>
              /\ state[c] = "disconnected"
              /\ \A t \in Queued(Tail(tasks)) : Precedes(t) => t.client # c
<1> DEFINE head == Head(tasks)
<1>1. Queue(tasks) /\ tasks # <<>> /\ tasks \in Seq(TaskSet) /\ Entrances
  BY DEF Inv, Run, Queue
<1>2. /\ head.kind = kind /\ head.client = c
  BY DEF Run, Task
<1>3. /\ head \in Queued(tasks)
      /\ Queued(Tail(tasks)) \subseteq Queued(tasks)
  BY <1>1, PopTask
<1>4. /\ Queue(Tail(tasks))
      /\ \A t \in Queued(Tail(tasks)) :
           /\ Enters(head) /\ Enters(t) => t.client # head.client
           /\ head.kind = "release" /\ Precedes(t) => t.client # head.client
  BY <1>1, RestIsQueue
<1>5. \A t \in Queued(tasks) : t.client \in Client
  BY <1>1, QueueElements DEF Queued, TaskSet
<1> HIDE DEF head
<1>6. kind \in {"login", "connect"} => Enters(head)
  BY <1>2 DEF Enters
<1>7. /\ Enters(head) => Outside(c) /\ eventConnect[c] = Nobody
      /\ kind = "login" => Fresh(c)
      /\ kind = "release" => state[c] = "disconnected"
  BY <1>1, <1>2, <1>3 DEF Entrances
<1> QED
  BY <1>2, <1>3, <1>4, <1>5, <1>6, <1>7

(* A task after which only connections, and who is in the game, may differ. *)
LEMMA TaskKeeps ==
  ASSUME Inv, NEW q, Queue(q), Queued(q) \subseteq Queued(tasks), NEW c \in Client,
         Disconnect(c, q) \/ DisconnectClient(c, q) \/ (tasks' = q /\ UNCHANGED connVars),
         UNCHANGED <<player, client, refs, held, freed, accepts, eventConnect, first, net>>,
         online' \subseteq online
  PROVE  Inv'
<1>1. TypeOK /\ Reading
  BY DEF Inv
<1>2. /\ ConnStep(q)
      /\ net.at = "parsing" /\ net.client \in Client => state'[net.client] = state[net.client]
  BY <1>1, DisconnectStep
<1>3. net.at = "parsing" => net.client \in Client
  BY <1>1 DEF Reading, TypeOK
<1>4. /\ first \subseteq first' /\ first' \subseteq Client
      /\ net' \in [client : Client \cup {Nobody}, at : {"idle", "parsing", "ended"},
                   reads : Client \cup {Nobody}]
  BY <1>1 DEF TypeOK
<1>5. net'.at = "parsing" => net' = net /\ state'[net.client] = state[net.client]
  BY <1>2, <1>3
<1> QED
  BY <1>2, <1>4, <1>5, ConnectionsOnly

(* A new Player for c. *)
LEMMA CreateKeeps ==
  ASSUME Inv, NEW c \in Client, Run("login", c, Nobody),
         LoginRefused(c) \/ LoginPlaced(c) \/ LoginKicked(c),
         UNCHANGED <<first, net, eventConnect>>
  PROVE  Inv'
<1> USE SessionAssumption
<1> DEFINE q == Tail(tasks)
<1>1. TypeOK /\ Entrances /\ Pairs /\ Counts /\ Reading
  BY DEF Inv
<1>2. /\ Queue(q) /\ Queued(q) \subseteq Queued(tasks)
      /\ Outside(c) /\ eventConnect[c] = Nobody /\ Fresh(c)
      /\ \A t \in Queued(q) : t.client \in Client /\ (Enters(t) => t.client # c)
  BY TaskTaken
<1>3. Disconnect(c, q) \/ DisconnectClient(c, q) \/ (tasks' = q /\ UNCHANGED connVars)
  BY DEF LoginRefused, LoginPlaced, LoginKicked
<1>4. /\ player' = [player EXCEPT ![c] = c]
      /\ client' = [client EXCEPT ![c] = c]
      /\ UNCHANGED freed
      /\ \/ /\ refs' = [refs EXCEPT ![c] = 0] \/ refs' = [refs EXCEPT ![c] = 1]
            /\ UNCHANGED <<accepts, held, online>>
         \/ /\ refs' = [refs EXCEPT ![c] = 2]
            /\ held' = held \cup {c} /\ accepts' = accepts \cup {c}
            /\ online' \in {online, online \cup {c}}
  BY DEF LoginRefused, LoginPlaced, LoginKicked, NewPlayer
<1> HIDE DEF q
<1>5. /\ ConnStep(q)
      /\ net.at = "parsing" /\ net.client \in Client => state'[net.client] = state[net.client]
  BY <1>1, <1>2, <1>3, DisconnectStep
<1>6. /\ player' \in [Client -> Client \cup {Nobody}]
      /\ client' \in [Client -> Client \cup {Nobody}]
      /\ accepts' \subseteq Client /\ held' \subseteq Client /\ online' \subseteq Client
      /\ player'[c] = c /\ client'[c] = c
      /\ \A d \in Client \ {c} : player'[d] = player[d] /\ client'[d] = client[d]
  BY <1>1, <1>4 DEF TypeOK
<1>7. /\ refs' \in [Client -> 0 .. MaxRef]
      /\ \A d \in Client \ {c} : refs'[d] = refs[d]
      /\ c \in held' => refs'[c] = 2
      /\ c \notin held' => refs'[c] \in {0, 1}
  <2>1. c \notin held
    BY <1>2 DEF Fresh
  <2>2. \/ refs' = [refs EXCEPT ![c] = 0] /\ c \notin held'
        \/ refs' = [refs EXCEPT ![c] = 1] /\ c \notin held'
        \/ refs' = [refs EXCEPT ![c] = 2] /\ c \in held'
    BY <1>4, <2>1
  <2>3. /\ {0, 1, 2} \subseteq 0 .. MaxRef
        /\ refs \in [Client -> 0 .. MaxRef]
    <3>1. 0 <= MaxRef /\ 1 <= MaxRef /\ 2 <= MaxRef /\ MaxRef \in Int
      BY SessionAssumption
    <3> QED
      BY <1>1, <3>1 DEF TypeOK
  <2> QED
    BY <2>2, <2>3
<1>8. TypeOK'
  BY <1>1, <1>4, <1>5, <1>6, <1>7 DEF TypeOK, ConnStep, Queue, TaskSet
<1>9. ASSUME NEW t \in Queued(tasks')
      PROVE  /\ Enters(t) => Outside(t.client)' /\ eventConnect'[t.client] = Nobody
             /\ t.kind = "login" => Fresh(t.client)'
             /\ t.kind = "release" => state'[t.client] = "disconnected"
             /\ Refers(t) => player'[t.client] = t.target
  <2>1. CASE t \in Queued(q)
    <3>1. /\ Enters(t) => Outside(t.client) /\ eventConnect[t.client] = Nobody
          /\ t.kind = "login" => Fresh(t.client)
          /\ t.kind = "release" => state[t.client] = "disconnected"
          /\ Refers(t) => player[t.client] = t.target
      BY <1>1, <1>2, <2>1 DEF Entrances
    <3>2. t.client \in Client /\ (Enters(t) => t.client # c)
      BY <1>2, <2>1
    <3>3. Refers(t) => t.client # c
      BY <1>2, <3>1 DEF Outside, Refers
    <3>4. t.kind = "login" => Enters(t)
      BY DEF Enters
    <3> QED
      BY <1>4, <1>5, <1>6, <3>1, <3>2, <3>3, <3>4 DEF Outside, Fresh, ConnStep
  <2>2. CASE t.kind = "release" /\ state'[t.client] = "disconnected"
    BY <2>2 DEF Enters, Refers
  <2> QED
    BY <1>5, <1>9, <2>1, <2>2 DEF ConnStep
<1>10. ASSUME NEW d \in Client
       PROVE  /\ eventConnect'[d] # Nobody => Outside(d)'
              /\ d \notin first' =>
                   /\ player'[d] = Nobody /\ d \notin accepts'
                   /\ eventConnect'[d] = Nobody /\ Fresh(d)'
  <2>1. CASE d = c
    BY <1>2, <2>1 DEF Outside
  <2>2. CASE d # c
    BY <1>1, <1>4, <1>6, <2>2 DEF Entrances, Outside, Fresh
  <2> QED
    BY <2>1, <2>2
<1>11. Entrances'
  BY <1>9, <1>10 DEF Entrances
<1>12. Pairs'
  BY <1>1, <1>2, <1>6 DEF Pairs, Outside, Fresh
<1>13. Counts'
  <2>1. online' \subseteq held'
    BY <1>1, <1>4 DEF Counts
  <2>2. ASSUME NEW o \in Client
        PROVE  /\ o \in freed' => client'[o] = Nobody /\ o \notin held'
               /\ o \in held' => refs'[o] = IF client'[o] = Nobody THEN 1 ELSE 2
               /\ o \notin held' /\ client'[o] # Nobody => refs'[o] \in {0, 1}
    <3>1. CASE o = c
      BY <1>2, <1>4, <1>6, <1>7, <3>1 DEF Fresh
    <3>2. CASE o # c
      BY <1>1, <1>4, <1>6, <1>7, <3>2 DEF Counts
    <3> QED
      BY <3>1, <3>2
  <2> QED
    BY <2>1, <2>2 DEF Counts
<1>14. Reading'
  <2> SUFFICES ASSUME net.at = "parsing"
               PROVE  /\ net.client \in accepts' /\ state'[net.client] = "open"
                      /\ net.reads = player'[net.client]
    BY DEF Reading
  <2>1. /\ net.client \in accepts /\ state[net.client] = "open"
        /\ net.reads = player[net.client] /\ net.client \in Client
    BY <1>1 DEF Reading, TypeOK
  <2>2. net.client # c
    BY <1>2, <2>1 DEF Outside
  <2> QED
    BY <1>4, <1>5, <1>6, <2>1, <2>2
<1>15. Queue(tasks')
  BY <1>5 DEF ConnStep
<1> QED
  BY <1>8, <1>11, <1>12, <1>13, <1>14, <1>15 DEF Inv

(* A Player without a client, and with one reference, gets both. *)
LEMMA TakeOverKeeps ==
  ASSUME Inv, NEW c \in Client, NEW o \in Client, NEW kind \in {"login", "connect"}, NEW p,
         Run(kind, c, p), o \in online, client[o] = Nobody, TakeOver(c, o),
         UNCHANGED <<first, net, eventConnect>>
  PROVE  Inv'
<1> USE SessionAssumption
<1> DEFINE q == Tail(tasks)
<1>1. TypeOK /\ Entrances /\ Pairs /\ Counts /\ Reading
  BY DEF Inv
<1>2. /\ Queue(q) /\ Queued(q) \subseteq Queued(tasks)
      /\ Outside(c) /\ eventConnect[c] = Nobody
      /\ \A t \in Queued(q) : t.client \in Client /\ (Enters(t) => t.client # c)
  BY TaskTaken
<1>3. /\ player' = [player EXCEPT ![c] = o]
      /\ client' = [client EXCEPT ![o] = c]
      /\ refs' = [refs EXCEPT ![o] = refs[o] + 1]
      /\ accepts' = accepts \cup {c}
      /\ tasks' = q
      /\ UNCHANGED <<connVars, held, online, freed>>
  BY DEF TakeOver
<1> HIDE DEF q
<1>4. o \in held /\ refs[o] = 1 /\ c \in first /\ c \notin accepts /\ player[c] = Nobody
  BY <1>1, <1>2 DEF Counts, Outside
<1>5. /\ player' \in [Client -> Client \cup {Nobody}] /\ player'[c] = o
      /\ client' \in [Client -> Client \cup {Nobody}] /\ client'[o] = c
      /\ refs' \in [Client -> 0 .. MaxRef] /\ refs'[o] = 2
      /\ \A d \in Client : d # c => player'[d] = player[d]
      /\ \A d \in Client : d # o => client'[d] = client[d] /\ refs'[d] = refs[d]
  BY <1>1, <1>3, <1>4 DEF TypeOK
<1>6. TypeOK' /\ Queue(tasks')
  BY <1>1, <1>2, <1>3, <1>5 DEF TypeOK, Queue, connVars, TaskSet
<1>7. ASSUME NEW t \in Queued(tasks')
      PROVE  /\ Enters(t) => Outside(t.client)' /\ eventConnect'[t.client] = Nobody
             /\ t.kind = "login" => Fresh(t.client)'
             /\ t.kind = "release" => state'[t.client] = "disconnected"
             /\ Refers(t) => player'[t.client] = t.target
  <2>1. /\ Enters(t) => Outside(t.client) /\ eventConnect[t.client] = Nobody
        /\ t.kind = "login" => Fresh(t.client)
        /\ t.kind = "release" => state[t.client] = "disconnected"
        /\ Refers(t) => player[t.client] = t.target
    BY <1>1, <1>2, <1>3 DEF Entrances
  <2>2. t.client \in Client /\ (Enters(t) => t.client # c)
    BY <1>2, <1>3
  <2>3. Refers(t) => t.client # c
    BY <1>4, <2>1 DEF Refers
  <2>4. t.kind = "login" => t.client # o
    BY <1>4, <2>1 DEF Fresh
  <2> QED
    BY <1>3, <1>5, <2>1, <2>2, <2>3, <2>4 DEF Outside, Fresh, connVars
<1>8. ASSUME NEW d \in Client
      PROVE  /\ eventConnect'[d] # Nobody => Outside(d)'
             /\ d \notin first' =>
                  /\ player'[d] = Nobody /\ d \notin accepts'
                  /\ eventConnect'[d] = Nobody /\ Fresh(d)'
  <2>1. eventConnect'[d] # Nobody => Outside(d)'
    BY <1>1, <1>2, <1>3, <1>5 DEF Entrances, Outside
  <2>2. ASSUME d \notin first
        PROVE  /\ player'[d] = Nobody /\ d \notin accepts'
               /\ eventConnect'[d] = Nobody /\ Fresh(d)'
    <3>1. /\ player[d] = Nobody /\ d \notin accepts
          /\ eventConnect[d] = Nobody /\ Fresh(d)
      BY <1>1, <2>2 DEF Entrances
    <3>2. d # c /\ d # o
      BY <1>4, <2>2, <3>1 DEF Fresh
    <3> QED
      BY <1>3, <1>5, <3>1, <3>2 DEF Fresh
  <2> QED
    BY <2>1, <2>2
<1>9. Entrances'
  BY <1>7, <1>8 DEF Entrances
<1>10. Pairs'
  <2> SUFFICES ASSUME NEW x \in Client, NEW y \in Client
               PROVE  player'[x] = y <=> client'[y] = x
    BY DEF Pairs
  <2>1. player[x] = y <=> client[y] = x
    BY <1>1 DEF Pairs
  <2>2. player[x] = o => FALSE
    BY <1>1 DEF Pairs
  <2>3. client[y] = c => FALSE
    BY <1>1, <1>4 DEF Pairs
  <2> QED
    BY <1>5, <2>1, <2>2, <2>3
<1>11. Counts'
  BY <1>1, <1>3, <1>4, <1>5 DEF Counts
<1>12. Reading'
  <2> SUFFICES ASSUME net.at = "parsing"
               PROVE  /\ net.client \in accepts' /\ state'[net.client] = "open"
                      /\ net.reads = player'[net.client]
    BY DEF Reading
  <2>1. /\ net.client \in accepts /\ state[net.client] = "open"
        /\ net.reads = player[net.client] /\ net.client \in Client
    BY <1>1 DEF Reading, TypeOK
  <2> QED
    BY <1>3, <1>4, <1>5, <2>1 DEF connVars
<1> QED
  BY <1>6, <1>9, <1>10, <1>11, <1>12 DEF Inv

LEMMA ConnectKeeps ==
  ASSUME Inv, NEW c \in Client, NEW o \in Client, NEW kind \in {"login", "connect"}, NEW p,
         Run(kind, c, p), Connect(c, o), UNCHANGED <<first, net, eventConnect>>
  PROVE  Inv'
<1>1. Queue(Tail(tasks)) /\ Queued(Tail(tasks)) \subseteq Queued(tasks)
  BY TaskTaken
<1>2. CASE DisconnectClient(c, Tail(tasks)) /\ UNCHANGED <<playerVars, accepts>>
  BY <1>1, <1>2, TaskKeeps DEF playerVars
<1>3. CASE tasks' = Tail(tasks) /\ UNCHANGED <<connVars, playerVars, accepts>>
  BY <1>1, <1>3, TaskKeeps DEF playerVars
<1>4. CASE o \in online /\ client[o] = Nobody /\ TakeOver(c, o)
  BY <1>4, TakeOverKeeps
<1> QED
  BY <1>2, <1>3, <1>4 DEF Connect

LEMMA ReplaceKeeps ==
  ASSUME Inv, NEW c \in Client, NEW o \in Client, Run("login", c, Nobody), LoginReplaces(c, o),
         UNCHANGED <<first, net>>
  PROVE  Inv'
<1> DEFINE q == Tail(tasks)
<1>1. TypeOK /\ Entrances /\ Pairs /\ Counts /\ Reading
  BY DEF Inv
<1>2. /\ Queue(q) /\ Queued(q) \subseteq Queued(tasks)
      /\ Outside(c) /\ eventConnect[c] = Nobody
      /\ \A t \in Queued(q) : t.client \in Client /\ (Enters(t) => t.client # c)
  BY TaskTaken
<1>3. /\ client[o] \in Client
      /\ Disconnect(client[o], q)
      /\ eventConnect' = [eventConnect EXCEPT ![c] = o]
      /\ UNCHANGED <<playerVars, accepts>>
  BY <1>1 DEF LoginReplaces, TypeOK
<1> HIDE DEF q
<1>4. /\ ConnStep(q)
      /\ net.at = "parsing" /\ net.client \in Client => state'[net.client] = state[net.client]
  BY <1>1, <1>2, <1>3, DisconnectStep
<1>5. /\ eventConnect' \in [Client -> Client \cup {Nobody}]
      /\ \A d \in Client : d # c => eventConnect'[d] = eventConnect[d]
  BY <1>1, <1>3 DEF TypeOK
<1>6. TypeOK' /\ Queue(tasks')
  BY <1>1, <1>3, <1>4, <1>5 DEF TypeOK, ConnStep, Queue, playerVars, TaskSet
<1>7. ASSUME NEW t \in Queued(tasks')
      PROVE  /\ Enters(t) => Outside(t.client)' /\ eventConnect'[t.client] = Nobody
             /\ t.kind = "login" => Fresh(t.client)'
             /\ t.kind = "release" => state'[t.client] = "disconnected"
             /\ Refers(t) => player'[t.client] = t.target
  <2>1. CASE t \in Queued(q)
    <3>1. /\ Enters(t) => Outside(t.client) /\ eventConnect[t.client] = Nobody
          /\ t.kind = "login" => Fresh(t.client)
          /\ t.kind = "release" => state[t.client] = "disconnected"
          /\ Refers(t) => player[t.client] = t.target
      BY <1>1, <1>2, <2>1 DEF Entrances
    <3>2. t.client \in Client /\ (Enters(t) => t.client # c)
      BY <1>2, <2>1
    <3> QED
      BY <1>3, <1>4, <1>5, <3>1, <3>2 DEF Outside, Fresh, ConnStep, playerVars
  <2>2. CASE t.kind = "release" /\ state'[t.client] = "disconnected"
    BY <2>2 DEF Enters, Refers
  <2> QED
    BY <1>4, <1>7, <2>1, <2>2 DEF ConnStep
<1>8. ASSUME NEW d \in Client
      PROVE  /\ eventConnect'[d] # Nobody => Outside(d)'
             /\ d \notin first' =>
                  /\ player'[d] = Nobody /\ d \notin accepts'
                  /\ eventConnect'[d] = Nobody /\ Fresh(d)'
  <2>1. CASE d = c
    BY <1>2, <1>3, <2>1 DEF Outside, playerVars
  <2>2. CASE d # c
    BY <1>1, <1>3, <1>5, <2>2 DEF Entrances, Outside, Fresh, playerVars
  <2> QED
    BY <2>1, <2>2
<1>9. Entrances'
  BY <1>7, <1>8 DEF Entrances
<1>10. Pairs' /\ Counts'
  BY <1>1, <1>3 DEF Pairs, Counts, playerVars
<1>11. Reading'
  <2> SUFFICES ASSUME net.at = "parsing"
               PROVE  /\ net.client \in accepts' /\ state'[net.client] = "open"
                      /\ net.reads = player'[net.client]
    BY DEF Reading
  <2>1. /\ net.client \in accepts /\ state[net.client] = "open"
        /\ net.reads = player[net.client] /\ net.client \in Client
    BY <1>1 DEF Reading, TypeOK
  <2> QED
    BY <1>3, <1>4, <2>1 DEF playerVars
<1> QED
  BY <1>6, <1>9, <1>10, <1>11 DEF Inv

LEMMA LoginKeeps ==
  ASSUME Inv, NEW c \in Client, Login(c)
  PROVE  Inv'
<1>1. Run("login", c, Nobody) /\ UNCHANGED <<first, net>>
  BY DEF Login
<1>2. CASE (LoginRefused(c) \/ LoginPlaced(c) \/ LoginKicked(c)) /\ UNCHANGED eventConnect
  BY <1>1, <1>2, CreateKeeps
<1>3. ASSUME NEW o \in Found, LoginReplaces(c, o)
      PROVE  Inv'
  BY <1>1, <1>3, ReplaceKeeps DEF Found, Inv, TypeOK
<1>4. ASSUME NEW o \in Found, LoginResumes(c, o)
      PROVE  Inv'
  BY <1>1, <1>4, ConnectKeeps DEF Found, Inv, TypeOK, LoginResumes
<1> QED
  BY <1>2, <1>3, <1>4 DEF Login

(* The last reference deletes the Player, and so nothing points to it then. *)
LEMMA ReleaseKeeps ==
  ASSUME Inv, NEW c \in Client, Release(c)
  PROVE  Inv'
<1> USE SessionAssumption
<1> DEFINE q == Tail(tasks)
           o == player[c]
<1>1. TypeOK /\ Entrances /\ Pairs /\ Counts /\ Reading
  BY DEF Inv
<1>2. /\ Run("release", c, Nobody) /\ tasks' = q
      /\ UNCHANGED <<connVars, first, net, eventConnect, accepts, held, online>>
  BY DEF Release
<1>3. /\ Queue(q) /\ Queued(q) \subseteq Queued(tasks)
      /\ state[c] = "disconnected"
      /\ \A t \in Queued(q) : t.client \in Client /\ (Refers(t) => t.client # c)
  BY <1>2, TaskTaken DEF Precedes
<1>4. CASE ~Controls(c)
  <2>1. UNCHANGED <<client, refs, freed, player>>
    BY <1>4 DEF Release
  <2> QED
    BY <1>2, <1>3, <2>1, TaskKeeps
<1>5. CASE Controls(c)
  <2>1. /\ o \in Client /\ client[o] = c
        /\ client' = [client EXCEPT ![o] = Nobody]
        /\ Drop(o)
        /\ player' = [player EXCEPT ![c] = Nobody]
    BY <1>5 DEF Release, Controls
  <2> HIDE DEF o, q
  <2>2. /\ o \notin freed
        /\ o \in held => refs[o] = 2
        /\ o \notin held => refs[o] \in {0, 1}
    BY <1>1, <2>1 DEF Counts
  <2>3. /\ refs' \in [Client -> 0 .. MaxRef]
        /\ \A d \in Client : d # o => refs'[d] = refs[d]
        /\ o \in held => refs'[o] = 1
        /\ freed \subseteq freed' /\ freed' \subseteq freed \cup {o}
        /\ o \in held => freed' = freed
    BY <1>1, <2>1, <2>2 DEF Drop, TypeOK
  <2>4. /\ player' \in [Client -> Client \cup {Nobody}] /\ player'[c] = Nobody
        /\ client' \in [Client -> Client \cup {Nobody}] /\ client'[o] = Nobody
        /\ \A d \in Client : d # c => player'[d] = player[d]
        /\ \A d \in Client : d # o => client'[d] = client[d]
    BY <1>1, <2>1 DEF TypeOK
  <2>5. TypeOK' /\ Queue(tasks')
    BY <1>1, <1>2, <1>3, <2>1, <2>3, <2>4 DEF TypeOK, Queue, connVars, TaskSet
  <2>6. ASSUME NEW d \in Client, Fresh(d)
        PROVE  Fresh(d)'
    <3>1. d # o
      BY <2>1, <2>6 DEF Fresh
    <3> QED
      BY <1>2, <2>3, <2>4, <2>6, <3>1 DEF Fresh
  <2>7. ASSUME NEW d \in Client, Outside(d)
        PROVE  Outside(d)'
    BY <1>2, <2>4, <2>7 DEF Outside
  <2>8. ASSUME NEW t \in Queued(tasks')
        PROVE  /\ Enters(t) => Outside(t.client)' /\ eventConnect'[t.client] = Nobody
               /\ t.kind = "login" => Fresh(t.client)'
               /\ t.kind = "release" => state'[t.client] = "disconnected"
               /\ Refers(t) => player'[t.client] = t.target
    <3>1. /\ Enters(t) => Outside(t.client) /\ eventConnect[t.client] = Nobody
          /\ t.kind = "login" => Fresh(t.client)
          /\ t.kind = "release" => state[t.client] = "disconnected"
          /\ Refers(t) => player[t.client] = t.target
      BY <1>1, <1>2, <1>3 DEF Entrances
    <3>2. t.client \in Client /\ (Refers(t) => t.client # c)
      BY <1>2, <1>3
    <3>3. /\ Enters(t) => Outside(t.client)'
          /\ t.kind = "login" => Fresh(t.client)'
      BY <2>6, <2>7, <3>1, <3>2
    <3> QED
      BY <1>2, <2>4, <3>1, <3>2, <3>3 DEF connVars
  <2>9. ASSUME NEW d \in Client
        PROVE  /\ eventConnect'[d] # Nobody => Outside(d)'
               /\ d \notin first' =>
                    /\ player'[d] = Nobody /\ d \notin accepts'
                    /\ eventConnect'[d] = Nobody /\ Fresh(d)'
    <3>1. eventConnect'[d] # Nobody => Outside(d)'
      BY <1>1, <1>2, <2>7 DEF Entrances
    <3>2. ASSUME d \notin first
          PROVE  /\ player'[d] = Nobody /\ d \notin accepts
                 /\ eventConnect[d] = Nobody /\ Fresh(d)'
      <4>1. player[d] = Nobody /\ d \notin accepts /\ eventConnect[d] = Nobody /\ Fresh(d)
        BY <1>1, <3>2 DEF Entrances
      <4> QED
        BY <2>4, <2>6, <4>1
    <3> QED
      BY <1>2, <3>1, <3>2
  <2>10. Entrances'
    BY <2>8, <2>9 DEF Entrances
  <2>11. Pairs'
    <3> SUFFICES ASSUME NEW x \in Client, NEW y \in Client
                 PROVE  player'[x] = y <=> client'[y] = x
      BY DEF Pairs
    <3>1. /\ player[x] = y <=> client[y] = x
          /\ player[x] = o <=> client[o] = x
      BY <1>1, <2>1 DEF Pairs
    <3>2. x = c => player[x] = o
      BY DEF o
    <3> QED
      BY <2>1, <2>4, <3>1, <3>2
  <2>12. Counts'
    <3>1. online' \subseteq held'
      BY <1>1, <1>2 DEF Counts
    <3>2. ASSUME NEW d \in Client
          PROVE  /\ d \in freed' => client'[d] = Nobody /\ d \notin held'
                 /\ d \in held' => refs'[d] = IF client'[d] = Nobody THEN 1 ELSE 2
                 /\ d \notin held' /\ client'[d] # Nobody => refs'[d] \in {0, 1}
      <4>1. CASE d = o
        BY <1>2, <2>2, <2>3, <2>4, <4>1
      <4>2. CASE d # o
        BY <1>1, <1>2, <2>3, <2>4, <4>2 DEF Counts
      <4> QED
        BY <4>1, <4>2
    <3> QED
      BY <3>1, <3>2 DEF Counts
  <2>13. Reading'
    <3> SUFFICES ASSUME net.at = "parsing"
                 PROVE  /\ net.client \in accepts /\ state'[net.client] = "open"
                        /\ net.reads = player'[net.client]
      BY <1>2 DEF Reading
    <3>1. /\ net.client \in accepts /\ state[net.client] = "open"
          /\ net.reads = player[net.client] /\ net.client \in Client
      BY <1>1 DEF Reading, TypeOK
    <3>2. net.client # c
      BY <1>3, <3>1
    <3> QED
      BY <1>2, <2>4, <3>1, <3>2 DEF connVars
  <2> QED
    BY <2>5, <2>10, <2>11, <2>12, <2>13 DEF Inv
<1> QED
  BY <1>4, <1>5

LEMMA CleanupKeeps ==
  ASSUME Inv, NEW o \in Client, Cleanup(o)
  PROVE  Inv'
<1> USE SessionAssumption
<1>1. TypeOK /\ Entrances /\ Pairs /\ Counts /\ Reading /\ Queue(tasks)
  BY DEF Inv
<1>2. /\ o \in held /\ o \notin online
      /\ held' = held \ {o}
      /\ Drop(o)
      /\ UNCHANGED <<connVars, first, net, tasks, eventConnect, player, accepts, client, online>>
  BY DEF Cleanup
<1>3. /\ o \notin freed
      /\ refs[o] = IF client[o] = Nobody THEN 1 ELSE 2
  BY <1>1, <1>2 DEF Counts
<1>4. /\ refs' \in [Client -> 0 .. MaxRef]
      /\ \A d \in Client : d # o => refs'[d] = refs[d]
      /\ client[o] # Nobody => refs'[o] = 1 /\ freed' = freed
      /\ freed \subseteq freed' /\ freed' \subseteq freed \cup {o}
  BY <1>1, <1>2, <1>3 DEF Drop, TypeOK
<1>5. TypeOK'
  BY <1>1, <1>2, <1>4 DEF TypeOK, connVars
<1>6. ASSUME NEW d \in Client, Fresh(d)
      PROVE  Fresh(d)'
  BY <1>2, <1>4, <1>6 DEF Fresh
<1>7. Entrances'
  <2>1. ASSUME NEW t \in Queued(tasks)
        PROVE  /\ Enters(t) => Outside(t.client)' /\ eventConnect'[t.client] = Nobody
               /\ t.kind = "login" => Fresh(t.client)'
               /\ t.kind = "release" => state'[t.client] = "disconnected"
               /\ Refers(t) => player'[t.client] = t.target
    <3>1. t.client \in Client
      BY <1>1, <2>1, QueueElements DEF Queue, Queued, TaskSet
    <3>2. /\ Enters(t) => Outside(t.client) /\ eventConnect[t.client] = Nobody
          /\ t.kind = "login" => Fresh(t.client)
          /\ t.kind = "release" => state[t.client] = "disconnected"
          /\ Refers(t) => player[t.client] = t.target
      BY <1>1, <2>1 DEF Entrances
    <3> QED
      BY <1>2, <1>6, <3>1, <3>2 DEF Outside, connVars
  <2>2. ASSUME NEW d \in Client
        PROVE  /\ eventConnect'[d] # Nobody => Outside(d)'
               /\ d \notin first' =>
                    /\ player'[d] = Nobody /\ d \notin accepts'
                    /\ eventConnect'[d] = Nobody /\ Fresh(d)'
    BY <1>1, <1>2, <1>6 DEF Entrances, Outside
  <2> QED
    BY <1>2, <2>1, <2>2 DEF Entrances
<1>8. Pairs' /\ Reading' /\ Queue(tasks')
  BY <1>1, <1>2 DEF Pairs, Reading, connVars
<1>9. Counts'
  <2>1. online' \subseteq held'
    BY <1>1, <1>2 DEF Counts
  <2>2. ASSUME NEW d \in Client
        PROVE  /\ d \in freed' => client'[d] = Nobody /\ d \notin held'
               /\ d \in held' => refs'[d] = IF client'[d] = Nobody THEN 1 ELSE 2
               /\ d \notin held' /\ client'[d] # Nobody => refs'[d] \in {0, 1}
    <3>1. CASE d = o
      BY <1>2, <1>3, <1>4, <3>1
    <3>2. CASE d # o
      BY <1>1, <1>2, <1>4, <3>2 DEF Counts
    <3> QED
      BY <3>1, <3>2
  <2> QED
    BY <2>1, <2>2 DEF Counts
<1> QED
  BY <1>5, <1>7, <1>8, <1>9 DEF Inv

(* A player leaves the maps, by his own task or by a kick. *)
LEMMA LeaveKeeps ==
  ASSUME Inv, NEW c \in Client, NEW q, Queue(q), Queued(q) \subseteq Queued(tasks),
         Leave(c, q) \/ (tasks' = q /\ UNCHANGED <<connVars, online>>),
         UNCHANGED <<first, net, eventConnect, player, client, refs, held, freed, accepts>>
  PROVE  Inv'
<1>1. online' \subseteq online
  BY DEF Leave
<1>2. Disconnect(c, q) \/ DisconnectClient(c, q) \/ (tasks' = q /\ UNCHANGED connVars)
  BY DEF Leave
<1> QED
  BY <1>1, <1>2, TaskKeeps

LEMMA KickKeeps ==
  ASSUME Inv, NEW o \in Client, Kick(o)
  PROVE  Inv'
<1>1. /\ UNCHANGED <<first, net, eventConnect, player, client, refs, held, freed, accepts>>
      /\ Queue(tasks)
  BY DEF Kick, Inv
<1>2. CASE client[o] # Nobody /\ Leave(client[o], tasks)
  <2>1. client[o] \in Client
    BY <1>2 DEF Inv, TypeOK
  <2> QED
    BY <1>1, <1>2, <2>1, LeaveKeeps
<1>3. CASE client[o] = Nobody /\ online' = online \ {o} /\ UNCHANGED <<connVars, tasks>>
  BY <1>1, <1>3, TaskKeeps
<1> QED
  BY <1>2, <1>3 DEF Kick

LEMMA DeathKeeps ==
  ASSUME Inv, NEW o \in Client, Death(o)
  PROVE  Inv'
<1>1. Queue(tasks)
  BY DEF Inv
<1> QED
  BY <1>1, TaskKeeps DEF Death

LEMMA InvHolds == Spec => []Inv
<1> USE SessionAssumption
<1>1. Init => Inv
  <2> SUFFICES ASSUME Init
               PROVE  Inv
    OBVIOUS
  <2>1. TypeOK
    BY EmptySeq DEF Init, TypeOK, Idle
  <2>2. Queue(tasks) /\ Queued(tasks) = {}
    BY EmptySeq DEF Init, Queue, Queued
  <2>3. Entrances
    BY <2>2 DEF Init, Entrances, Fresh
  <2>4. Pairs /\ Counts /\ Reading
    BY DEF Init, Pairs, Counts, Reading, Idle
  <2> QED
    BY <2>1, <2>2, <2>3, <2>4 DEF Inv
<1>2. Inv /\ [Next]_vars => Inv'
  <2> SUFFICES ASSUME Inv, [Next]_vars
               PROVE  Inv'
    OBVIOUS
  <2>1. CASE UNCHANGED vars
    <3>1. UNCHANGED <<state, socket, pending, first, net, tasks, eventConnect, player, accepts,
                      client, refs, held, online, freed>>
      BY <2>1 DEF vars
    <3>2. TypeOK' /\ Queue(tasks')
      BY <3>1 DEF Inv, TypeOK
    <3>3. Entrances'
      BY <3>1 DEF Inv, Entrances, Outside, Fresh
    <3>4. Pairs' /\ Counts' /\ Reading'
      BY <3>1 DEF Inv, Pairs, Counts, Reading
    <3> QED
      BY <3>2, <3>3, <3>4 DEF Inv
  <2>2. ASSUME NEW c \in Client, Login(c)
        PROVE  Inv'
    BY <2>2, LoginKeeps
  <2>3. ASSUME NEW c \in Client, ConnectTask(c)
        PROVE  Inv'
    BY <2>3, ConnectKeeps DEF ConnectTask
  <2>4. ASSUME NEW c \in Client, Release(c)
        PROVE  Inv'
    BY <2>4, ReleaseKeeps
  <2>5. ASSUME NEW c \in Client, PacketTask(c)
        PROVE  Inv'
    <3>1. Queue(Tail(tasks)) /\ Queued(Tail(tasks)) \subseteq Queued(tasks)
      BY <2>5, TaskTaken DEF PacketTask
    <3> QED
      BY <2>5, <3>1, TaskKeeps DEF PacketTask, playerVars
  <2>6. ASSUME NEW c \in Client, Logout(c)
        PROVE  Inv'
    <3>1. Queue(Tail(tasks)) /\ Queued(Tail(tasks)) \subseteq Queued(tasks)
      BY <2>6, TaskTaken DEF Logout
    <3> QED
      BY <2>6, <3>1, LeaveKeeps DEF Logout
  <2>7. ASSUME NEW c \in Client,
               \/ Accept(c) \/ ReadNothing(c) \/ Written(c) \/ HandlerEnds(c) \/ Send(c)
               \/ Timeout(c) \/ TooManyPackets(c) \/ \E op \in {"read", "write"} : Fail(c, op)
        PROVE  Inv'
    BY <2>7, HandlersKeep
  <2>8. ASSUME NEW c \in Client, ReadFirst(c) \/ ReadPacket(c) \/ ParsePacket(c) \/ ConnectDue(c)
        PROVE  Inv'
    BY <2>8, ReadFirstKeeps, ReadPacketKeeps, ParsePacketKeeps, ConnectDueKeeps
  <2>9. ASSUME NEW o \in Client, Kick(o) \/ Death(o) \/ Cleanup(o)
        PROVE  Inv'
    BY <2>9, KickKeeps, DeathKeeps, CleanupKeeps
  <2> QED
    BY <2>1, <2>2, <2>3, <2>4, <2>5, <2>6, <2>7, <2>8, <2>9 DEF Next, Dispatch, Handle
<1> QED
  BY <1>1, <1>2, PTL DEF Spec

(***************************************************************************)
(* The theorems                                                            *)
(***************************************************************************)
(* A protocol that holds a player is that player's client, and no other is:    *)
(* however many clients race for the character, no two control it              *)
(* (protocolgame.cpp:60-241).                                                  *)
THEOREM OneClientControls == Spec => []ClientsMatch
<1>1. Inv => ClientsMatch
  BY DEF Inv, Pairs, ClientsMatch
<1> QED
  BY <1>1, InvHolds, PTL

(* The reference counts are exact: a Player that a protocol points to, or that  *)
(* is in the game, is not deleted, in spite of the decrement of a counter that  *)
(* was never incremented (protocolgame.cpp:91).                                 *)
THEOREM PlayersAreNotDangling == Spec => []NoDanglingPlayer
<1>1. Inv => NoDanglingPlayer
  <2> SUFFICES ASSUME Inv
               PROVE  NoDanglingPlayer
    OBVIOUS
  <2>1. TypeOK /\ Pairs /\ Counts
    BY DEF Inv
  <2>2. ASSUME NEW c \in Client, player[c] \in freed
        PROVE  FALSE
    <3>1. player[c] \in Client /\ client[player[c]] = c
      BY <2>1, <2>2 DEF TypeOK, Pairs
    <3> QED
      BY <2>1, <2>2, <3>1, SessionAssumption DEF Counts
  <2>3. online \cap freed = {}
    BY <2>1 DEF Counts, TypeOK
  <2> QED
    BY <2>2, <2>3 DEF NoDanglingPlayer
<1> QED
  BY <1>1, InvHolds, PTL

(* While the network thread parses a packet, the pointer it read stays and the *)
(* Player is not deleted; nor is it before the packet's task has run, because  *)
(* release() comes behind it in the list (protocolgame.cpp:91, 442).           *)
THEOREM ReadersAreSafe == Spec => []ReaderIsSafe
<1>1. Inv => ReaderIsSafe
  <2> SUFFICES ASSUME Inv
               PROVE  ReaderIsSafe
    OBVIOUS
  <2> USE SessionAssumption
  <2>1. TypeOK /\ Queue(tasks) /\ Entrances /\ Pairs /\ Counts /\ Reading
    BY DEF Inv
  <2>2. ASSUME NEW c \in Client, NEW o \in Client, player[c] = o
        PROVE  o \notin freed
    BY <2>1, <2>2 DEF Pairs, Counts
  <2>3. ASSUME net.at = "parsing", net.reads # Nobody
        PROVE  net.reads \notin freed /\ player[net.client] = net.reads
    <3>1. net.client \in Client /\ net.reads \in Client /\ net.reads = player[net.client]
      BY <2>1, <2>3 DEF Reading, TypeOK
    <3> QED
      BY <2>2, <3>1
  <2>4. ASSUME NEW i \in DOMAIN tasks, tasks[i].kind = "packet"
        PROVE  tasks[i].target \notin freed
    <3>1. tasks[i] \in Queued(tasks) /\ tasks[i] \in TaskSet
      BY <2>1, QueueElements DEF Queue, Queued
    <3>2. CASE tasks[i].target = Nobody
      BY <2>1, <3>2 DEF TypeOK
    <3>3. CASE tasks[i].target # Nobody
      <4>1. player[tasks[i].client] = tasks[i].target
        BY <2>1, <2>4, <3>1, <3>3 DEF Entrances, Refers
      <4>2. tasks[i].client \in Client /\ tasks[i].target \in Client
        BY <3>1, <3>3 DEF TaskSet
      <4> QED
        BY <2>2, <4>1, <4>2
    <3> QED
      BY <3>2, <3>3
  <2> QED
    BY <2>3, <2>4 DEF ReaderIsSafe
<1> QED
  BY <1>1, InvHolds, PTL

(***************************************************************************)
(* No login is forgotten.                                                  *)
(***************************************************************************)
Waiting(c) == \E t \in Queued(tasks) : Enters(t) /\ t.client = c

Decided(c) == c \in accepts \/ state[c] = "disconnected" \/ eventConnect[c] # Nobody \/ Waiting(c)

AllDecided == \A c \in first : Decided(c)

(* A client stays decided when its task is not the one that was taken. *)
LEMMA StaysDecided ==
  ASSUME NEW c \in Client, Decided(c), accepts \subseteq accepts',
         state[c] = "disconnected" => state'[c] = "disconnected",
         eventConnect[c] # Nobody => eventConnect'[c] # Nobody,
         \A t \in Queued(tasks) : Enters(t) /\ t.client = c => t \in Queued(tasks')
  PROVE  Decided(c)'
BY DEF Decided, Waiting

(* Nothing leaves the list, and no connection opens again. *)
LEMMA NothingTaken ==
  ASSUME Inv, AllDecided, first' = first, accepts \subseteq accepts',
         UNCHANGED eventConnect, Queued(tasks) \subseteq Queued(tasks'),
         \A c \in Client : state[c] = "disconnected" => state'[c] = "disconnected"
  PROVE  AllDecided'
<1> SUFFICES ASSUME NEW c \in first
             PROVE  Decided(c)'
  BY DEF AllDecided
<1>1. c \in Client /\ Decided(c)
  BY DEF Inv, TypeOK, AllDecided
<1> QED
  BY <1>1, StaysDecided

(* The first task is taken, and the rest stays: what remains is to look at the *)
(* client the task lets in.                                                    *)
LEMMA HeadTaken ==
  ASSUME Inv, AllDecided, NEW kind, NEW x \in Client, NEW o, Run(kind, x, o),
         first' = first, accepts \subseteq accepts',
         \A c \in Client : eventConnect[c] # Nobody => eventConnect'[c] # Nobody,
         Queued(Tail(tasks)) \subseteq Queued(tasks'),
         \A c \in Client : state[c] = "disconnected" => state'[c] = "disconnected",
         kind \in {"login", "connect"} => Decided(x)'
  PROVE  AllDecided'
<1> SUFFICES ASSUME NEW c \in first
             PROVE  Decided(c)'
  BY DEF AllDecided
<1>1. c \in Client /\ Decided(c)
  BY DEF Inv, TypeOK, AllDecided
<1>2. tasks \in Seq(TaskSet) /\ tasks # <<>>
  BY DEF Inv, Queue, Run
<1>3. Queued(tasks) = {Head(tasks)} \cup Queued(Tail(tasks))
  BY <1>2, PopTask
<1>4. Head(tasks).kind = kind /\ Head(tasks).client = x
  BY DEF Run, Task
<1>5. CASE kind \in {"login", "connect"} /\ c = x
  BY <1>5
<1>6. CASE ~(kind \in {"login", "connect"} /\ c = x)
  <2>1. ASSUME NEW t \in Queued(tasks), Enters(t), t.client = c
        PROVE  t \in Queued(tasks')
    <3>1. t # Head(tasks)
      BY <1>4, <1>6, <2>1 DEF Enters
    <3> QED
      BY <1>3, <3>1
  <2> QED
    BY <1>1, <2>1, StaysDecided
<1> QED
  BY <1>5, <1>6

(* The handlers that queue at most a release(). *)
LEMMA HandlersDecide ==
  ASSUME Inv, AllDecided, NEW c \in Client,
         \/ Accept(c) \/ ReadNothing(c) \/ Written(c) \/ HandlerEnds(c) \/ Send(c)
         \/ Timeout(c) \/ TooManyPackets(c) \/ \E op \in {"read", "write"} : Fail(c, op)
  PROVE  AllDecided'
<1>1. TypeOK /\ Queue(tasks) /\ pending[c] \in SUBSET {"read", "write"}
  BY DEF Inv, TypeOK
<1>2. first' = first /\ accepts' = accepts /\ UNCHANGED eventConnect
  BY DEF Accept, ReadNothing, Written, HandlerEnds, Send, Timeout, TooManyPackets, Fail
<1>3. CASE Accept(c) \/ ReadNothing(c) \/ Written(c) \/ HandlerEnds(c) \/ Send(c)
  <2>1. /\ UNCHANGED tasks
        /\ \A d \in Client : state[d] = "disconnected" => state'[d] = "disconnected"
    BY <1>1, <1>3 DEF Accept, ReadNothing, Written, HandlerEnds, Send, connVars, TypeOK
  <2> QED
    BY <1>2, <2>1, NothingTaken
<1>4. CASE Timeout(c) \/ TooManyPackets(c) \/ \E op \in {"read", "write"} : Fail(c, op)
  <2>1. \E force \in BOOLEAN, ops \in SUBSET {"read", "write"} : Close(c, force, ops, tasks)
    <3>1. CASE Timeout(c)
      BY <1>1, <3>1 DEF Timeout
    <3>2. CASE TooManyPackets(c)
      <4>1. pending[c] \ {"read"} \in SUBSET {"read", "write"}
        BY <1>1
      <4> QED
        BY <3>2, <4>1 DEF TooManyPackets
    <3>3. ASSUME NEW op \in {"read", "write"}, Fail(c, op)
          PROVE  \E force \in BOOLEAN, ops \in SUBSET {"read", "write"} : Close(c, force, ops, tasks)
      <4>1. pending[c] \ {op} \in SUBSET {"read", "write"}
        BY <1>1
      <4> QED
        BY <3>3, <4>1 DEF Fail
    <3> QED
      BY <1>4, <3>1, <3>2, <3>3
  <2>2. ConnStep(tasks) /\ Queued(tasks) \subseteq Queued(tasks')
    BY <1>1, <2>1, CloseStep
  <2> QED
    BY <1>2, <2>2, NothingTaken DEF ConnStep
<1> QED
  BY <1>3, <1>4

(* The first message: a login is queued, or the client refused. *)
LEMMA ReadFirstDecides ==
  ASSUME Inv, AllDecided, NEW c \in Client, ReadFirst(c)
  PROVE  AllDecided'
<1>1. TypeOK /\ Queue(tasks) /\ pending[c] \in SUBSET {"read", "write"}
  BY DEF Inv, TypeOK
<1>2. first' = first \cup {c} /\ accepts' = accepts /\ UNCHANGED eventConnect
  BY DEF ReadFirst
<1>3. /\ Queued(tasks) \subseteq Queued(tasks')
      /\ \A d \in Client : state[d] = "disconnected" => state'[d] = "disconnected"
      /\ Decided(c)'
  <2>1. CASE tasks' = Append(tasks, Task("login", c, Nobody)) /\ UNCHANGED connVars
    <3> DEFINE t == Task("login", c, Nobody)
    <3>1. t \in TaskSet /\ Enters(t) /\ t.client = c
      BY DEF Task, TaskSet, Enters
    <3> HIDE DEF t
    <3>2. Queued(tasks') = Queued(tasks) \cup {t}
      BY <1>1, <2>1, <3>1, AppendTask DEF Queue, t
    <3>3. Waiting(c)'
      BY <3>1, <3>2 DEF Waiting
    <3> QED
      BY <2>1, <3>2, <3>3 DEF Decided, connVars
  <2>2. CASE Close(c, FALSE, pending[c] \cup {"write"}, tasks) \/ Close(c, FALSE, pending[c], tasks)
    <3>1. pending[c] \cup {"write"} \in SUBSET {"read", "write"}
      BY <1>1
    <3>2. /\ ConnStep(tasks) /\ Queued(tasks) \subseteq Queued(tasks')
          /\ state' = [state EXCEPT ![c] = "disconnected"]
      BY <1>1, <2>2, <3>1, CloseStep
    <3> QED
      BY <1>1, <3>2 DEF ConnStep, Decided, TypeOK
  <2> QED
    BY <2>1, <2>2 DEF ReadFirst
<1> SUFFICES ASSUME NEW d \in first', d # c
             PROVE  Decided(d)'
  BY <1>3 DEF AllDecided
<1>4. d \in Client /\ Decided(d)
  BY <1>1, <1>2 DEF TypeOK, AllDecided
<1> QED
  BY <1>2, <1>3, <1>4, StaysDecided

LEMMA ParsePacketDecides ==
  ASSUME Inv, AllDecided, NEW c \in Client, ParsePacket(c)
  PROVE  AllDecided'
<1>1. TypeOK /\ Queue(tasks) /\ tasks \in Seq(TaskSet) /\ pending[c] \in SUBSET {"read", "write"}
  BY DEF Inv, TypeOK, Queue
<1>2. first' = first /\ accepts' = accepts /\ UNCHANGED eventConnect
  BY DEF ParsePacket
<1> DEFINE packet == Task("packet", c, net.reads)
           leaves == Task("logout", c, Nobody)
<1>3. packet \in TaskSet /\ leaves \in TaskSet
  BY <1>1 DEF Task, TaskSet, TypeOK
<1>4. \/ tasks' = Append(tasks, packet) /\ UNCHANGED connVars
      \/ tasks' = tasks \o <<packet, leaves>> /\ UNCHANGED connVars
      \/ Close(c, FALSE, pending[c], tasks)
      \/ UNCHANGED <<connVars, tasks>>
  BY DEF ParsePacket
<1> HIDE DEF packet, leaves
<1>5. /\ Queued(tasks) \subseteq Queued(tasks')
      /\ \A d \in Client : state[d] = "disconnected" => state'[d] = "disconnected"
  <2>1. CASE tasks' = Append(tasks, packet) /\ UNCHANGED connVars
    BY <1>1, <1>3, <2>1, AppendTask DEF connVars
  <2>2. CASE tasks' = tasks \o <<packet, leaves>> /\ UNCHANGED connVars
    <3>1. tasks \o <<packet, leaves>> = Append(Append(tasks, packet), leaves)
      BY <1>1, <1>3
    <3>2. Append(tasks, packet) \in Seq(TaskSet)
      BY <1>1, <1>3
    <3>3. /\ Queued(Append(tasks, packet)) = Queued(tasks) \cup {packet}
          /\ Queued(Append(Append(tasks, packet), leaves)) = Queued(Append(tasks, packet)) \cup {leaves}
      BY <1>1, <1>3, <3>2, AppendTask
    <3> QED
      BY <2>2, <3>1, <3>3 DEF connVars
  <2>3. CASE Close(c, FALSE, pending[c], tasks)
    BY <1>1, <2>3, CloseStep DEF ConnStep
  <2>4. CASE UNCHANGED <<connVars, tasks>>
    BY <2>4 DEF connVars
  <2> QED
    BY <1>4, <2>1, <2>2, <2>3, <2>4
<1> QED
  BY <1>2, <1>5, NothingTaken

(* The timer of a connect() becomes its task. *)
LEMMA ConnectDueDecides ==
  ASSUME Inv, AllDecided, NEW c \in Client, ConnectDue(c)
  PROVE  AllDecided'
<1>1. TypeOK /\ tasks \in Seq(TaskSet)
  BY DEF Inv, Queue
<1> DEFINE t == Task("connect", c, eventConnect[c])
<1>2. /\ tasks' = <<t>> \o tasks
      /\ eventConnect' = [eventConnect EXCEPT ![c] = Nobody]
      /\ UNCHANGED <<connVars, first, accepts>>
  BY DEF ConnectDue
<1>3. t \in TaskSet /\ Enters(t) /\ t.client = c
  BY <1>1 DEF Task, TaskSet, TypeOK, Enters
<1> HIDE DEF t
<1>4. Queued(tasks') = Queued(tasks) \cup {t}
  BY <1>1, <1>2, <1>3, PushTask
<1>5. Decided(c)'
  BY <1>3, <1>4 DEF Decided, Waiting
<1> SUFFICES ASSUME NEW d \in first, d # c
             PROVE  Decided(d)'
  BY <1>2, <1>5 DEF AllDecided
<1>6. d \in Client /\ Decided(d) /\ eventConnect'[d] = eventConnect[d]
  BY <1>1, <1>2 DEF TypeOK, AllDecided
<1> QED
  BY <1>2, <1>4, <1>6, StaysDecided DEF connVars

(* connect(), as a task or called by login(): the client is refused, gone, or *)
(* let in.                                                                     *)
LEMMA ConnectDecides ==
  ASSUME Inv, NEW c \in Client, NEW o \in Client, Queue(Tail(tasks)), Connect(c, o),
         UNCHANGED eventConnect
  PROVE  /\ accepts \subseteq accepts' /\ Queued(Tail(tasks)) \subseteq Queued(tasks')
         /\ \A d \in Client : state[d] = "disconnected" => state'[d] = "disconnected"
         /\ Decided(c)'
<1>1. TypeOK
  BY DEF Inv
<1>2. CASE DisconnectClient(c, Tail(tasks)) /\ accepts' = accepts
  BY <1>1, <1>2, DisconnectStep DEF ConnStep, Decided
<1>3. CASE Expired(c) /\ tasks' = Tail(tasks) /\ UNCHANGED <<connVars, accepts>>
  BY <1>3 DEF Expired, Decided, connVars
<1>4. CASE TakeOver(c, o)
  BY <1>4 DEF TakeOver, Decided, connVars
<1> QED
  BY <1>2, <1>3, <1>4 DEF Connect

LEMMA LoginDecides ==
  ASSUME Inv, AllDecided, NEW c \in Client, Login(c)
  PROVE  AllDecided'
<1>1. /\ TypeOK /\ Run("login", c, Nobody) /\ first' = first
      /\ Queue(Tail(tasks))
  BY TaskTaken DEF Inv, Login
<1>2. CASE (LoginRefused(c) \/ LoginPlaced(c) \/ LoginKicked(c)) /\ UNCHANGED eventConnect
  <2>1. /\ accepts \subseteq accepts' /\ Queued(Tail(tasks)) \subseteq Queued(tasks')
        /\ \A d \in Client : state[d] = "disconnected" => state'[d] = "disconnected"
        /\ Decided(c)'
    <3>1. CASE LoginRefused(c)
      BY <1>1, <3>1, DisconnectStep DEF LoginRefused, ConnStep, Decided
    <3>2. CASE LoginPlaced(c)
      BY <3>2 DEF LoginPlaced, Decided, connVars
    <3>3. CASE LoginKicked(c)
      BY <1>1, <3>3, DisconnectStep DEF LoginKicked, ConnStep, Decided
    <3> QED
      BY <1>2, <3>1, <3>2, <3>3
  <2> QED
    BY <1>1, <1>2, <2>1, HeadTaken
<1>3. ASSUME NEW o \in Client, LoginReplaces(c, o)
      PROVE  AllDecided'
  <2>1. /\ client[o] \in Client
        /\ Disconnect(client[o], Tail(tasks))
        /\ eventConnect' = [eventConnect EXCEPT ![c] = o]
        /\ accepts' = accepts
    BY <1>1, <1>3 DEF LoginReplaces, TypeOK
  <2>2. ConnStep(Tail(tasks)) /\ Queued(Tail(tasks)) \subseteq Queued(tasks')
    BY <1>1, <2>1, DisconnectStep
  <2>3. /\ eventConnect'[c] # Nobody
        /\ \A d \in Client : eventConnect[d] # Nobody => eventConnect'[d] # Nobody
    BY <1>1, <2>1, SessionAssumption DEF TypeOK
  <2> QED
    BY <1>1, <2>1, <2>2, <2>3, HeadTaken DEF ConnStep, Decided
<1>4. ASSUME NEW o \in Client, LoginResumes(c, o)
      PROVE  AllDecided'
  <2>1. Connect(c, o) /\ UNCHANGED eventConnect
    BY <1>4 DEF LoginResumes
  <2>2. /\ accepts \subseteq accepts' /\ Queued(Tail(tasks)) \subseteq Queued(tasks')
        /\ \A d \in Client : state[d] = "disconnected" => state'[d] = "disconnected"
        /\ Decided(c)'
    BY <1>1, <2>1, ConnectDecides
  <2> QED
    BY <1>1, <2>1, <2>2, HeadTaken
<1>5. online \subseteq Client
  BY <1>1 DEF TypeOK
<1> QED
  BY <1>2, <1>3, <1>4, <1>5 DEF Login, Found

(* A task of another kind, or a kick: connections are closed at most. *)
LEMMA OthersDecide ==
  ASSUME Inv, AllDecided, NEW c \in Client,
         Release(c) \/ PacketTask(c) \/ Logout(c) \/ Kick(c) \/ Death(c) \/ Cleanup(c)
  PROVE  AllDecided'
<1>1. TypeOK /\ Queue(tasks)
  BY DEF Inv
<1>2. first' = first /\ accepts' = accepts /\ UNCHANGED eventConnect
  BY DEF Release, PacketTask, Logout, Kick, Death, Cleanup
<1>3. CASE Release(c)
  BY <1>2, <1>3, HeadTaken DEF Release, connVars
<1>4. CASE PacketTask(c)
  BY <1>2, <1>4, HeadTaken DEF PacketTask, connVars
<1>5. CASE Logout(c)
  <2>1. Run("logout", c, Nobody)
    BY <1>5 DEF Logout
  <2>2. Queue(Tail(tasks))
    BY <2>1, TaskTaken
  <2>3. Disconnect(c, Tail(tasks)) \/ (tasks' = Tail(tasks) /\ UNCHANGED connVars)
    BY <1>5 DEF Logout, Leave
  <2>4. ConnStep(Tail(tasks)) /\ Queued(Tail(tasks)) \subseteq Queued(tasks')
    BY <1>1, <2>2, <2>3, DisconnectStep
  <2> QED
    BY <1>2, <2>1, <2>4, HeadTaken DEF ConnStep
<1>6. CASE Kick(c)
  <2>1. \/ UNCHANGED <<connVars, tasks>>
        \/ client[c] # Nobody /\ Disconnect(client[c], tasks)
    BY <1>6 DEF Kick, Leave
  <2>2. CASE UNCHANGED <<connVars, tasks>>
    BY <1>2, <2>2, NothingTaken DEF connVars
  <2>3. CASE client[c] # Nobody /\ Disconnect(client[c], tasks)
    <3>1. client[c] \in Client
      BY <1>1, <2>3 DEF TypeOK
    <3>2. ConnStep(tasks) /\ Queued(tasks) \subseteq Queued(tasks')
      BY <1>1, <2>3, <3>1, DisconnectStep
    <3> QED
      BY <1>2, <3>2, NothingTaken DEF ConnStep
  <2> QED
    BY <2>1, <2>2, <2>3
<1>7. CASE Death(c) \/ Cleanup(c)
  BY <1>2, <1>7, NothingTaken DEF Death, Cleanup, connVars
<1> QED
  BY <1>3, <1>4, <1>5, <1>6, <1>7

(* No client is forgotten between its first message, login() and a connect()   *)
(* that comes later, whatever closes, kicks or replaces it meanwhile            *)
(* (protocolgame.cpp:76-241, 333-440).                                          *)
THEOREM EveryLoginIsDecided == Spec => []LoginIsDecided
<1>1. Init => AllDecided
  BY DEF Init, AllDecided
<1>2. Inv /\ AllDecided /\ [Next]_vars => AllDecided'
  <2> SUFFICES ASSUME Inv, AllDecided, [Next]_vars
               PROVE  AllDecided'
    OBVIOUS
  <2>1. CASE UNCHANGED vars
    BY <2>1 DEF vars, AllDecided, Decided, Waiting
  <2>2. ASSUME NEW c \in Client, Login(c)
        PROVE  AllDecided'
    BY <2>2, LoginDecides
  <2>3. ASSUME NEW c \in Client, ConnectTask(c)
        PROVE  AllDecided'
    <3>1. PICK o \in Client : Run("connect", c, o) /\ Connect(c, o)
      BY <2>3 DEF ConnectTask
    <3>2. first' = first /\ UNCHANGED eventConnect /\ Queue(Tail(tasks))
      BY <2>3, <3>1, TaskTaken DEF ConnectTask
    <3>3. /\ accepts \subseteq accepts' /\ Queued(Tail(tasks)) \subseteq Queued(tasks')
          /\ \A d \in Client : state[d] = "disconnected" => state'[d] = "disconnected"
          /\ Decided(c)'
      BY <3>1, <3>2, ConnectDecides
    <3> QED
      BY <3>1, <3>2, <3>3, HeadTaken
  <2>4. ASSUME NEW c \in Client,
               Release(c) \/ PacketTask(c) \/ Logout(c) \/ Kick(c) \/ Death(c) \/ Cleanup(c)
        PROVE  AllDecided'
    BY <2>4, OthersDecide
  <2>5. ASSUME NEW c \in Client,
               \/ Accept(c) \/ ReadNothing(c) \/ Written(c) \/ HandlerEnds(c) \/ Send(c)
               \/ Timeout(c) \/ TooManyPackets(c) \/ \E op \in {"read", "write"} : Fail(c, op)
        PROVE  AllDecided'
    BY <2>5, HandlersDecide
  <2>6. ASSUME NEW c \in Client, ReadFirst(c) \/ ParsePacket(c) \/ ConnectDue(c)
        PROVE  AllDecided'
    BY <2>6, ReadFirstDecides, ParsePacketDecides, ConnectDueDecides
  <2>7. ASSUME NEW c \in Client, ReadPacket(c)
        PROVE  AllDecided'
    BY <2>7 DEF ReadPacket, connVars, AllDecided, Decided, Waiting
  <2> QED
    BY <2>1, <2>2, <2>3, <2>4, <2>5, <2>6, <2>7 DEF Next, Dispatch, Handle
<1>3. AllDecided => LoginIsDecided
  BY DEF AllDecided, Decided, Waiting, Queued, Enters, LoginIsDecided
<1> QED
  BY <1>1, <1>2, <1>3, InvHolds, PTL DEF Spec

(***************************************************************************)
(* Who keeps a client that is gone.                                        *)
(***************************************************************************)
ToBeReleased(c) == ReleaseTask(c) \in Queued(tasks)

(* The login() to come of a closed connection has that one's release() after it. *)
ClosedAreReleased ==
  \A t \in Queued(tasks) :
    t.kind = "login" /\ state[t.client] = "disconnected" => ToBeReleased(t.client)

(* With q left of the list, connections are closed, each with its release(). *)
ClosesOnly(q) ==
  /\ \A d \in Client : state'[d] = "disconnected" => state[d] = "disconnected" \/ ToBeReleased(d)'
  /\ Queued(q) \subseteq Queued(tasks')
  /\ \A t \in Queued(tasks') : t \in Queued(q) \/ t.kind = "release"

(* A connection closes with a release(), which leaves the list when it runs; a *)
(* login() is queued for an open one.                                          *)
Orderly ==
  /\ \A d \in Client :
       /\ state'[d] = "disconnected" => state[d] = "disconnected" \/ ToBeReleased(d)'
       /\ ToBeReleased(d) => ToBeReleased(d)' \/ Release(d)
  /\ \A t \in Queued(tasks') :
       t.kind = "login" => t \in Queued(tasks) \/ state'[t.client] # "disconnected"

LEMMA CloseCloses ==
  ASSUME TypeOK, NEW c \in Client, NEW force, NEW ops, NEW q, Queue(q), Close(c, force, ops, q)
  PROVE  ClosesOnly(q)
<1> DEFINE r == ReleaseTask(c)
<1>1. r \in TaskSet /\ r.kind = "release"
  BY DEF ReleaseTask, Task, TaskSet
<1>2. tasks' = Append(q, r) /\ state' = [state EXCEPT ![c] = "disconnected"]
  BY DEF Close
<1> HIDE DEF r
<1>3. Queued(tasks') = Queued(q) \cup {r}
  BY <1>1, <1>2, AppendTask DEF Queue
<1>4. ToBeReleased(c)'
  BY <1>3 DEF ToBeReleased, ReleaseTask, Task, r
<1>5. \A d \in Client : d # c => state'[d] = state[d]
  BY <1>2 DEF TypeOK
<1> QED
  BY <1>1, <1>3, <1>4, <1>5 DEF ClosesOnly

LEMMA DisconnectCloses ==
  ASSUME TypeOK, NEW c \in Client, NEW q, Queue(q),
         Disconnect(c, q) \/ DisconnectClient(c, q) \/ (tasks' = q /\ UNCHANGED connVars)
  PROVE  ClosesOnly(q)
<1>1. CASE tasks' = q /\ UNCHANGED connVars
  BY <1>1 DEF ClosesOnly, connVars
<1>2. CASE \E force, ops : Close(c, force, ops, q)
  BY <1>2, CloseCloses
<1> QED
  BY <1>1, <1>2 DEF Disconnect, DisconnectClient

LEMMA ClosingIsOrderly ==
  ASSUME ClosesOnly(tasks)
  PROVE  Orderly
BY DEF ClosesOnly, Orderly, ToBeReleased

LEMMA TaskIsOrderly ==
  ASSUME Inv, NEW kind, NEW c \in Client, NEW o, Run(kind, c, o), ClosesOnly(Tail(tasks)),
         kind = "release" => Release(c)
  PROVE  Orderly
<1>1. tasks \in Seq(TaskSet) /\ tasks # <<>>
  BY DEF Inv, Queue, Run
<1>2. Queued(tasks) = {Head(tasks)} \cup Queued(Tail(tasks))
  BY <1>1, PopTask
<1>3. Head(tasks).kind = kind /\ Head(tasks).client = c
  BY DEF Run, Task
<1>4. ASSUME NEW d \in Client, ToBeReleased(d)
      PROVE  ToBeReleased(d)' \/ Release(d)
  <2>1. ReleaseTask(d).kind = "release" /\ ReleaseTask(d).client = d
    BY DEF ReleaseTask, Task
  <2>2. CASE ReleaseTask(d) = Head(tasks)
    BY <1>3, <2>1, <2>2
  <2>3. CASE ReleaseTask(d) \in Queued(Tail(tasks))
    <3>1. ReleaseTask(d) \in Queued(tasks')
      BY <2>3 DEF ClosesOnly
    <3> QED
      BY <3>1 DEF ToBeReleased, ReleaseTask, Task
  <2> QED
    BY <1>2, <1>4, <2>2, <2>3 DEF ToBeReleased
<1>5. \A t \in Queued(tasks') : t.kind = "login" => t \in Queued(tasks)
  BY <1>2 DEF ClosesOnly
<1> QED
  BY <1>4, <1>5 DEF ClosesOnly, Orderly

(* What the network thread and the scheduler do. *)
LEMMA HandlersAreOrderly ==
  ASSUME Inv, NEW c \in Client,
         \/ Accept(c) \/ Handle(c) \/ ReadPacket(c) \/ Timeout(c) \/ TooManyPackets(c)
         \/ ConnectDue(c) \/ Send(c) \/ \E op \in {"read", "write"} : Fail(c, op)
  PROVE  Orderly
<1>1. TypeOK /\ Queue(tasks) /\ tasks \in Seq(TaskSet)
  BY DEF Inv, Queue
<1>2. CASE \E force, ops : Close(c, force, ops, tasks)
  BY <1>1, <1>2, CloseCloses, ClosingIsOrderly
<1>3. CASE /\ tasks' = tasks
           /\ \A d \in Client : state'[d] = "disconnected" => state[d] = "disconnected"
  BY <1>3 DEF Orderly, ToBeReleased
<1>4. ASSUME NEW t \in TaskSet, Queued(tasks') = Queued(tasks) \cup {t}, UNCHANGED connVars,
             t.kind = "login" => state[t.client] # "disconnected"
      PROVE  Orderly
  BY <1>4 DEF Orderly, ToBeReleased, connVars
<1>5. CASE Accept(c) \/ ReadNothing(c) \/ Written(c) \/ HandlerEnds(c) \/ Send(c) \/ ReadPacket(c)
  <2>1. /\ tasks' = tasks
        /\ \A d \in Client : state'[d] = "disconnected" => state[d] = "disconnected"
    BY <1>1, <1>5 DEF Accept, ReadNothing, Written, HandlerEnds, Send, ReadPacket, connVars, TypeOK
  <2> QED
    BY <1>3, <2>1
<1>6. CASE Timeout(c) \/ TooManyPackets(c) \/ \E op \in {"read", "write"} : Fail(c, op)
  BY <1>2, <1>6 DEF Timeout, TooManyPackets, Fail
<1>7. CASE ReadFirst(c)
  <2>1. CASE tasks' = Append(tasks, Task("login", c, Nobody)) /\ UNCHANGED connVars
    <3> DEFINE t == Task("login", c, Nobody)
    <3>1. t \in TaskSet /\ t.client = c /\ state[c] # "disconnected"
      BY <1>7 DEF ReadFirst, Task, TaskSet
    <3>2. Queued(tasks') = Queued(tasks) \cup {t}
      BY <1>1, <2>1, <3>1, AppendTask
    <3> HIDE DEF t
    <3> QED
      BY <1>4, <2>1, <3>1, <3>2
  <2> QED
    BY <1>2, <1>7, <2>1 DEF ReadFirst
<1>8. CASE ParsePacket(c)
  <2> DEFINE packet == Task("packet", c, net.reads)
             leaves == Task("logout", c, Nobody)
  <2>1. /\ packet \in TaskSet /\ packet.kind = "packet"
        /\ leaves \in TaskSet /\ leaves.kind = "logout"
    BY <1>1 DEF Task, TaskSet, TypeOK
  <2>2. \/ tasks' = Append(tasks, packet) /\ UNCHANGED connVars
        \/ tasks' = tasks \o <<packet, leaves>> /\ UNCHANGED connVars
        \/ Close(c, FALSE, pending[c], tasks)
        \/ UNCHANGED <<connVars, tasks>>
    BY <1>8 DEF ParsePacket
  <2> HIDE DEF packet, leaves
  <2>3. CASE tasks' = Append(tasks, packet) /\ UNCHANGED connVars
    <3>1. Queued(tasks') = Queued(tasks) \cup {packet}
      BY <1>1, <2>1, <2>3, AppendTask
    <3> QED
      BY <1>4, <2>1, <2>3, <3>1
  <2>4. CASE tasks' = tasks \o <<packet, leaves>> /\ UNCHANGED connVars
    <3>1. tasks \o <<packet, leaves>> = Append(Append(tasks, packet), leaves)
      BY <1>1, <2>1
    <3>2. Append(tasks, packet) \in Seq(TaskSet)
      BY <1>1, <2>1
    <3>3. /\ Queued(Append(tasks, packet)) = Queued(tasks) \cup {packet}
          /\ Queued(Append(Append(tasks, packet), leaves)) = Queued(Append(tasks, packet)) \cup {leaves}
      BY <1>1, <2>1, <3>2, AppendTask
    <3>4. Queued(tasks') = Queued(tasks) \cup {packet, leaves}
      BY <2>4, <3>1, <3>3
    <3> QED
      BY <2>1, <2>4, <3>4 DEF Orderly, ToBeReleased, connVars
  <2>5. CASE UNCHANGED <<connVars, tasks>>
    BY <1>3, <2>5 DEF connVars
  <2> QED
    BY <1>2, <2>2, <2>3, <2>4, <2>5
<1>9. CASE ConnectDue(c)
  <2> DEFINE t == Task("connect", c, eventConnect[c])
  <2>1. t \in TaskSet /\ t.kind = "connect"
    BY <1>1 DEF Task, TaskSet, TypeOK
  <2>2. tasks' = <<t>> \o tasks /\ UNCHANGED connVars
    BY <1>9 DEF ConnectDue
  <2> HIDE DEF t
  <2>3. Queued(tasks') = Queued(tasks) \cup {t}
    BY <1>1, <2>1, <2>2, PushTask
  <2> QED
    BY <1>4, <2>1, <2>2, <2>3
<1> QED
  BY <1>5, <1>6, <1>7, <1>8, <1>9 DEF Handle

(* What the dispatcher does. *)
LEMMA TasksAreOrderly ==
  ASSUME Inv, NEW c \in Client,
         \/ Login(c) \/ ConnectTask(c) \/ Release(c) \/ PacketTask(c) \/ Logout(c)
         \/ Kick(c) \/ Death(c) \/ Cleanup(c)
  PROVE  Orderly
<1>1. TypeOK /\ Queue(tasks)
  BY DEF Inv
<1>2. ASSUME NEW kind, NEW o, Run(kind, c, o), kind = "release" => Release(c), NEW d \in Client,
             \/ Disconnect(d, Tail(tasks)) \/ DisconnectClient(d, Tail(tasks))
             \/ tasks' = Tail(tasks) /\ UNCHANGED connVars
      PROVE  Orderly
  <2>1. Queue(Tail(tasks))
    BY <1>2, TaskTaken
  <2>2. ClosesOnly(Tail(tasks))
    BY <1>1, <1>2, <2>1, DisconnectCloses
  <2> QED
    BY <1>2, <2>2, TaskIsOrderly
<1>3. CASE Login(c)
  <2>1. Run("login", c, Nobody) /\ online \subseteq Client
    BY <1>1, <1>3 DEF Login, TypeOK
  <2>2. CASE LoginRefused(c) \/ LoginPlaced(c) \/ LoginKicked(c)
    BY <1>2, <2>1, <2>2 DEF LoginRefused, LoginPlaced, LoginKicked
  <2>3. ASSUME NEW o \in Client, LoginReplaces(c, o)
        PROVE  Orderly
    <3>1. client[o] \in Client /\ Disconnect(client[o], Tail(tasks))
      BY <1>1, <2>3 DEF LoginReplaces, TypeOK
    <3> QED
      BY <1>2, <2>1, <3>1
  <2>4. ASSUME NEW o \in Client, LoginResumes(c, o)
        PROVE  Orderly
    BY <1>2, <2>1, <2>4 DEF LoginResumes, Connect, TakeOver
  <2> QED
    BY <1>3, <2>1, <2>2, <2>3, <2>4 DEF Login, Found
<1>4. CASE ConnectTask(c)
  <2>1. PICK o \in Client : Run("connect", c, o) /\ Connect(c, o)
    BY <1>4 DEF ConnectTask
  <2> QED
    BY <1>2, <2>1 DEF Connect, TakeOver
<1>5. CASE Release(c)
  BY <1>2, <1>5 DEF Release
<1>6. CASE PacketTask(c)
  BY <1>2, <1>6 DEF PacketTask
<1>7. CASE Logout(c)
  BY <1>2, <1>7 DEF Logout, Leave
<1>8. CASE Kick(c)
  <2>1. \/ UNCHANGED <<connVars, tasks>>
        \/ client[c] # Nobody /\ Disconnect(client[c], tasks)
    BY <1>8 DEF Kick, Leave
  <2>2. CASE client[c] # Nobody /\ Disconnect(client[c], tasks)
    <3>1. client[c] \in Client
      BY <1>1, <2>2 DEF TypeOK
    <3> QED
      BY <1>1, <2>2, <3>1, DisconnectCloses, ClosingIsOrderly
  <2>3. CASE UNCHANGED <<connVars, tasks>>
    BY <2>3 DEF Orderly, ToBeReleased, connVars
  <2> QED
    BY <2>1, <2>2, <2>3
<1>9. CASE Death(c) \/ Cleanup(c)
  BY <1>9 DEF Death, Cleanup, Orderly, ToBeReleased, connVars
<1> QED
  BY <1>3, <1>4, <1>5, <1>6, <1>7, <1>8, <1>9

LEMMA StepsAreOrderly ==
  ASSUME Inv, [Next]_vars
  PROVE  Orderly
<1>1. CASE UNCHANGED vars
  BY <1>1 DEF vars, Orderly, ToBeReleased
<1> QED
  BY <1>1, HandlersAreOrderly, TasksAreOrderly DEF Next, Dispatch

LEMMA ClosedStayReleased ==
  ASSUME Inv, ClosedAreReleased, Orderly
  PROVE  ClosedAreReleased'
<1> SUFFICES ASSUME NEW t \in Queued(tasks'), t.kind = "login", state'[t.client] = "disconnected"
             PROVE  ToBeReleased(t.client)'
  BY DEF ClosedAreReleased
<1>1. t \in Queued(tasks)
  BY DEF Orderly
<1> DEFINE c == t.client
<1>2. c \in Client
  BY <1>1, QueueElements DEF Inv, Queue, Queued, TaskSet
<1>3. state[c] = "disconnected" => ToBeReleased(c)
  BY <1>1 DEF ClosedAreReleased
<1>4. ~Release(c)
  <2> SUFFICES ASSUME Release(c)
               PROVE  FALSE
    OBVIOUS
  <2>1. Run("release", c, Nobody) /\ tasks' = Tail(tasks)
    BY DEF Release
  <2>2. Precedes(t) /\ t \in Queued(Tail(tasks))
    BY <2>1 DEF Precedes
  <2> QED
    BY <1>2, <2>1, <2>2, TaskTaken
<1> QED
  BY <1>2, <1>3, <1>4 DEF Orderly

LEMMA ClosedAreAlwaysReleased == Spec => [](Inv /\ ClosedAreReleased)
<1>1. Init => ClosedAreReleased
  BY DEF Init, ClosedAreReleased, Queued
<1>2. Inv /\ ClosedAreReleased /\ [Next]_vars => ClosedAreReleased'
  BY StepsAreOrderly, ClosedStayReleased
<1> QED
  BY <1>1, <1>2, InvHolds, PTL DEF Spec

(* A Player gets a client from that client's login() or connect(). *)
LEMMA ClientsComeByTasks ==
  ASSUME Inv, [Next]_vars, NEW o \in Client, NEW c \in Client, client'[o] = c, client[o] # c
  PROVE  Run("login", c, Nobody) \/ (ConnectTask(c) /\ ~Expired(c))
<1> USE SessionAssumption
<1>1. client \in [Client -> Client \cup {Nobody}] /\ online \subseteq Client
      /\ player \in [Client -> Client \cup {Nobody}]
  BY DEF Inv, TypeOK
<1>2. client' # client
  OBVIOUS
<1>3. ASSUME NEW d \in Client, NEW p \in Client, TakeOver(d, p)
      PROVE  d = c
  BY <1>1, <1>3 DEF TakeOver
<1>4. ASSUME NEW d \in Client, Login(d)
      PROVE  d = c /\ Run("login", c, Nobody)
  <2>1. CASE LoginRefused(d) \/ LoginPlaced(d) \/ LoginKicked(d)
    <3>1. client' = [client EXCEPT ![d] = d]
      BY <2>1 DEF LoginRefused, LoginPlaced, LoginKicked, NewPlayer
    <3> QED
      BY <1>1, <1>4, <3>1 DEF Login
  <2>2. ASSUME NEW p \in Client, LoginReplaces(d, p)
        PROVE  FALSE
    BY <1>2, <2>2 DEF LoginReplaces, playerVars
  <2>3. ASSUME NEW p \in Client, LoginResumes(d, p)
        PROVE  TakeOver(d, p)
    BY <1>2, <2>3 DEF LoginResumes, Connect, playerVars
  <2> QED
    BY <1>1, <1>3, <1>4, <2>1, <2>2, <2>3 DEF Login, Found
<1>5. ASSUME NEW d \in Client, ConnectTask(d)
      PROVE  d = c /\ ~Expired(c)
  <2>1. PICK p \in Client : Connect(d, p)
    BY <1>5 DEF ConnectTask
  <2>2. TakeOver(d, p) /\ ~Expired(d)
    BY <1>2, <2>1 DEF Connect, playerVars
  <2> QED
    BY <1>3, <2>2
<1>6. ASSUME NEW d \in Client, Release(d)
      PROVE  FALSE
  <2>1. client' = [client EXCEPT ![player[d]] = Nobody]
    BY <1>2, <1>6 DEF Release
  <2> QED
    BY <1>1, <2>1
<1>7. ASSUME NEW d \in Client,
             \/ PacketTask(d) \/ Logout(d) \/ Kick(d) \/ Death(d) \/ Cleanup(d)
             \/ Accept(d) \/ Handle(d) \/ ReadPacket(d) \/ Timeout(d) \/ TooManyPackets(d)
             \/ ConnectDue(d) \/ Send(d) \/ \E op \in {"read", "write"} : Fail(d, op)
      PROVE  FALSE
  BY <1>2, <1>7 DEF PacketTask, Logout, Kick, Death, Cleanup, Accept, Handle, ReadNothing, ReadFirst,
                    ParsePacket, Written, HandlerEnds, ReadPacket, Timeout, TooManyPackets,
                    ConnectDue, Send, Fail, playerVars
<1>8. ~ UNCHANGED vars
  BY <1>2 DEF vars
<1> QED
  BY <1>4, <1>5, <1>6, <1>7, <1>8 DEF Next, Dispatch

(* No disconnection, kick, log-out, failed login or release() leaves a Player     *)
(* with a closed connection that nothing will take from it; only a connect() that *)
(* comes for one that is closed, but not yet destroyed, does (protocolgame.cpp:   *)
(* 213-242, which means to prevent it).                                           *)
THEOREM OnlyLateConnectsLeak == Spec => OnlyALateConnectLeaks
<1>1. ASSUME Inv, ClosedAreReleased, [Next]_vars, NEW o \in Client, NEW c \in Client,
             Leaked(o, c)', ~Leaked(o, c)
      PROVE  ConnectTask(c) /\ state[c] = "disconnected" /\ ~Expired(c)
  <2>1. Orderly
    BY <1>1, StepsAreOrderly
  <2>2. client'[o] = c /\ state'[c] = "disconnected" /\ ~ToBeReleased(c)'
    <3>1. \A i \in DOMAIN tasks' : tasks'[i] # ReleaseTask(c)
      BY <1>1 DEF Leaked, ReleaseTask, Task
    <3> QED
      BY <1>1, <3>1 DEF Leaked, ToBeReleased, Queued, ReleaseTask, Task
  <2>3. ~(client[o] = c /\ state[c] = "disconnected" /\ ~ToBeReleased(c))
    BY <1>1 DEF Leaked, ToBeReleased, Queued
  <2>4. state[c] = "disconnected"
    BY <2>1, <2>2 DEF Orderly
  <2>5. ASSUME Release(c)
        PROVE  FALSE
    <3>1. Pairs /\ client \in [Client -> Client \cup {Nobody}] /\ c # Nobody /\ o # Nobody
      BY <1>1, SessionAssumption DEF Inv, TypeOK
    <3>2. CASE Controls(c)
      <4>1. client' = [client EXCEPT ![player[c]] = Nobody]
        BY <2>5, <3>2 DEF Release
      <4>2. client[o] = c
        BY <2>2, <3>1, <4>1
      <4>3. player[c] = o
        BY <3>1, <4>2 DEF Pairs
      <4> QED
        BY <2>2, <3>1, <4>1, <4>3
    <3>3. CASE ~Controls(c)
      <4>1. client' = client
        BY <2>5, <3>3 DEF Release
      <4> QED
        BY <2>2, <3>1, <3>3, <4>1 DEF Pairs, Controls
    <3> QED
      BY <3>2, <3>3
  <2>6. ~ToBeReleased(c)
    BY <2>1, <2>2, <2>5 DEF Orderly
  <2>7. client[o] # c
    BY <2>3, <2>4, <2>6
  <2>8. Run("login", c, Nobody) \/ (ConnectTask(c) /\ ~Expired(c))
    BY <1>1, <2>2, <2>7, ClientsComeByTasks
  <2>9. ~Run("login", c, Nobody)
    <3> SUFFICES ASSUME Run("login", c, Nobody)
                 PROVE  FALSE
      OBVIOUS
    <3>1. tasks \in Seq(TaskSet) /\ tasks # <<>>
      BY <1>1 DEF Inv, Queue, Run
    <3>2. Head(tasks) \in Queued(tasks)
      BY <3>1, PopTask
    <3>3. Head(tasks).kind = "login" /\ Head(tasks).client = c
      BY DEF Run, Task
    <3> QED
      BY <1>1, <2>4, <2>6, <3>2, <3>3 DEF ClosedAreReleased
  <2> QED
    BY <2>4, <2>8, <2>9
<1>2. Inv /\ ClosedAreReleased /\ [Next]_vars =>
        [ \A o, c \in Client : Leaked(o, c)' /\ ~Leaked(o, c) =>
            ConnectTask(c) /\ state[c] = "disconnected" /\ ~Expired(c) ]_vars
  BY <1>1
<1> QED
  BY <1>2, ClosedAreAlwaysReleased, PTL DEF Spec, OnlyALateConnectLeaks

-----------------------------------------------------------------------------
(***************************************************************************)
(* The waiting list, which ProtocolGame::login asks before it lets a client *)
(* in.  A list is thought of as an order of players, Ahead; entries are     *)
(* distinct when nobody is ahead of himself.  Cleaning, erasing, renewing   *)
(* and the passing of time put nobody ahead of whom it was not ahead of     *)
(* (KeepsOrder), one list after the other as well (TwoKeepOrder), and a     *)
(* client that joins comes anew.                                            *)
(***************************************************************************)
EntrySet == [playerGUID : Guid, left : -1 .. 27]

(* The players with an entry in a list, and who has one before another's. *)
Listed(list) == {list[i].playerGUID : i \in DOMAIN list}

Ahead(list, p, q) ==
  \E i, j \in DOMAIN list : i < j /\ list[i].playerGUID = p /\ list[j].playerGUID = q

Distinct(list) == \A p \in Guid : ~Ahead(list, p, p)

(* Nobody in r is ahead of somebody it was not ahead of in s, p apart. *)
KeepsOrder(r, s) ==
  Listed(r) \subseteq Listed(s) /\ \A x, y \in Guid : Ahead(r, x, y) => Ahead(s, x, y)

KeepsOrderBut(r, s, p) ==
  \A x, y \in Guid \ {p} : Ahead(r, x, y) => Ahead(s, x, y)

-----------------------------------------------------------------------------
(* The entries that stay have different ranks, from 1 to their number, in the *)
(* order of their places.                                                     *)
LEMMA RanksAreOrdered ==
  ASSUME NEW list \in Seq(EntrySet)
  PROVE  /\ Cardinality(Live(list)) \in Nat
         /\ \A i \in Live(list) : Rank(list, i) \in 1 .. Cardinality(Live(list))
         /\ \A i, j \in Live(list) : i < j => Rank(list, i) < Rank(list, j)
         /\ \A k \in 1 .. Cardinality(Live(list)) : \E i \in Live(list) : Rank(list, i) = k
<1> DEFINE n == Cardinality(Live(list))
           upto(i) == {j \in Live(list) : j <= i}
<1>0. Live(list) \subseteq 1 .. Len(list) /\ Len(list) \in Nat
  BY LenProperties DEF Live
<1>1. IsFiniteSet(Live(list))
  <2>1. IsFiniteSet(1 .. Len(list))
    BY <1>0, FS_Interval
  <2> QED
    BY <1>0, <2>1, FS_Subset
<1>2. n \in Nat
  BY <1>1, FS_CardinalityType
<1>3. ASSUME NEW i \in Live(list)
      PROVE  Rank(list, i) \in 1 .. n
  <2>1. upto(i) \subseteq Live(list) /\ i \in upto(i)
    BY <1>0
  <2>2. IsFiniteSet(upto(i)) /\ Cardinality(upto(i)) <= n
    BY <2>1, <1>1, FS_Subset
  <2>3. Cardinality(upto(i)) \in Nat /\ Cardinality(upto(i)) # 0
    BY <2>1, <2>2, FS_CardinalityType, FS_EmptySet
  <2> QED
    BY <2>2, <2>3, <1>2 DEF Rank
<1>4. ASSUME NEW i \in Live(list), NEW j \in Live(list), i < j
      PROVE  Rank(list, i) < Rank(list, j)
  <2>1. upto(i) \subseteq upto(j) /\ j \in upto(j) /\ j \notin upto(i)
    BY <1>0, <1>4
  <2>2. IsFiniteSet(upto(j)) /\ upto(j) \subseteq Live(list)
    BY <1>1, FS_Subset
  <2>3. Cardinality(upto(i)) <= Cardinality(upto(j))
    BY <2>1, <2>2, FS_Subset
  <2>4. Cardinality(upto(i)) # Cardinality(upto(j))
    BY <2>1, <2>2, FS_Subset
  <2>5. Rank(list, i) \in Nat /\ Rank(list, j) \in Nat
    BY <1>3, <1>2
  <2> QED
    BY <2>3, <2>4, <2>5 DEF Rank
<1>5. ASSUME NEW k \in 1 .. n
      PROVE  \E i \in Live(list) : Rank(list, i) = k
  <2> DEFINE f == [i \in Live(list) |-> Rank(list, i)]
  <2>1. f \in [Live(list) -> 1 .. n]
    BY <1>3
  <2>2. \A i, j \in Live(list) : f[i] = f[j] => i = j
    <3> SUFFICES ASSUME NEW i \in Live(list), NEW j \in Live(list), i # j
                 PROVE  f[i] # f[j]
      OBVIOUS
    <3>1. i < j \/ j < i
      BY <1>0
    <3>2. f[i] = Rank(list, i) /\ f[j] = Rank(list, j) /\ f[i] \in Nat /\ f[j] \in Nat
      BY <1>3, <1>2
    <3> QED
      BY <3>1, <3>2, <1>4
  <2>3. f \in Injection(Live(list), 1 .. n)
    BY <2>1, <2>2 DEF Injection, IsInjective
  <2>4. IsFiniteSet(1 .. n) /\ Cardinality(1 .. n) = n
    BY <1>2, FS_Interval
  <2>5. f \in Surjection(Live(list), 1 .. n)
    BY <2>3, <2>4, FS_Injection
  <2> QED
    BY <2>5 DEF Surjection
<1> QED
  BY <1>2, <1>3, <1>4, <1>5

LEMMA CleanedByRank ==
  ASSUME NEW list \in Seq(EntrySet)
  PROVE  /\ CleanupList(list) \in Seq(EntrySet)
         /\ Len(CleanupList(list)) = Cardinality(Live(list))
         /\ \A i \in Live(list) : CleanupList(list)[Rank(list, i)] = list[i]
<1> DEFINE n == Cardinality(Live(list))
           at(k) == CHOOSE i \in Live(list) : Rank(list, i) = k
<1>0. Live(list) \subseteq DOMAIN list /\ DOMAIN list = 1 .. Len(list) /\ n \in Nat
  BY RanksAreOrdered, LenProperties DEF Live
<1>1. \A k \in 1 .. n : at(k) \in Live(list) /\ Rank(list, at(k)) = k
  BY RanksAreOrdered
<1>2. \A k \in 1 .. n : list[at(k)] \in EntrySet
  BY <1>0, <1>1, ElementOfSeq
<1>3. CleanupList(list) = [k \in 1 .. n |-> list[at(k)]]
  BY DEF CleanupList
<1>4. CleanupList(list) \in [1 .. n -> EntrySet]
  BY <1>2, <1>3
<1>5. CleanupList(list) \in Seq(EntrySet) /\ Len(CleanupList(list)) = n
  BY <1>0, <1>4, SeqDef, LenProperties
<1>6. ASSUME NEW i \in Live(list)
      PROVE  CleanupList(list)[Rank(list, i)] = list[i]
  <2>1. Rank(list, i) \in 1 .. n
    BY RanksAreOrdered
  <2> DEFINE j == at(Rank(list, i))
  <2>2. j \in Live(list) /\ Rank(list, j) = Rank(list, i)
    BY <1>1, <2>1
  <2>3. j = i
    BY <1>0, <2>1, <2>2, RanksAreOrdered
  <2> QED
    BY <1>3, <2>1, <2>3
<1> QED
  BY <1>5, <1>6

(* The two cleaned lists hold the live entries of the two lists, one after the *)
(* other: the entry at i is at Pos(a, b, i).                                   *)
Pos(a, b, i) ==
  IF i <= Len(a) THEN Rank(a, i) ELSE Cardinality(Live(a)) + Rank(b, i - Len(a))

LEMMA LivePlaces ==
  ASSUME NEW a \in Seq(EntrySet), NEW b \in Seq(EntrySet), NEW i \in Live(a \o b)
  PROVE  \/ i \in Live(a) /\ i <= Len(a) /\ (a \o b)[i] = a[i]
         \/ i > Len(a) /\ i - Len(a) \in Live(b) /\ (a \o b)[i] = b[i - Len(a)]
<1>1. i \in 1 .. Len(a) + Len(b) /\ (a \o b)[i].left # 0 /\ Len(a) \in Nat /\ Len(b) \in Nat
  BY ConcatProperties, LenProperties DEF Live
<1>2. CASE i <= Len(a)
  BY <1>1, <1>2, ConcatProperties, LenProperties DEF Live
<1>3. CASE i > Len(a)
  BY <1>1, <1>3, ConcatProperties, LenProperties DEF Live
<1> QED
  BY <1>1, <1>2, <1>3

LEMMA PlacesOfTheLive ==
  ASSUME NEW a \in Seq(EntrySet), NEW b \in Seq(EntrySet)
  PROVE  LET s == a \o b
             r == CleanupList(a) \o CleanupList(b)
         IN /\ r \in Seq(EntrySet)
            /\ \A i \in Live(s) : Pos(a, b, i) \in DOMAIN r /\ r[Pos(a, b, i)] = s[i]
            /\ \A i, j \in Live(s) : i < j => Pos(a, b, i) < Pos(a, b, j)
            /\ \A k \in DOMAIN r : \E i \in Live(s) : Pos(a, b, i) = k
<1> DEFINE s == a \o b
           r == CleanupList(a) \o CleanupList(b)
           m == Cardinality(Live(a))
           n == Cardinality(Live(b))
<1>1. /\ CleanupList(a) \in Seq(EntrySet) /\ Len(CleanupList(a)) = m /\ m \in Nat
      /\ CleanupList(b) \in Seq(EntrySet) /\ Len(CleanupList(b)) = n /\ n \in Nat
  BY CleanedByRank, RanksAreOrdered
<1>2. /\ r \in Seq(EntrySet) /\ DOMAIN r = 1 .. m + n
      /\ \A k \in 1 .. m : r[k] = CleanupList(a)[k]
      /\ \A k \in m + 1 .. m + n : r[k] = CleanupList(b)[k - m]
  <2>1. Len(r) = m + n
    BY <1>1, ConcatProperties
  <2>2. r \in Seq(EntrySet) /\ DOMAIN r = 1 .. Len(r)
    BY <1>1, ConcatProperties, LenProperties
  <2> QED
    BY <1>1, <2>1, <2>2, ConcatProperties
<1>3. /\ \A i \in Live(a) : Rank(a, i) \in 1 .. m
      /\ \A i \in Live(b) : Rank(b, i) \in 1 .. n
  BY RanksAreOrdered
<1>4. Live(s) \subseteq Nat /\ Live(a) \subseteq Nat /\ Live(b) \subseteq Nat /\ Len(a) \in Nat
  BY ConcatProperties, LenProperties DEF Live
<1>5. ASSUME NEW i \in Live(s)
      PROVE  Pos(a, b, i) \in DOMAIN r /\ r[Pos(a, b, i)] = s[i]
  <2>1. CASE i \in Live(a) /\ i <= Len(a) /\ s[i] = a[i]
    <3>1. Pos(a, b, i) = Rank(a, i) /\ Rank(a, i) \in 1 .. m
      BY <2>1, <1>3 DEF Pos
    <3>2. CleanupList(a)[Rank(a, i)] = a[i]
      BY <2>1, CleanedByRank
    <3> QED
      BY <3>1, <3>2, <2>1, <1>1, <1>2
  <2>2. CASE i > Len(a) /\ i - Len(a) \in Live(b) /\ s[i] = b[i - Len(a)]
    <3>1. Pos(a, b, i) = m + Rank(b, i - Len(a)) /\ Rank(b, i - Len(a)) \in 1 .. n
      BY <2>2, <1>3, <1>4 DEF Pos
    <3>2. CleanupList(b)[Rank(b, i - Len(a))] = b[i - Len(a)]
      BY <2>2, CleanedByRank
    <3>3. Pos(a, b, i) \in m + 1 .. m + n /\ Pos(a, b, i) - m = Rank(b, i - Len(a))
      BY <3>1, <1>1
    <3> QED
      BY <3>2, <3>3, <2>2, <1>1, <1>2
  <2> QED
    BY <2>1, <2>2, LivePlaces
<1>6. ASSUME NEW i \in Live(s), NEW j \in Live(s), i < j
      PROVE  Pos(a, b, i) < Pos(a, b, j)
  <2>1. \/ i \in Live(a) /\ i <= Len(a)
        \/ i > Len(a) /\ i - Len(a) \in Live(b)
    BY LivePlaces
  <2>2. \/ j \in Live(a) /\ j <= Len(a)
        \/ j > Len(a) /\ j - Len(a) \in Live(b)
    BY LivePlaces
  <2>3. CASE j <= Len(a)
    <3>1. i <= Len(a) /\ i \in Live(a) /\ j \in Live(a)
      BY <2>1, <2>2, <2>3, <1>4, <1>6
    <3> QED
      BY <3>1, <2>3, <1>6, RanksAreOrdered DEF Pos
  <2>4. CASE i <= Len(a) /\ j > Len(a)
    <3>1. i \in Live(a) /\ j - Len(a) \in Live(b)
      BY <2>1, <2>2, <2>4, <1>4
    <3>2. Pos(a, b, i) = Rank(a, i) /\ Pos(a, b, j) = m + Rank(b, j - Len(a))
      BY <2>4, <1>4 DEF Pos
    <3> QED
      BY <3>1, <3>2, <1>1, <1>3
  <2>5. CASE i > Len(a) /\ j > Len(a)
    <3>1. i - Len(a) \in Live(b) /\ j - Len(a) \in Live(b) /\ i - Len(a) < j - Len(a)
      BY <2>1, <2>2, <2>5, <1>4, <1>6
    <3>2. Rank(b, i - Len(a)) < Rank(b, j - Len(a))
      BY <3>1, RanksAreOrdered
    <3>3. Pos(a, b, i) = m + Rank(b, i - Len(a)) /\ Pos(a, b, j) = m + Rank(b, j - Len(a))
      BY <2>5, <1>4 DEF Pos
    <3> QED
      BY <3>1, <3>2, <3>3, <1>1, <1>3
  <2> QED
    BY <2>3, <2>4, <2>5, <1>4, <1>6
<1>7. ASSUME NEW k \in DOMAIN r
      PROVE  \E i \in Live(s) : Pos(a, b, i) = k
  <2>1. CASE k <= m
    <3>1. PICK i \in Live(a) : Rank(a, i) = k
      BY <2>1, <1>1, <1>2, RanksAreOrdered
    <3>2. i \in Live(s) /\ i <= Len(a)
      BY <3>1, ConcatProperties, LenProperties DEF Live
    <3> QED
      BY <3>1, <3>2 DEF Pos
  <2>2. CASE k > m
    <3>0. k - m \in 1 .. n
      BY <2>2, <1>1, <1>2
    <3>1. PICK i \in Live(b) : Rank(b, i) = k - m
      BY <3>0, RanksAreOrdered
    <3> DEFINE j == i + Len(a)
    <3>2. i \in 1 .. Len(b) /\ Len(b) \in Nat /\ b[i].left # 0
      BY LenProperties DEF Live
    <3>3. j \in 1 .. Len(a) + Len(b) /\ j > Len(a) /\ j - Len(a) = i
      BY <3>2, <1>4
    <3>4. s[j] = b[i] /\ DOMAIN s = 1 .. Len(a) + Len(b)
      <4>1. Len(s) = Len(a) + Len(b) /\ s \in Seq(EntrySet)
        BY ConcatProperties
      <4>2. s[j] = b[j - Len(a)]
        BY <3>3, ConcatProperties
      <4> QED
        BY <4>1, <4>2, <3>3, LenProperties
    <3>5. j \in Live(s)
      BY <3>2, <3>3, <3>4 DEF Live
    <3>6. Pos(a, b, j) = k
      BY <3>1, <3>3, <1>1, <1>2, <1>4 DEF Pos
    <3> QED
      BY <3>5, <3>6
  <2> QED
    BY <2>1, <2>2, <1>1, <1>2
<1> QED
  BY <1>2, <1>5, <1>6, <1>7

(* cleanupList lets nobody pass another, and drops nobody whose time is not up. *)
LEMMA CleaningKeepsOrder ==
  ASSUME NEW a \in Seq(EntrySet), NEW b \in Seq(EntrySet)
  PROVE  /\ KeepsOrder(CleanupList(a) \o CleanupList(b), a \o b)
         /\ \A i \in Live(a \o b) : (a \o b)[i].playerGUID \in Listed(CleanupList(a) \o CleanupList(b))
<1> DEFINE s == a \o b
           r == CleanupList(a) \o CleanupList(b)
<1>1. /\ \A i \in Live(s) : Pos(a, b, i) \in DOMAIN r /\ r[Pos(a, b, i)] = s[i]
      /\ \A i, j \in Live(s) : i < j => Pos(a, b, i) < Pos(a, b, j)
      /\ \A k \in DOMAIN r : \E i \in Live(s) : Pos(a, b, i) = k
      /\ r \in Seq(EntrySet)
  BY PlacesOfTheLive
<1>2. /\ Live(s) \subseteq DOMAIN s /\ DOMAIN s \subseteq Nat /\ DOMAIN r \subseteq Nat
  BY <1>1, ConcatProperties, LenProperties DEF Live
<1>3. ASSUME NEW k \in DOMAIN r
      PROVE  r[k].playerGUID \in Listed(s)
  <2>1. PICK i \in Live(s) : Pos(a, b, i) = k
    BY <1>1
  <2>2. r[k] = s[i] /\ i \in DOMAIN s
    BY <1>1, <1>2, <2>1
  <2> QED
    BY <2>2 DEF Listed
<1>4. ASSUME NEW x \in Guid, NEW y \in Guid, Ahead(r, x, y)
      PROVE  Ahead(s, x, y)
  <2>1. PICK k \in DOMAIN r, l \in DOMAIN r :
               k < l /\ r[k].playerGUID = x /\ r[l].playerGUID = y
    BY <1>4 DEF Ahead
  <2>2. PICK i \in Live(s) : Pos(a, b, i) = k
    BY <1>1
  <2>3. PICK j \in Live(s) : Pos(a, b, j) = l
    BY <1>1
  <2>4. s[i].playerGUID = x /\ s[j].playerGUID = y
    BY <1>1, <2>1, <2>2, <2>3
  <2>5. i < j
    <3>1. ~(j < i) /\ i # j
      BY <1>1, <1>2, <2>1, <2>2, <2>3
    <3> QED
      BY <3>1, <1>2
  <2> QED
    BY <2>4, <2>5, <1>2 DEF Ahead
<1>5. \A i \in Live(s) : s[i].playerGUID \in Listed(r)
  BY <1>1 DEF Listed
<1>6. Listed(r) \subseteq Listed(s)
  BY <1>3 DEF Listed
<1> QED
  BY <1>4, <1>5, <1>6 DEF KeepsOrder

LEMMA AheadInTwo ==
  ASSUME NEW a \in Seq(EntrySet), NEW b \in Seq(EntrySet), NEW p, NEW q
  PROVE  /\ Ahead(a \o b, p, q) <=>
              \/ Ahead(a, p, q) \/ Ahead(b, p, q)
              \/ p \in Listed(a) /\ q \in Listed(b)
         /\ Listed(a \o b) = Listed(a) \cup Listed(b)
<1> DEFINE s == a \o b
<1>1. /\ DOMAIN s = 1 .. Len(a) + Len(b) /\ DOMAIN a = 1 .. Len(a) /\ DOMAIN b = 1 .. Len(b)
      /\ Len(a) \in Nat /\ Len(b) \in Nat
  <2>1. s \in Seq(EntrySet) /\ Len(s) = Len(a) + Len(b)
    BY ConcatProperties
  <2> QED
    BY <2>1, LenProperties
<1>2. /\ \A i \in DOMAIN a : i \in DOMAIN s /\ s[i] = a[i]
      /\ \A i \in DOMAIN b : i + Len(a) \in DOMAIN s /\ s[i + Len(a)] = b[i]
  <2>1. ASSUME NEW i \in DOMAIN a PROVE i \in DOMAIN s /\ s[i] = a[i]
    BY <1>1, ConcatProperties
  <2>2. ASSUME NEW i \in DOMAIN b PROVE i + Len(a) \in DOMAIN s /\ s[i + Len(a)] = b[i]
    <3>1. i + Len(a) \in Len(a) + 1 .. Len(a) + Len(b) /\ (i + Len(a)) - Len(a) = i
      BY <1>1
    <3>2. s[i + Len(a)] = b[(i + Len(a)) - Len(a)]
      BY <3>1, <1>1, ConcatProperties
    <3> QED
      BY <3>1, <3>2, <1>1
  <2> QED
    BY <2>1, <2>2
<1>3. ASSUME NEW i \in DOMAIN s
      PROVE  \/ i \in DOMAIN a
             \/ i > Len(a) /\ i - Len(a) \in DOMAIN b /\ s[i] = b[i - Len(a)]
  <2>1. CASE i <= Len(a)
    BY <2>1, <1>1
  <2>2. CASE i > Len(a)
    <3>1. i - Len(a) \in DOMAIN b /\ (i - Len(a)) + Len(a) = i
      BY <2>2, <1>1
    <3> QED
      BY <3>1, <2>2, <1>2
  <2> QED
    BY <2>1, <2>2, <1>1
<1>4. ASSUME Ahead(s, p, q)
      PROVE  \/ Ahead(a, p, q) \/ Ahead(b, p, q)
             \/ p \in Listed(a) /\ q \in Listed(b)
  <2>1. PICK i \in DOMAIN s, j \in DOMAIN s : i < j /\ s[i].playerGUID = p /\ s[j].playerGUID = q
    BY <1>4 DEF Ahead
  <2>2. CASE j \in DOMAIN a
    <3>1. i \in DOMAIN a
      BY <2>1, <2>2, <1>1
    <3> QED
      BY <2>1, <2>2, <3>1, <1>2 DEF Ahead
  <2>3. CASE i \in DOMAIN a /\ j > Len(a) /\ j - Len(a) \in DOMAIN b /\ s[j] = b[j - Len(a)]
    BY <2>1, <2>3, <1>2 DEF Listed
  <2>4. CASE /\ i > Len(a) /\ i - Len(a) \in DOMAIN b /\ s[i] = b[i - Len(a)]
             /\ j > Len(a) /\ j - Len(a) \in DOMAIN b /\ s[j] = b[j - Len(a)]
    <3>1. i - Len(a) < j - Len(a)
      BY <2>1, <2>4, <1>1
    <3> QED
      BY <2>1, <2>4, <3>1 DEF Ahead
  <2> QED
    BY <2>2, <2>3, <2>4, <1>3
<1>5. ASSUME Ahead(a, p, q)
      PROVE  Ahead(s, p, q)
  BY <1>5, <1>2 DEF Ahead
<1>6. ASSUME Ahead(b, p, q)
      PROVE  Ahead(s, p, q)
  <2>1. PICK i \in DOMAIN b, j \in DOMAIN b : i < j /\ b[i].playerGUID = p /\ b[j].playerGUID = q
    BY <1>6 DEF Ahead
  <2>2. i + Len(a) < j + Len(a)
    BY <2>1, <1>1
  <2> QED
    BY <2>1, <2>2, <1>2 DEF Ahead
<1>7. ASSUME p \in Listed(a), q \in Listed(b)
      PROVE  Ahead(s, p, q)
  <2>1. PICK i \in DOMAIN a : a[i].playerGUID = p
    BY <1>7 DEF Listed
  <2>2. PICK j \in DOMAIN b : b[j].playerGUID = q
    BY <1>7 DEF Listed
  <2>3. i < j + Len(a)
    BY <2>1, <2>2, <1>1
  <2> QED
    BY <2>1, <2>2, <2>3, <1>2 DEF Ahead
<1>8. Listed(s) \subseteq Listed(a) \cup Listed(b)
  <2> SUFFICES ASSUME NEW i \in DOMAIN s
               PROVE  s[i].playerGUID \in Listed(a) \cup Listed(b)
    BY DEF Listed
  <2> QED
    BY <1>2, <1>3 DEF Listed
<1>9. Listed(a) \subseteq Listed(s) /\ Listed(b) \subseteq Listed(s)
  BY <1>2 DEF Listed
<1> QED
  BY <1>4, <1>5, <1>6, <1>7, <1>8, <1>9

(* What happens to each of the two lists happens to both. *)
LEMMA TwoKeepOrder ==
  ASSUME NEW a \in Seq(EntrySet), NEW b \in Seq(EntrySet),
         NEW c \in Seq(EntrySet), NEW d \in Seq(EntrySet),
         KeepsOrder(a, c), KeepsOrder(b, d)
  PROVE  KeepsOrder(a \o b, c \o d)
<1>1. Listed(a \o b) \subseteq Listed(c \o d)
  <2>1. Listed(a \o b) = Listed(a) \cup Listed(b)
    BY AheadInTwo
  <2>2. Listed(c \o d) = Listed(c) \cup Listed(d)
    BY AheadInTwo
  <2> QED
    BY <2>1, <2>2 DEF KeepsOrder
<1>2. ASSUME NEW x \in Guid, NEW y \in Guid, Ahead(a \o b, x, y)
      PROVE  Ahead(c \o d, x, y)
  <2>1. Ahead(a, x, y) \/ Ahead(b, x, y) \/ (x \in Listed(a) /\ y \in Listed(b))
    BY <1>2, AheadInTwo
  <2>2. Ahead(c, x, y) \/ Ahead(d, x, y) \/ (x \in Listed(c) /\ y \in Listed(d))
    BY <2>1 DEF KeepsOrder
  <2> QED
    BY <2>2, AheadInTwo
<1> QED
  BY <1>1, <1>2 DEF KeepsOrder

LEMMA KeptInTurn ==
  ASSUME NEW r, NEW s, NEW t, KeepsOrder(r, s), KeepsOrder(s, t)
  PROVE  KeepsOrder(r, t)
BY DEF KeepsOrder

(* The same players at the same places. *)
LEMMA SamePlaces ==
  ASSUME NEW r, NEW s, DOMAIN r = DOMAIN s,
         \A i \in DOMAIN s : r[i].playerGUID = s[i].playerGUID
  PROVE  KeepsOrder(r, s) /\ KeepsOrder(s, r)
BY DEF KeepsOrder, Ahead, Listed

LEMMA ErasingKeepsOrder ==
  ASSUME NEW list \in Seq(EntrySet), NEW i \in Int
  PROVE  Erased(list, i) \in Seq(EntrySet) /\ KeepsOrder(Erased(list, i), list)
<1> DEFINE r == Erased(list, i)
           from(k) == IF k < i THEN k ELSE k + 1
<1>0. DOMAIN list = 1 .. Len(list) /\ Len(list) \in Nat
  BY LenProperties
<1>1. CASE i \notin DOMAIN list
  BY <1>1, SamePlaces DEF Erased
<1>2. CASE i \in DOMAIN list
  <2> DEFINE a == SubSeq(list, 1, i - 1)
             b == SubSeq(list, i + 1, Len(list))
  <2>1. r = a \o b
    BY <1>2 DEF Erased, RemoveAt
  <2>2. /\ a \in Seq(EntrySet) /\ Len(a) = i - 1
        /\ \A k \in 1 .. i - 1 : a[k] = list[k]
    <3>1. \A k \in 1 .. i - 1 : list[k] \in EntrySet
      BY <1>0, <1>2, ElementOfSeq
    <3> QED
      BY <3>1, <1>0, <1>2, SubSeqProperties
  <2>3. /\ b \in Seq(EntrySet) /\ Len(b) = Len(list) - i
        /\ \A k \in 1 .. Len(list) - i : b[k] = list[k + i]
    <3>1. \A k \in i + 1 .. Len(list) : list[k] \in EntrySet
      BY <1>0, <1>2, ElementOfSeq
    <3>2. i + 1 \in Int /\ Len(list) \in Int /\ i <= Len(list)
      BY <1>0, <1>2
    <3>3. /\ b \in Seq(EntrySet)
          /\ Len(b) = IF i + 1 <= Len(list) THEN Len(list) - (i + 1) + 1 ELSE 0
          /\ \A k \in 1 .. Len(list) - (i + 1) + 1 : b[k] = list[(i + 1) + k - 1]
      BY <3>1, <3>2, SubSeqProperties
    <3> HIDE DEF b
    <3>4. Len(b) = Len(list) - i
      BY <3>2, <3>3
    <3>5. \A k \in 1 .. Len(list) - i : b[k] = list[k + i]
      BY <3>2, <3>3
    <3> QED
      BY <3>3, <3>4, <3>5
  <2> HIDE DEF a, b
  <2>4. r \in Seq(EntrySet) /\ DOMAIN r = 1 .. Len(list) - 1
    <3>1. a \o b \in Seq(EntrySet) /\ Len(a \o b) = Len(a) + Len(b)
      BY <2>2, <2>3, ConcatProperties
    <3>2. Len(a) + Len(b) = Len(list) - 1
      BY <2>2, <2>3, <1>0, <1>2
    <3>3. r \in Seq(EntrySet) /\ Len(r) = Len(list) - 1
      BY <3>1, <3>2, <2>1
    <3> QED
      BY <3>3, LenProperties
  <2>5. ASSUME NEW k \in DOMAIN r
        PROVE  from(k) \in DOMAIN list /\ r[k] = list[from(k)]
    <3>0. k \in 1 .. Len(list) - 1 /\ i \in 1 .. Len(list) /\ Len(list) \in Nat
      BY <2>4, <1>0, <1>2
    <3>1. CASE k < i
      <4>1. k \in 1 .. Len(a)
        BY <3>0, <3>1, <2>2
      <4> QED
        BY <4>1, <3>1, <2>1, <2>2, <2>3, <2>4, <1>0, ConcatProperties
    <3>2. CASE k >= i
      <4>1. k \in Len(a) + 1 .. Len(a) + Len(b) /\ k - Len(a) \in 1 .. Len(list) - i
        BY <3>0, <3>2, <2>2, <2>3
      <4>2. r[k] = b[k - Len(a)]
        BY <4>1, <2>1, <2>2, <2>3, ConcatProperties
      <4>3. b[k - Len(a)] = list[(k - Len(a)) + i]
        BY <4>1, <2>3
      <4>4. (k - Len(a)) + i = k + 1
        BY <3>0, <2>2
      <4> QED
        BY <4>2, <4>3, <4>4, <3>0, <3>2
    <3> QED
      BY <3>1, <3>2, <2>4, <1>0, <1>2
  <2>6. \A k, l \in DOMAIN r : k < l => from(k) < from(l)
    BY <2>4, <1>0, <1>2
  <2>7. Listed(r) \subseteq Listed(list)
    BY <2>5 DEF Listed
  <2>8. \A x, y \in Guid : Ahead(r, x, y) => Ahead(list, x, y)
    BY <2>5, <2>6 DEF Ahead
  <2> QED
    BY <2>4, <2>7, <2>8 DEF KeepsOrder
<1> QED
  BY <1>1, <1>2

LEMMA RenewingKeepsPlaces ==
  ASSUME NEW list \in Seq(EntrySet), NEW i \in Int, NEW left \in -1 .. 27
  PROVE  /\ Renewed(list, i, left) \in Seq(EntrySet)
         /\ KeepsOrder(Renewed(list, i, left), list)
<1> DEFINE r == Renewed(list, i, left)
<1>1. DOMAIN list = 1 .. Len(list) /\ Len(list) \in Nat /\ \A j \in DOMAIN list : list[j] \in EntrySet
  BY LenProperties, ElementOfSeq
<1>2. r \in [1 .. Len(list) -> EntrySet]
  BY <1>1 DEF Renewed, Entry, EntrySet
<1>3. r \in Seq(EntrySet)
  BY <1>1, <1>2, SeqDef
<1>4. DOMAIN r = DOMAIN list /\ \A j \in DOMAIN list : r[j].playerGUID = list[j].playerGUID
  BY <1>1 DEF Renewed, Entry
<1> QED
  BY <1>3, <1>4, SamePlaces

LEMMA PassingKeepsPlaces ==
  ASSUME NEW list \in Seq(EntrySet)
  PROVE  Pass(list) \in Seq(EntrySet) /\ KeepsOrder(Pass(list), list)
<1> DEFINE r == Pass(list)
<1>1. DOMAIN list = 1 .. Len(list) /\ Len(list) \in Nat /\ \A j \in DOMAIN list : list[j] \in EntrySet
  BY LenProperties, ElementOfSeq
<1>2. ASSUME NEW e \in EntrySet
      PROVE  [e EXCEPT !.left = IF @ < 0 THEN -1 ELSE @ - 1] \in EntrySet
  BY DEF EntrySet
<1>5. r \in [1 .. Len(list) -> EntrySet]
  BY <1>1, <1>2 DEF Pass
<1>3. r \in Seq(EntrySet)
  BY <1>1, <1>5, SeqDef
<1>4. DOMAIN r = DOMAIN list /\ \A j \in DOMAIN list : r[j].playerGUID = list[j].playerGUID
  BY <1>1 DEF Pass, EntrySet
<1> QED
  BY <1>3, <1>4, SamePlaces

LEMMA AppendKeepsOrder ==
  ASSUME NEW a \in Seq(EntrySet), NEW e \in EntrySet
  PROVE  /\ Append(a, e) \in Seq(EntrySet)
         /\ Listed(Append(a, e)) = Listed(a) \cup {e.playerGUID}
         /\ \A x, y \in Guid \ {e.playerGUID} : Ahead(Append(a, e), x, y) => Ahead(a, x, y)
         /\ e.playerGUID \notin Listed(a) =>
              ~Ahead(Append(a, e), e.playerGUID, e.playerGUID)
<1> DEFINE r == Append(a, e)
           n == Len(a)
<1>1. n \in Nat /\ DOMAIN a = 1 .. n
  BY LenProperties
<1>2. r \in Seq(EntrySet) /\ Len(r) = n + 1
  BY AppendProperties
<1>3. DOMAIN r = 1 .. n + 1
  BY <1>2, LenProperties
<1>4. /\ r[n + 1] = e
      /\ \A i \in 1 .. n : r[i] = a[i]
  BY AppendProperties
<1>5. Listed(r) \subseteq Listed(a) \cup {e.playerGUID}
  <2> SUFFICES ASSUME NEW i \in DOMAIN r
               PROVE  r[i].playerGUID \in Listed(a) \cup {e.playerGUID}
    BY DEF Listed
  <2>1. i = n + 1 \/ i \in DOMAIN a
    BY <1>1, <1>3
  <2> QED
    BY <2>1, <1>1, <1>4 DEF Listed
<1>6. Listed(a) \subseteq Listed(r)
  <2> SUFFICES ASSUME NEW i \in DOMAIN a
               PROVE  a[i].playerGUID \in Listed(r)
    BY DEF Listed
  <2>1. i \in DOMAIN r /\ r[i] = a[i]
    BY <1>1, <1>3, <1>4
  <2> QED
    BY <2>1 DEF Listed
<1>7. e.playerGUID \in Listed(r)
  <2>1. n + 1 \in DOMAIN r
    BY <1>1, <1>3
  <2> QED
    BY <2>1, <1>4 DEF Listed
<1>8. ASSUME NEW x \in Guid, NEW y \in Guid, Ahead(r, x, y), y # e.playerGUID
      PROVE  Ahead(a, x, y)
  <2>1. PICK i \in DOMAIN r, j \in DOMAIN r : i < j /\ r[i].playerGUID = x /\ r[j].playerGUID = y
    BY <1>8 DEF Ahead
  <2>2. j # n + 1
    BY <2>1, <1>4, <1>8
  <2>3. i \in 1 .. n /\ j \in 1 .. n
    BY <2>1, <2>2, <1>1, <1>3
  <2> QED
    BY <2>1, <2>3, <1>1, <1>4 DEF Ahead
<1>9. ASSUME e.playerGUID \notin Listed(a), Ahead(r, e.playerGUID, e.playerGUID)
      PROVE  FALSE
  <2>1. PICK i \in DOMAIN r, j \in DOMAIN r : i < j /\ r[i].playerGUID = e.playerGUID
    BY <1>9 DEF Ahead
  <2>2. i \in 1 .. n
    BY <2>1, <1>1, <1>3
  <2> QED
    BY <2>1, <2>2, <1>1, <1>4, <1>9 DEF Listed
<1> QED
  BY <1>2, <1>5, <1>6, <1>7, <1>8, <1>9

(* The next attempt of a waiting client is never more than 27 units away. *)
LEMMA TimesAreShort ==
  ASSUME NEW slot \in Nat
  PROVE  GetTimeout(slot) \in -1 .. 27
<1> DEFINE steps == {<<5, 1>>, <<10, 2>>, <<20, 4>>, <<50, 12>>}
           above == {s \in steps : slot < s[1]}
<1>1. CASE above = {}
  BY <1>1 DEF GetTime, GetTimeout
<1>2. CASE above # {}
  <2>1. \E s \in above : \A t \in above : s[1] <= t[1]
    <3>1. CASE slot < 5
      <4>1. <<5, 1>> \in above /\ \A t \in above : 5 <= t[1]
        BY <3>1
      <4> QED
        BY <4>1
    <3>2. CASE ~(slot < 5) /\ slot < 10
      <4>1. <<10, 2>> \in above /\ \A t \in above : 10 <= t[1]
        BY <3>2
      <4> QED
        BY <4>1
    <3>3. CASE ~(slot < 10) /\ slot < 20
      <4>1. <<20, 4>> \in above /\ \A t \in above : 20 <= t[1]
        BY <3>3
      <4> QED
        BY <4>1
    <3>4. CASE ~(slot < 20)
      <4>1. \A t \in above : t = <<50, 12>>
        BY <3>4
      <4> QED
        BY <4>1, <1>2
    <3> QED
      BY <3>1, <3>2, <3>3, <3>4
  <2> DEFINE s == CHOOSE s \in above : \A t \in above : s[1] <= t[1]
  <2>2. s \in steps
    BY <2>1
  <2>4. GetTime(slot) = s[2]
    BY <1>2 DEF GetTime
  <2> HIDE DEF s
  <2>3. s[2] \in {1, 2, 4, 12}
    BY <2>2
  <2> QED
    BY <2>3, <2>4 DEF GetTimeout
<1> QED
  BY <1>1, <1>2

-----------------------------------------------------------------------------
(* No two entries of the two lists are of one player. *)
WaitInv == WaitListTypeOK /\ IsFiniteSet(playersOnline) /\ Distinct(Line)

Cleaned == CleanupList(priorityWaitList) \o CleanupList(waitList)

LEMMA OneSlotEach ==
  ASSUME NEW s \in Seq(EntrySet)
  PROVE  Distinct(s) <=> \A i, j \in DOMAIN s : s[i].playerGUID = s[j].playerGUID => i = j
<1>0. DOMAIN s = 1 .. Len(s) /\ Len(s) \in Nat
  BY LenProperties
<1>1. DOMAIN s \subseteq Nat /\ \A i \in DOMAIN s : s[i].playerGUID \in Guid
  <2>1. \A i \in DOMAIN s : s[i] \in EntrySet
    BY <1>0, ElementOfSeq
  <2> QED
    BY <1>0, <2>1 DEF EntrySet
<1>2. ASSUME Distinct(s), NEW i \in DOMAIN s, NEW j \in DOMAIN s, s[i].playerGUID = s[j].playerGUID
      PROVE  i = j
  <2>1. ~(i < j) /\ ~(j < i)
    BY <1>1, <1>2 DEF Distinct, Ahead
  <2> QED
    BY <2>1, <1>1
<1>3. ASSUME \A i, j \in DOMAIN s : s[i].playerGUID = s[j].playerGUID => i = j
      PROVE  Distinct(s)
  BY <1>1, <1>3 DEF Distinct, Ahead
<1> QED
  BY <1>2, <1>3

(* Whoever keeps the order of distinct entries keeps them distinct. *)
LEMMA StayDistinct ==
  ASSUME NEW r, NEW s, KeepsOrder(r, s), Distinct(s)
  PROVE  Distinct(r)
BY DEF KeepsOrder, Distinct

LEMMA ListsAreSequences ==
  ASSUME WaitInv
  PROVE  /\ priorityWaitList \in Seq(EntrySet) /\ waitList \in Seq(EntrySet)
         /\ CleanupList(priorityWaitList) \in Seq(EntrySet)
         /\ CleanupList(waitList) \in Seq(EntrySet)
         /\ Len(CleanupList(priorityWaitList)) \in Nat /\ Len(CleanupList(waitList)) \in Nat
         /\ Line \in Seq(EntrySet) /\ Cleaned \in Seq(EntrySet)
         /\ KeepsOrder(Cleaned, Line) /\ Distinct(Cleaned)
         /\ Cardinality(playersOnline) \in Nat
<1>1. priorityWaitList \in Seq(EntrySet) /\ waitList \in Seq(EntrySet)
  BY DEF WaitInv, WaitListTypeOK, EntrySet
<1>2. /\ CleanupList(priorityWaitList) \in Seq(EntrySet)
      /\ CleanupList(waitList) \in Seq(EntrySet)
  BY <1>1, CleanedByRank
<1>3. Len(CleanupList(priorityWaitList)) \in Nat /\ Len(CleanupList(waitList)) \in Nat
  BY <1>2, LenProperties
<1>4. Line \in Seq(EntrySet) /\ Cleaned \in Seq(EntrySet)
  BY <1>1, <1>2, ConcatProperties DEF Line, Cleaned
<1>5. KeepsOrder(Cleaned, Line)
  BY <1>1, CleaningKeepsOrder DEF Line, Cleaned
<1>6. Distinct(Cleaned)
  BY <1>5, StayDistinct DEF WaitInv
<1>7. Cardinality(playersOnline) \in Nat
  BY FS_CardinalityType DEF WaitInv
<1> QED
  BY <1>1, <1>2, <1>3, <1>4, <1>5, <1>6, <1>7

LEMMA PlaceKeepsTypes ==
  ASSUME WaitInv, NEW p \in Guid, Place(p)
  PROVE  playersOnline' \subseteq Guid /\ IsFiniteSet(playersOnline')
         /\ Cardinality(playersOnline') <= Cardinality(playersOnline) + 1
         /\ Cardinality(playersOnline') \in Nat
<1>0. IsFiniteSet(playersOnline) /\ Cardinality(playersOnline) \in Nat
  BY FS_CardinalityType DEF WaitInv
<1>1. /\ IsFiniteSet(playersOnline \cup {p})
      /\ Cardinality(playersOnline \cup {p})
           \in {Cardinality(playersOnline), Cardinality(playersOnline) + 1}
  <2>1. Cardinality(playersOnline \cup {p}) =
          IF p \in playersOnline THEN Cardinality(playersOnline) ELSE Cardinality(playersOnline) + 1
    BY <1>0, FS_AddElement
  <2>2. IsFiniteSet(playersOnline \cup {p})
    BY <1>0, FS_AddElement
  <2> QED
    BY <2>1, <2>2
<1>2. playersOnline' = playersOnline \/ playersOnline' = playersOnline \cup {p}
  BY DEF Place
<1>3. IsFiniteSet(playersOnline')
  BY <1>0, <1>1, <1>2
<1>4. Cardinality(playersOnline') <= Cardinality(playersOnline) + 1
  BY <1>0, <1>1, <1>2
<1>5. playersOnline' \subseteq Guid
  BY <1>2 DEF WaitInv, WaitListTypeOK
<1> QED
  BY <1>3, <1>4, <1>5, FS_CardinalityType

(* The slot that findClient returns. *)
FirstSlot(p) ==
  LET slots == FindClient(CleanupList(priorityWaitList), CleanupList(waitList), p)
  IN CHOOSE i \in slots : \A j \in slots : i <= j

LEMMA FirstSlotIsTheClients ==
  ASSUME WaitInv, NEW p \in Guid,
         FindClient(CleanupList(priorityWaitList), CleanupList(waitList), p) # {}
  PROVE  FirstSlot(p) \in DOMAIN Cleaned /\ Cleaned[FirstSlot(p)].playerGUID = p
<1> DEFINE slots == FindClient(CleanupList(priorityWaitList), CleanupList(waitList), p)
<1>1. DOMAIN Cleaned = 1 .. Len(Cleaned) /\ Len(Cleaned) \in Nat
  BY ListsAreSequences, LenProperties
<1>2. slots = {i \in DOMAIN Cleaned : Cleaned[i].playerGUID = p}
  BY <1>1 DEF FindClient, Cleaned
<1>3. PICK i \in slots : TRUE
  OBVIOUS
<1>4. \A j \in slots : i = j
  BY <1>2, ListsAreSequences, OneSlotEach
<1>5. \A j \in slots : i <= j
  BY <1>1, <1>2, <1>4
<1>6. FirstSlot(p) \in slots
  BY <1>3, <1>5 DEF FirstSlot
<1> QED
  BY <1>2, <1>6

(* What a step may do to the line: nobody passes another; or one that is in *)
(* neither list, its own entry having run out or not, joins it.             *)
JoinsTheLine(p) ==
  /\ p \notin Listed(Cleaned)
  /\ KeepsOrderBut(Line', Line, p)
  /\ ~Ahead(Line', p, p)

LEMMA LineOfTheNext ==
  ASSUME WaitInv, priorityWaitList' \in Seq(EntrySet), waitList' \in Seq(EntrySet)
  PROVE  Line' \in Seq(EntrySet)
BY ConcatProperties DEF Line

LEMMA LettingInKeepsOrder ==
  ASSUME WaitInv, NEW p \in Guid, NEW slot \in Int,
         LetIn(p, slot, CleanupList(priorityWaitList), CleanupList(waitList))
  PROVE  /\ priorityWaitList' \in Seq(EntrySet) /\ waitList' \in Seq(EntrySet)
         /\ KeepsOrder(Line', Line)
<1> DEFINE a == CleanupList(priorityWaitList)
           b == CleanupList(waitList)
<1>1. /\ priorityWaitList' = Erased(a, slot)
      /\ waitList' = Erased(b, slot - Len(a))
  BY DEF LetIn
<1>2. a \in Seq(EntrySet) /\ b \in Seq(EntrySet) /\ slot - Len(a) \in Int
  BY ListsAreSequences
<1>3. /\ priorityWaitList' \in Seq(EntrySet) /\ KeepsOrder(priorityWaitList', a)
      /\ waitList' \in Seq(EntrySet) /\ KeepsOrder(waitList', b)
  BY <1>1, <1>2, ErasingKeepsOrder
<1>4. KeepsOrder(Line', Cleaned)
  BY <1>2, <1>3, TwoKeepOrder DEF Line, Cleaned
<1> QED
  BY <1>3, <1>4, KeptInTurn, ListsAreSequences

LEMMA WaitingKeepsOrder ==
  ASSUME WaitInv, NEW p \in Guid, NEW slot \in Nat,
         WaitsLonger(p, slot, CleanupList(priorityWaitList), CleanupList(waitList))
  PROVE  /\ priorityWaitList' \in Seq(EntrySet) /\ waitList' \in Seq(EntrySet)
         /\ KeepsOrder(Line', Line)
<1> DEFINE a == CleanupList(priorityWaitList)
           b == CleanupList(waitList)
<1>1. /\ priorityWaitList' = Renewed(a, slot, GetTimeout(slot))
      /\ waitList' = Renewed(b, slot - Len(a), GetTimeout(slot))
      /\ GetTimeout(slot) \in -1 .. 27
  BY TimesAreShort DEF WaitsLonger
<1>2. a \in Seq(EntrySet) /\ b \in Seq(EntrySet) /\ slot - Len(a) \in Int /\ slot \in Int
  BY ListsAreSequences
<1> HIDE DEF a, b
<1>3. /\ priorityWaitList' \in Seq(EntrySet) /\ KeepsOrder(priorityWaitList', a)
      /\ waitList' \in Seq(EntrySet) /\ KeepsOrder(waitList', b)
  <2>1. priorityWaitList' \in Seq(EntrySet) /\ KeepsOrder(priorityWaitList', a)
    BY <1>1, <1>2, RenewingKeepsPlaces
  <2>2. waitList' \in Seq(EntrySet) /\ KeepsOrder(waitList', b)
    BY <1>1, <1>2, RenewingKeepsPlaces
  <2> QED
    BY <2>1, <2>2
<1>4. KeepsOrder(Line', Cleaned)
  BY <1>2, <1>3, TwoKeepOrder DEF Line, Cleaned, a, b
<1> QED
  BY <1>3, <1>4, KeptInTurn, ListsAreSequences

LEMMA JoiningKeepsOrder ==
  ASSUME WaitInv, NEW p \in Guid, NEW premium \in BOOLEAN,
         FindClient(CleanupList(priorityWaitList), CleanupList(waitList), p) = {},
         Joins(p, premium, CleanupList(priorityWaitList), CleanupList(waitList))
  PROVE  /\ priorityWaitList' \in Seq(EntrySet) /\ waitList' \in Seq(EntrySet)
         /\ JoinsTheLine(p)
<1> DEFINE a == CleanupList(priorityWaitList)
           b == CleanupList(waitList)
<1>1. a \in Seq(EntrySet) /\ b \in Seq(EntrySet) /\ Len(a) \in Nat /\ Len(b) \in Nat
      /\ misplaced \in Nat
  BY ListsAreSequences, WaitListAssumption DEF WaitInv, WaitListTypeOK
<1>2. p \notin Listed(Cleaned)
  <2>1. DOMAIN Cleaned = 1 .. Len(Cleaned)
    BY ListsAreSequences, LenProperties
  <2> QED
    BY <2>1 DEF FindClient, Listed, Cleaned
<1>3. p \notin Listed(a) /\ p \notin Listed(b)
  <2>1. Listed(Cleaned) = Listed(a) \cup Listed(b)
    BY <1>1, AheadInTwo DEF Cleaned
  <2> QED
    BY <2>1, <1>2
<1> HIDE DEF a, b
<1>4. ASSUME NEW e \in EntrySet, e.playerGUID = p,
             \/ priorityWaitList' = Append(a, e) /\ waitList' = b
             \/ priorityWaitList' = a /\ waitList' = Append(b, e)
      PROVE  /\ priorityWaitList' \in Seq(EntrySet) /\ waitList' \in Seq(EntrySet)
             /\ KeepsOrderBut(Line', Cleaned, p)
             /\ ~Ahead(Line', p, p)
  <2>1. /\ Append(a, e) \in Seq(EntrySet) /\ Append(b, e) \in Seq(EntrySet)
        /\ Listed(Append(a, e)) = Listed(a) \cup {p}
        /\ Listed(Append(b, e)) = Listed(b) \cup {p}
        /\ \A x, y \in Guid \ {p} : Ahead(Append(a, e), x, y) => Ahead(a, x, y)
        /\ \A x, y \in Guid \ {p} : Ahead(Append(b, e), x, y) => Ahead(b, x, y)
        /\ ~Ahead(Append(a, e), p, p) /\ ~Ahead(Append(b, e), p, p)
    BY <1>1, <1>3, <1>4, AppendKeepsOrder
  <2>2. /\ priorityWaitList' \in Seq(EntrySet) /\ waitList' \in Seq(EntrySet)
    BY <1>1, <1>4, <2>1
  <2>3. ~Ahead(a, p, p) /\ ~Ahead(b, p, p)
    BY <1>3 DEF Ahead, Listed
  <2>4. Line' = priorityWaitList' \o waitList' /\ Cleaned = a \o b
    BY DEF Line, Cleaned, a, b
  <2>5. ~Ahead(Line', p, p)
    <3>1. Ahead(Line', p, p) <=>
            \/ Ahead(priorityWaitList', p, p) \/ Ahead(waitList', p, p)
            \/ p \in Listed(priorityWaitList') /\ p \in Listed(waitList')
      BY <2>2, <2>4, AheadInTwo
    <3> QED
      BY <3>1, <2>1, <2>3, <1>3, <1>4
  <2>6. ASSUME NEW x \in Guid \ {p}, NEW y \in Guid \ {p}, Ahead(Line', x, y)
        PROVE  Ahead(Cleaned, x, y)
    <3>1. \/ Ahead(priorityWaitList', x, y) \/ Ahead(waitList', x, y)
          \/ x \in Listed(priorityWaitList') /\ y \in Listed(waitList')
      BY <2>2, <2>4, <2>6, AheadInTwo
    <3>2. Ahead(a, x, y) \/ Ahead(b, x, y) \/ (x \in Listed(a) /\ y \in Listed(b))
      BY <3>1, <2>1, <2>6, <1>4
    <3> QED
      BY <3>2, <1>1, <2>4, AheadInTwo
  <2> QED
    BY <2>2, <2>5, <2>6 DEF KeepsOrderBut
<1>5. \E e \in EntrySet :
        /\ e.playerGUID = p
        /\ \/ priorityWaitList' = Append(a, e) /\ waitList' = b
           \/ priorityWaitList' = a /\ waitList' = Append(b, e)
  <2>1. CASE premium
    <3> DEFINE e == Entry(p, GetTimeout(Len(a) + misplaced + 1))
    <3>1. GetTimeout(Len(a) + misplaced + 1) \in -1 .. 27
      BY <1>1, TimesAreShort
    <3>2. e \in EntrySet /\ e.playerGUID = p
      BY <3>1 DEF Entry, EntrySet
    <3>3. priorityWaitList' = Append(a, e) /\ waitList' = b
      BY <2>1 DEF Joins, a, b
    <3> QED
      BY <3>2, <3>3
  <2>2. CASE ~premium
    <3> DEFINE e == Entry(p, GetTimeout(Len(a) + Len(b) + 1))
    <3>1. GetTimeout(Len(a) + Len(b) + 1) \in -1 .. 27
      BY <1>1, TimesAreShort
    <3>2. e \in EntrySet /\ e.playerGUID = p
      BY <3>1 DEF Entry, EntrySet
    <3>3. priorityWaitList' = a /\ waitList' = Append(b, e)
      BY <2>2 DEF Joins, a, b
    <3> QED
      BY <3>2, <3>3
  <2> QED
    BY <2>1, <2>2
<1>6. /\ priorityWaitList' \in Seq(EntrySet) /\ waitList' \in Seq(EntrySet)
      /\ KeepsOrderBut(Line', Cleaned, p) /\ ~Ahead(Line', p, p)
  BY <1>4, <1>5
<1>7. KeepsOrderBut(Line', Line, p)
  BY <1>6, ListsAreSequences DEF KeepsOrderBut, KeepsOrder
<1> QED
  BY <1>2, <1>6, <1>7 DEF JoinsTheLine

-----------------------------------------------------------------------------
(* The cases of a call. *)
LEMMA CasesOfClientLogin ==
  ASSUME WaitInv, NEW p \in Guid, NEW premium \in BOOLEAN, ClientLogin(p, premium)
  PROVE  \/ GoesStraightIn(p)
         \/ /\ FirstSlot(p) \in DOMAIN Cleaned /\ FirstSlot(p) \in Nat
            /\ Cleaned[FirstSlot(p)].playerGUID = p
            /\ \/ LetIn(p, FirstSlot(p), CleanupList(priorityWaitList), CleanupList(waitList))
               \/ WaitsLonger(p, FirstSlot(p), CleanupList(priorityWaitList), CleanupList(waitList))
         \/ /\ FindClient(CleanupList(priorityWaitList), CleanupList(waitList), p) = {}
            /\ Joins(p, premium, CleanupList(priorityWaitList), CleanupList(waitList))
<1>1. DOMAIN Cleaned \subseteq Nat
  <2>1. DOMAIN Cleaned = 1 .. Len(Cleaned)
    BY ListsAreSequences, LenProperties
  <2> QED
    BY <2>1
<1> QED
  BY <1>1, FirstSlotIsTheClients DEF ClientLogin, FirstSlot

(* Every step keeps the order, or lets somebody join. *)
LEMMA NextKeepsOrder ==
  ASSUME WaitInv, [WaitListNext]_waitListVars
  PROVE  /\ priorityWaitList' \in Seq(EntrySet) /\ waitList' \in Seq(EntrySet)
         /\ playersOnline' \subseteq Guid /\ IsFiniteSet(playersOnline')
         /\ misplaced' \in 0 .. MaxMisplaced
         /\ KeepsOrder(Line', Line) \/ \E p \in Guid : JoinsTheLine(p)
<1> USE DEF WaitInv, WaitListTypeOK
<1>1. ASSUME NEW p \in Guid, NEW premium \in BOOLEAN, ClientLogin(p, premium)
      PROVE  /\ priorityWaitList' \in Seq(EntrySet) /\ waitList' \in Seq(EntrySet)
             /\ playersOnline' \subseteq Guid /\ IsFiniteSet(playersOnline')
             /\ misplaced' \in 0 .. MaxMisplaced
             /\ KeepsOrder(Line', Line) \/ \E q \in Guid : JoinsTheLine(q)
  <2>1. CASE GoesStraightIn(p)
    <3>1. priorityWaitList' = priorityWaitList /\ waitList' = waitList /\ Line' = Line
      BY <2>1 DEF GoesStraightIn, Line
    <3>2. KeepsOrder(Line', Line)
      BY <3>1 DEF KeepsOrder
    <3>3. playersOnline' \subseteq Guid /\ IsFiniteSet(playersOnline') /\ misplaced' = misplaced
      BY <2>1, PlaceKeepsTypes DEF GoesStraightIn
    <3> QED
      BY <3>1, <3>2, <3>3, ListsAreSequences
  <2>2. ASSUME FirstSlot(p) \in Nat,
               LetIn(p, FirstSlot(p), CleanupList(priorityWaitList), CleanupList(waitList))
        PROVE  /\ priorityWaitList' \in Seq(EntrySet) /\ waitList' \in Seq(EntrySet)
               /\ playersOnline' \subseteq Guid /\ IsFiniteSet(playersOnline')
               /\ misplaced' \in 0 .. MaxMisplaced
               /\ KeepsOrder(Line', Line)
    <3>1. playersOnline' \subseteq Guid /\ IsFiniteSet(playersOnline')
      BY <2>2, PlaceKeepsTypes DEF LetIn
    <3>2. misplaced' \in 0 .. MaxMisplaced
      BY <2>2, WaitListAssumption DEF LetIn
    <3> QED
      BY <2>2, <3>1, <3>2, LettingInKeepsOrder
  <2>3. ASSUME FirstSlot(p) \in Nat,
               WaitsLonger(p, FirstSlot(p), CleanupList(priorityWaitList), CleanupList(waitList))
        PROVE  /\ priorityWaitList' \in Seq(EntrySet) /\ waitList' \in Seq(EntrySet)
               /\ playersOnline' = playersOnline /\ misplaced' = misplaced
               /\ KeepsOrder(Line', Line)
    BY <2>3, WaitingKeepsOrder DEF WaitsLonger
  <2>4. ASSUME FindClient(CleanupList(priorityWaitList), CleanupList(waitList), p) = {},
               Joins(p, premium, CleanupList(priorityWaitList), CleanupList(waitList))
        PROVE  /\ priorityWaitList' \in Seq(EntrySet) /\ waitList' \in Seq(EntrySet)
               /\ playersOnline' = playersOnline /\ misplaced' = misplaced
               /\ JoinsTheLine(p)
    BY <2>4, JoiningKeepsOrder DEF Joins
  <2> QED
    BY <1>1, <2>1, <2>2, <2>3, <2>4, CasesOfClientLogin
<1>2. ASSUME priorityWaitList' = priorityWaitList, waitList' = waitList
      PROVE  /\ priorityWaitList' \in Seq(EntrySet) /\ waitList' \in Seq(EntrySet)
             /\ KeepsOrder(Line', Line)
  <2>1. Line' = Line
    BY <1>2 DEF Line
  <2> QED
    BY <1>2, <2>1, ListsAreSequences DEF KeepsOrder
<1>3. ASSUME NEW p \in Guid, StaffLogin(p)
      PROVE  /\ priorityWaitList' = priorityWaitList /\ waitList' = waitList
             /\ playersOnline' \subseteq Guid /\ IsFiniteSet(playersOnline')
             /\ misplaced' = misplaced
  BY <1>3, PlaceKeepsTypes DEF StaffLogin
<1>4. ASSUME NEW p \in Guid, RemovePlayer(p)
      PROVE  /\ priorityWaitList' = priorityWaitList /\ waitList' = waitList
             /\ playersOnline' \subseteq Guid /\ IsFiniteSet(playersOnline')
             /\ misplaced' = misplaced
  BY <1>4, FS_RemoveElement DEF RemovePlayer
<1>5. ASSUME Tick
      PROVE  /\ priorityWaitList' \in Seq(EntrySet) /\ waitList' \in Seq(EntrySet)
             /\ playersOnline' = playersOnline /\ misplaced' = misplaced
             /\ KeepsOrder(Line', Line)
  <2>1. /\ priorityWaitList' = Pass(priorityWaitList) /\ waitList' = Pass(waitList)
        /\ playersOnline' = playersOnline /\ misplaced' = misplaced
    BY <1>5 DEF Tick
  <2>2. /\ priorityWaitList' \in Seq(EntrySet) /\ KeepsOrder(priorityWaitList', priorityWaitList)
        /\ waitList' \in Seq(EntrySet) /\ KeepsOrder(waitList', waitList)
    BY <2>1, PassingKeepsPlaces, ListsAreSequences
  <2> QED
    BY <2>1, <2>2, TwoKeepOrder, ListsAreSequences DEF Line
<1>6. ASSUME UNCHANGED waitListVars
      PROVE  /\ priorityWaitList' = priorityWaitList /\ waitList' = waitList
             /\ playersOnline' = playersOnline /\ misplaced' = misplaced
  BY <1>6 DEF waitListVars
<1> QED
  BY <1>1, <1>2, <1>3, <1>4, <1>5, <1>6 DEF WaitListNext, Call

LEMMA WaitListInductive ==
  ASSUME WaitInv, [WaitListNext]_waitListVars
  PROVE  WaitInv'
<1>1. /\ priorityWaitList' \in Seq(EntrySet) /\ waitList' \in Seq(EntrySet)
      /\ playersOnline' \subseteq Guid /\ IsFiniteSet(playersOnline')
      /\ misplaced' \in 0 .. MaxMisplaced
      /\ KeepsOrder(Line', Line) \/ \E p \in Guid : JoinsTheLine(p)
  BY NextKeepsOrder
<1>2. WaitListTypeOK'
  BY <1>1 DEF WaitListTypeOK, EntrySet
<1>3. CASE KeepsOrder(Line', Line)
  <2>1. Distinct(Line')
    BY <1>3, StayDistinct DEF WaitInv
  <2> QED
    BY <1>1, <1>2, <2>1 DEF WaitInv
<1>4. ASSUME NEW p \in Guid, JoinsTheLine(p)
      PROVE  WaitInv'
  <2>1. Distinct(Line')
    BY <1>4 DEF JoinsTheLine, KeepsOrderBut, Distinct, WaitInv
  <2> QED
    BY <1>1, <1>2, <2>1 DEF WaitInv
<1> QED
  BY <1>1, <1>3, <1>4

LEMMA WaitListStarts == WaitListInit => WaitInv
<1> SUFFICES ASSUME WaitListInit PROVE WaitInv
  OBVIOUS
<1>1. priorityWaitList = <<>> /\ waitList = <<>> /\ misplaced = 0 /\ playersOnline = {}
  BY DEF WaitListInit
<1>2. WaitListTypeOK
  BY <1>1, WaitListAssumption DEF WaitListTypeOK
<1>3. DOMAIN Line = {}
  BY <1>1 DEF Line
<1>4. Distinct(Line)
  BY <1>3 DEF Distinct, Ahead
<1> QED
  BY <1>1, <1>2, <1>4, FS_EmptySet DEF WaitInv

LEMMA WaitListInvariant == WaitListSpec => []WaitInv
BY WaitListStarts, WaitListInductive, PTL DEF WaitListSpec

(* Nobody holds two places in the lists: a client that comes again is found in *)
(* either of them, whichever it would join now.                                *)
THEOREM NobodyHoldsTwoPlaces == WaitListSpec => []EachOnce
<1>1. WaitInv => EachOnce
  BY ListsAreSequences, OneSlotEach DEF WaitInv, EachOnce
<1> QED
  BY <1>1, WaitListInvariant, PTL

-----------------------------------------------------------------------------
(* Slot, in any list. *)
SlotIn(s, p) == CHOOSE i \in DOMAIN s : s[i].playerGUID = p

LEMMA TheSlot ==
  ASSUME NEW s \in Seq(EntrySet), Distinct(s), NEW p \in Listed(s)
  PROVE  /\ SlotIn(s, p) \in DOMAIN s /\ s[SlotIn(s, p)].playerGUID = p
         /\ \A j \in DOMAIN s : s[j].playerGUID = p => j = SlotIn(s, p)
<1>1. \E i \in DOMAIN s : s[i].playerGUID = p
  BY DEF Listed
<1> QED
  BY <1>1, OneSlotEach DEF SlotIn

LEMMA BeforeIsAhead ==
  ASSUME NEW s \in Seq(EntrySet), Distinct(s), NEW p, NEW q
  PROVE  {p, q} \subseteq Listed(s) /\ SlotIn(s, p) < SlotIn(s, q) <=> Ahead(s, p, q)
<1>1. ASSUME p \in Listed(s), q \in Listed(s), SlotIn(s, p) < SlotIn(s, q)
      PROVE  Ahead(s, p, q)
  BY <1>1, TheSlot DEF Ahead
<1>2. ASSUME Ahead(s, p, q)
      PROVE  p \in Listed(s) /\ q \in Listed(s) /\ SlotIn(s, p) < SlotIn(s, q)
  <2>1. PICK i \in DOMAIN s, j \in DOMAIN s : i < j /\ s[i].playerGUID = p /\ s[j].playerGUID = q
    BY <1>2 DEF Ahead
  <2>2. p \in Listed(s) /\ q \in Listed(s)
    BY <2>1 DEF Listed
  <2>3. i = SlotIn(s, p) /\ j = SlotIn(s, q)
    BY <2>1, <2>2, TheSlot
  <2> QED
    BY <2>1, <2>2, <2>3
<1> QED
  BY <1>1, <1>2

(* The entry of a client that is kept is live, so that clientLogin finds it. *)
LEMMA KeptAreFound ==
  ASSUME WaitInv, NEW p \in Kept
  PROVE  p \in Listed(Cleaned)
<1>1. p \in Listed(Line) /\ Line[Slot(p)].left # 0
  BY DEF Kept, InLine, Listed
<1>2. Slot(p) \in DOMAIN Line /\ Line[Slot(p)].playerGUID = p
  BY <1>1, TheSlot, ListsAreSequences DEF Slot, SlotIn, WaitInv
<1>3. Slot(p) \in Live(Line)
  BY <1>1, <1>2 DEF Live
<1> QED
  BY <1>2, <1>3, CleaningKeepsOrder, ListsAreSequences DEF Line, Cleaned

(* Two that are distinct and both in the line are in some order. *)
LEMMA SomeOrder ==
  ASSUME NEW s \in Seq(EntrySet), NEW p \in Listed(s), NEW q \in Listed(s), p # q
  PROVE  Ahead(s, p, q) \/ Ahead(s, q, p)
<1>1. PICK i \in DOMAIN s : s[i].playerGUID = p
  BY DEF Listed
<1>2. PICK j \in DOMAIN s : s[j].playerGUID = q
  BY DEF Listed
<1>3. i < j \/ j < i
  <2>1. i # j
    BY <1>1, <1>2
  <2>2. i \in Nat /\ j \in Nat
    BY LenProperties
  <2> QED
    BY <2>1, <2>2
<1> QED
  BY <1>1, <1>2, <1>3 DEF Ahead

(* Ahead is irreflexive and asymmetric on a line of distinct entries. *)
LEMMA OneOrder ==
  ASSUME NEW s \in Seq(EntrySet), Distinct(s), NEW p, NEW q, Ahead(s, p, q)
  PROVE  p # q /\ ~Ahead(s, q, p)
<1>1. \A x, y : Ahead(s, x, y) => x \in Listed(s) /\ y \in Listed(s) /\ SlotIn(s, x) < SlotIn(s, y)
  BY BeforeIsAhead
<1>2. DOMAIN s \subseteq Nat
  <2>1. DOMAIN s = 1 .. Len(s)
    BY LenProperties
  <2> QED
    BY <2>1
<1>3. \A x \in Listed(s) : SlotIn(s, x) \in Nat
  BY <1>2, TheSlot
<1> QED
  BY <1>1, <1>3

(* Clients that stay in the list stay in their order: whatever the others do,   *)
(* and however their own time-outs are renewed, none is put behind one that was *)
(* behind it, as long as its entry has not run out.                             *)
THEOREM TheOrderIsKept == WaitListSpec => OrderIsKept
<1> DEFINE Orders == \A p, q \in Guid :
                       Before(p, q) /\ {p, q} \subseteq Kept /\ {p, q} \subseteq InLine'
                         => Before(p, q)'
<1>1. ASSUME WaitInv, WaitInv', [WaitListNext]_waitListVars
      PROVE  Orders
  <2> SUFFICES ASSUME NEW p \in Guid, NEW q \in Guid, Before(p, q),
                      {p, q} \subseteq Kept, {p, q} \subseteq InLine'
               PROVE  Before(p, q)'
    OBVIOUS
  <2>1. Line \in Seq(EntrySet) /\ Line' \in Seq(EntrySet) /\ Distinct(Line) /\ Distinct(Line')
    <3>1. priorityWaitList' \in Seq(EntrySet) /\ waitList' \in Seq(EntrySet)
      BY <1>1, NextKeepsOrder
    <3> QED
      BY <1>1, <3>1, LineOfTheNext, ListsAreSequences DEF WaitInv
  <2>2. Ahead(Line, p, q)
    BY <2>1, BeforeIsAhead DEF Before, InLine, Slot, SlotIn, Listed
  <2>3. p # q /\ ~Ahead(Line, q, p)
    BY <2>1, <2>2, OneOrder
  <2>4. p \in Listed(Line') /\ q \in Listed(Line')
    BY DEF InLine, Listed
  <2>5. ~Ahead(Line', q, p)
    <3>1. CASE KeepsOrder(Line', Line)
      BY <3>1, <2>3 DEF KeepsOrder
    <3>2. ASSUME NEW r \in Guid, JoinsTheLine(r)
          PROVE  ~Ahead(Line', q, p)
      <4>1. p # r /\ q # r
        BY <1>1, <3>2, KeptAreFound DEF JoinsTheLine
      <4> QED
        BY <4>1, <3>2, <2>3 DEF JoinsTheLine, KeepsOrderBut
    <3> QED
      BY <3>1, <3>2, <1>1, NextKeepsOrder
  <2>6. Ahead(Line', p, q)
    BY <2>1, <2>3, <2>4, <2>5, SomeOrder
  <2>7. {p, q} \subseteq Listed(Line') /\ SlotIn(Line', p) < SlotIn(Line', q)
    BY <2>1, <2>6, BeforeIsAhead
  <2> QED
    BY <2>7 DEF Before, InLine, Slot, SlotIn, Listed
<1>2. WaitInv /\ WaitInv' /\ [WaitListNext]_waitListVars => [Orders]_waitListVars
  BY <1>1
<1> QED
  BY <1>2, WaitListInvariant, PTL DEF WaitListSpec, OrderIsKept

(* A client is let in only when those before it would all fit too. *)
LEMMA LiveAheadFit ==
  ASSUME WaitInv, NEW k \in DOMAIN Cleaned, NEW p, Cleaned[k].playerGUID = p
  PROVE  /\ p \in InLine
         /\ Cardinality({i \in 1 .. Slot(p) - 1 : Line[i].left # 0}) \in Nat
         /\ Cardinality({i \in 1 .. Slot(p) - 1 : Line[i].left # 0}) <= k - 1
<1> DEFINE a == priorityWaitList
           b == waitList
           ahead == {i \in 1 .. Slot(p) - 1 : Line[i].left # 0}
           f == [i \in ahead |-> Pos(a, b, i)]
<1>1. /\ Cleaned \in Seq(EntrySet) /\ Line \in Seq(EntrySet) /\ Distinct(Line)
      /\ \A i \in Live(Line) : Pos(a, b, i) \in DOMAIN Cleaned /\ Cleaned[Pos(a, b, i)] = Line[i]
      /\ \A i, j \in Live(Line) : i < j => Pos(a, b, i) < Pos(a, b, j)
      /\ \A l \in DOMAIN Cleaned : \E i \in Live(Line) : Pos(a, b, i) = l
  BY PlacesOfTheLive, ListsAreSequences DEF Line, Cleaned, WaitInv
<1>2. DOMAIN Cleaned = 1 .. Len(Cleaned) /\ DOMAIN Line = 1 .. Len(Line)
      /\ Len(Cleaned) \in Nat /\ Len(Line) \in Nat
  BY <1>1, LenProperties
<1>3. PICK s \in Live(Line) : Pos(a, b, s) = k
  BY <1>1
<1>4. s \in DOMAIN Line /\ Line[s].playerGUID = p
  BY <1>1, <1>3 DEF Live
<1>5. p \in InLine
  BY <1>4 DEF InLine
<1>6. s = Slot(p)
  <2>1. p \in Listed(Line)
    BY <1>4 DEF Listed
  <2> QED
    BY <2>1, <1>1, <1>4, TheSlot DEF Slot, SlotIn
<1>7. ahead \subseteq Live(Line) /\ ahead \subseteq Nat /\ \A i \in ahead : i < s
  BY <1>2, <1>4, <1>6 DEF Live
<1>8. \A i \in ahead : Pos(a, b, i) \in 1 .. k - 1
  <2> SUFFICES ASSUME NEW i \in ahead
               PROVE  Pos(a, b, i) \in 1 .. k - 1
    OBVIOUS
  <2>1. Pos(a, b, i) \in DOMAIN Cleaned /\ Pos(a, b, i) < k
    BY <1>1, <1>3, <1>7
  <2> QED
    BY <2>1, <1>2
<1>9. f \in Injection(ahead, 1 .. k - 1)
  <2>1. f \in [ahead -> 1 .. k - 1]
    BY <1>8
  <2>2. ASSUME NEW i \in ahead, NEW j \in ahead, f[i] = f[j]
        PROVE  i = j
    <3>1. Pos(a, b, i) = Pos(a, b, j) /\ Pos(a, b, i) \in Nat
      BY <2>2, <1>2, <1>8
    <3>2. ~(i < j) /\ ~(j < i)
      BY <3>1, <1>1, <1>7
    <3> QED
      BY <3>2, <1>7
  <2> QED
    BY <2>1, <2>2 DEF Injection, IsInjective
<1>10. IsFiniteSet(1 .. k - 1) /\ Cardinality(1 .. k - 1) = k - 1
  <2>1. k \in Nat /\ k >= 1
    BY <1>2
  <2>2. 1 \in Int /\ k - 1 \in Int
    BY <2>1
  <2>3. /\ IsFiniteSet(1 .. k - 1)
        /\ Cardinality(1 .. k - 1) = IF 1 > k - 1 THEN 0 ELSE (k - 1) - 1 + 1
    BY <2>2, FS_Interval
  <2> QED
    BY <2>1, <2>3
<1>11. IsFiniteSet(ahead) /\ Cardinality(ahead) <= k - 1
  BY <1>9, <1>10, FS_Injection
<1> QED
  BY <1>5, <1>11, FS_CardinalityType

(* A place in the game is kept for everyone ahead: whoever leaves the list for  *)
(* the game leaves a free place for each client before it whose entry has not   *)
(* run out, and nobody but game masters and the like passes the list.           *)
THEOREM PlacesAreKept == WaitListSpec => PlacesAheadAreKept
<1> DEFINE Fits(p) == /\ p \in InLine /\ p \notin InLine' =>
                           Cardinality(playersOnline')
                             + Cardinality({i \in 1 .. Slot(p) - 1 : Line[i].left # 0})
                             <= MaxPlayers
                      /\ (\E premium \in BOOLEAN : ClientLogin(p, premium))
                           => p \in InLine \/ Line = <<>>
<1>1. ASSUME WaitInv, [WaitListNext]_waitListVars, NEW p \in Admitted
      PROVE  Fits(p)
  <2>1. ASSUME NEW r \in Guid, NEW premium \in BOOLEAN, ClientLogin(r, premium)
        PROVE  Fits(p) /\ (r = p => p \in InLine \/ Line = <<>>)
    <3>1. CASE GoesStraightIn(r)
      <4>1. Line = <<>> /\ InLine = {}
        BY <3>1 DEF GoesStraightIn, Line, InLine
      <4> QED
        BY <4>1
    <3>2. ASSUME FirstSlot(r) \in DOMAIN Cleaned, FirstSlot(r) \in Nat,
                 Cleaned[FirstSlot(r)].playerGUID = r,
                 LetIn(r, FirstSlot(r), CleanupList(priorityWaitList), CleanupList(waitList))
          PROVE  Fits(p) /\ (r = p => p \in InLine \/ Line = <<>>)
      <4>1. p = r
        BY <3>2 DEF LetIn, Place, Admitted
      <4> DEFINE n == Cardinality({i \in 1 .. Slot(p) - 1 : Line[i].left # 0})
      <4>2. p \in InLine /\ n \in Nat /\ n <= FirstSlot(r) - 1
        BY <1>1, <3>2, <4>1, LiveAheadFit
      <4>3. /\ Cardinality(playersOnline') <= Cardinality(playersOnline) + 1
            /\ Cardinality(playersOnline') \in Nat /\ Cardinality(playersOnline) \in Nat
        BY <1>1, <3>2, PlaceKeepsTypes, ListsAreSequences DEF LetIn
      <4>4. Cardinality(playersOnline) + FirstSlot(r) <= MaxPlayers
        BY <3>2 DEF LetIn
      <4> HIDE DEF n
      <4>5. Cardinality(playersOnline') + n <= MaxPlayers
        BY <4>2, <4>3, <4>4, <3>2, WaitListAssumption
      <4> QED
        BY <4>2, <4>5 DEF n
    <3>3. ASSUME playersOnline' = playersOnline
          PROVE  FALSE
      BY <1>1, <3>3 DEF Admitted
    <3> QED
      BY <1>1, <2>1, <3>1, <3>2, <3>3, CasesOfClientLogin DEF WaitsLonger, Joins
  <2>2. ASSUME priorityWaitList' = priorityWaitList, waitList' = waitList
        PROVE  p \in InLine => p \in InLine'
    BY <2>2 DEF InLine, Line
  <2>3. ASSUME NEW premium \in BOOLEAN, ClientLogin(p, premium)
        PROVE  p \in InLine \/ Line = <<>>
    <3>1. p \in Guid
      BY <1>1, NextKeepsOrder DEF Admitted
    <3> QED
      BY <2>1, <2>3, <3>1
  <2>4. ASSUME NEW r \in Guid, StaffLogin(r) \/ RemovePlayer(r)
        PROVE  Fits(p)
    BY <2>2, <2>3, <2>4 DEF StaffLogin, RemovePlayer
  <2>5. ASSUME playersOnline' = playersOnline
        PROVE  FALSE
    BY <1>1, <2>5 DEF Admitted
  <2> QED
    BY <1>1, <2>1, <2>4, <2>5 DEF WaitListNext, Call, Tick, waitListVars
<1>2. WaitInv /\ [WaitListNext]_waitListVars => [\A p \in Admitted : Fits(p)]_waitListVars
  BY <1>1
<1> QED
  BY <1>2, WaitListInvariant, PTL DEF WaitListSpec, PlacesAheadAreKept
=============================================================================
