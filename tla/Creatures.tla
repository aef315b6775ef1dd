------------------------------ MODULE Creatures ------------------------------
(***************************************************************************)
(* The life of players and monsters in the game: how they are placed and    *)
(* removed (game.cpp), whom a monster knows, serves and attacks             *)
(* (monster.cpp, creature.cpp), and the check lists that let it think and    *)
(* die.                                                                     *)
(*                                                                          *)
(* Creatures count the references to them and delete themselves.  All this  *)
(* runs in the dispatcher; an operation is one step.  The lists are one set  *)
(* here, and checkCreatures deals with one creature in a step: each of its  *)
(* passes is taken as one over a list of one, cleanup included.  Whom a     *)
(* monster selects when it thinks or something moves comes as a step of its *)
(* own (Attack), as it depends on much that is not here.                    *)
(*                                                                          *)
(* Positions are rooms: who is in the same one is seen.  Conditions (with   *)
(* them invisibility, which only ends an attack), pets, groups, the death of *)
(* players and the spawns are left out, as is the reference of a client     *)
(* (Session).                                                               *)
(***************************************************************************)
EXTENDS Integers, Sequences, FiniteSets, SequencesExt

CONSTANTS
  Players, Monsters,   \* the objects, each created once
  Rooms,
  MaxAttackers,        \* bound: so many on the map attack when an attack begins
  None                 \* nullptr; no position yet

ASSUME CreaturesAssumption ==
  /\ IsFiniteSet(Players) /\ IsFiniteSet(Monsters) /\ MaxAttackers \in Nat \ {0}
  /\ Players \cap Monsters = {} /\ None \notin Players \cup Monsters \cup Rooms

Creature == Players \cup Monsters

VARIABLE world   \* the objects: see World

World ==
  [room     : [Creature -> Rooms \cup {None}],     \* Creature::position
   placed   : SUBSET Creature,                     \* on the map
   removed  : SUBSET Creature,                     \* isInternalRemoved
   dying    : SUBSET Monsters,                     \* health is 0
   refs     : [Creature -> Nat],                   \* referenceCounter
   freed    : SUBSET Creature,
   listed   : SUBSET Creature,                     \* Game::checkCreatureLists
   checked  : SUBSET Creature,                     \* creatureCheck
   releases : [Creature -> Nat],                   \* Game::ToReleaseCreatures
   targets  : [Creature -> SUBSET Creature],       \* Monster::targetList
   friends  : [Creature -> SUBSET Creature],       \* Monster::friendList
   attacked : [Creature -> Creature \cup {None}],  \* attackedCreature
   master   : [Creature -> Creature \cup {None}],
   summons  : [Creature -> SUBSET Creature]]

(* The orders in which a set of spectators may be gone through. *)
Orders == [S \in SUBSET Creature |-> SetToSeqs(S)]

(* What F makes of w, called in this order for those of S: F[s] is what the     *)
(* call for s makes of a world.                                                 *)
InTurn(F, w, order, S) ==
  LET after[i \in 0 .. Len(order)] ==
        IF i = 0 THEN w
        ELSE IF order[i] \in S THEN F[order[i]][after[i - 1]] ELSE after[i - 1]
  IN after[Len(order)]

-----------------------------------------------------------------------------
(* Whom a creature attacks, its summons are told to attack, and so on: each by  *)
(* its master if that sees c; R would do for all who are told.                  *)
Sees(w, a, b) == w.room[a] = w.room[b]

Told(w, S, sees) ==
  {x \in Creature : \A R \in SUBSET Creature :
     S \subseteq R /\ (\A n \in R \cap sees : w.summons[n] \subseteq R) => x \in R}

SetAttackedCreature(w, s, c) ==
  LET sees == {x \in Creature : c = None \/ Sees(w, x, c)}
      told == Told(w, {s}, sees)
  IN [w EXCEPT !.attacked = [x \in Creature |->
        IF x \notin told THEN @[x] ELSE IF x \in sees THEN c ELSE None]]

-----------------------------------------------------------------------------
(* References.  With the last one a creature is deleted, and its destructor     *)
(* gives back those that it had of others: to its targets, its friends and its  *)
(* summons, which lose their master.                                            *)
Holds(S, c) == IF c \in S THEN 1 ELSE 0

Inc(w, c) == [w EXCEPT !.refs[c] = @ + 1]

Pointers(list, S, c) == Cardinality({n \in S : c \in list[n]})

Given(w, S, c) ==
  Pointers(w.targets, S, c) + Pointers(w.friends, S, c) + Pointers(w.summons, S, c)

(* The last one of c goes when so many are given back, and those that D has.    *)
Goes(w, back, D, c) == w.refs[c] \in 1 .. back[c] + Given(w, D, c)

Deleted(w, back) ==
  IF \A c \in Creature : w.refs[c] \notin 1 .. back[c] THEN {}
  ELSE {c \in Creature : \A D \in SUBSET Creature :
          (\A d \in Creature : Goes(w, back, D, d) => d \in D) => c \in D}

Without(list, D) == [c \in Creature |-> IF c \in D THEN {} ELSE list[c]]

Delete(w, D) ==
  LET freed == UNION {w.summons[d] : d \in D}
      calm  == D \cup Told(w, freed, Creature)
  IN [w EXCEPT
       !.refs     = [c \in Creature |-> IF c \in D THEN 0 ELSE @[c] - Given(w, D, c)],
       !.freed    = @ \cup D,
       !.room     = [c \in Creature |-> IF c \in D THEN None ELSE @[c]],
       !.targets  = Without(@, D),
       !.friends  = Without(@, D),
       !.summons  = Without(@, D),
       !.attacked = [c \in Creature |-> IF c \in calm THEN None ELSE @[c]],
       !.master   = [c \in Creature |-> IF c \in freed THEN None ELSE @[c]]]

GiveBack(w, back) ==
  LET D == Deleted(w, back)
      v == [w EXCEPT !.refs = [c \in Creature |-> @[c] - back[c]]]
  IN IF D = {} THEN v ELSE Delete(v, D)

Dec(w, c) == GiveBack(w, [d \in Creature |-> Holds({c}, d)])

ClearLists(w, m) ==
  GiveBack([w EXCEPT !.targets[m] = {}, !.friends[m] = {}],
           [c \in Creature |-> Holds(w.targets[m], c) + Holds(w.friends[m], c)])

TakeSummon(w, c, new) ==
  IF new = None THEN w ELSE Inc([w EXCEPT !.summons[new] = @ \cup {c}], c)

DropSummon(w, c, old) ==
  IF old # None /\ c \in w.summons[old]
  THEN Dec([w EXCEPT !.summons[old] = @ \ {c}], c) ELSE w

SetMaster(w, c, new) ==
  DropSummon([TakeSummon(w, c, new) EXCEPT !.master[c] = new], c, w.master[c])

-----------------------------------------------------------------------------
(* The check lists. *)
AddCreatureCheck(w, c) ==
  IF c \in w.listed THEN [w EXCEPT !.checked = @ \cup {c}]
  ELSE Inc([w EXCEPT !.checked = @ \cup {c}, !.listed = @ \cup {c}], c)

RemoveCreatureCheck(w, c) ==
  IF c \in w.listed THEN [w EXCEPT !.checked = @ \ {c}] ELSE w

(* Monster::setIdle: nothing for a removed or dying one. *)
SetIdle(w, m, idle) ==
  IF m \in w.removed \cup w.dying THEN w
  ELSE IF idle THEN RemoveCreatureCheck(ClearLists(w, m), m)
  ELSE AddCreatureCheck(w, m)

UpdateIdleStatus(w, m) ==
  SetIdle(w, m, w.master[m] = None /\ w.targets[m] = {})

-----------------------------------------------------------------------------
(* Whom a monster knows. *)
Serves(w, m) == w.master[m] \in Players

IsFriend(w, m, c) ==
  IF Serves(w, m) THEN w.master[m] \in {c, w.master[c]}
  ELSE c \in Monsters /\ w.master[c] = None

IsOpponent(w, m, c) ==
  IF Serves(w, m) THEN c # w.master[m]
  ELSE c \in Players \/ Serves(w, c)

AddFriend(w, m, c) ==
  IF c \in w.friends[m] THEN w ELSE Inc([w EXCEPT !.friends[m] = @ \cup {c}], c)

RemoveFriend(w, m, c) ==
  IF c \in w.friends[m] THEN Dec([w EXCEPT !.friends[m] = @ \ {c}], c) ELSE w

AddTarget_CountedAgain(w, m, c) == Inc([w EXCEPT !.targets[m] = @ \cup {c}], c)

AddTarget(w, m, c) ==
  IF c \in w.targets[m] THEN w ELSE Inc([w EXCEPT !.targets[m] = @ \cup {c}], c)

RemoveTarget(w, m, c) ==
  IF c \in w.targets[m] THEN Dec([w EXCEPT !.targets[m] = @ \ {c}], c) ELSE w

FindFriend(w, m, c) == IF IsFriend(w, m, c) THEN AddFriend(w, m, c) ELSE w
FindOpponent(w, m, c) == IF IsOpponent(w, m, c) THEN AddTarget(w, m, c) ELSE w
OnCreatureFound(w, m, c) == UpdateIdleStatus(FindOpponent(FindFriend(w, m, c), m, c), m)

CalmDown(w, m) == IF w.targets[m] = {} THEN UpdateIdleStatus(w, m) ELSE w
LoseFriend(w, m, c) == IF IsFriend(w, m, c) THEN RemoveFriend(w, m, c) ELSE w
LoseOpponent(w, m, c) ==
  IF IsOpponent(w, m, c) THEN CalmDown(RemoveTarget(w, m, c), m) ELSE w
OnCreatureLeave(w, m, c) == LoseOpponent(LoseFriend(w, m, c), m, c)

Spectators(w, rooms) == {c \in w.placed : w.room[c] \in rooms}

(* Who is dying or out of range is forgotten, who is around is met. *)
Stale(w, m, S) == {c \in S : c \in w.dying \/ ~Sees(w, m, c)}

ForgetStale(w, m) ==
  LET t == Stale(w, m, w.targets[m])
      f == Stale(w, m, w.friends[m])
  IN GiveBack([w EXCEPT !.targets[m] = @ \ t, !.friends[m] = @ \ f],
              [c \in Creature |-> Holds(t, c) + Holds(f, c)])

LookAround(w, order, m) ==
  InTurn([c \in Creature |-> [v \in World |-> OnCreatureFound(v, m, c)]], w,
         order, Spectators(w, {w.room[m]}) \ {m})

UpdateTargetList(w, order, m) == LookAround(ForgetStale(w, m), order, m)

-----------------------------------------------------------------------------
(* Placing, removing and moving, with what the spectators make of it. *)
OnCreatureAppear(w, order, s, c) ==
  IF s \in Players THEN w
  ELSE IF s = c THEN UpdateIdleStatus(UpdateTargetList(w, order, s), s)
  ELSE OnCreatureFound(w, s, c)

InternalPlaceCreature(w, c, r) ==
  Inc([w EXCEPT !.placed = @ \cup {c}, !.room[c] = r], c)

TellAppearance(w, order, c) ==
  InTurn([s \in Creature |-> [v \in World |-> OnCreatureAppear(v, order, s, c)]], w,
         order, Spectators(w, {w.room[c]}))

PlaceCreature(w, order, c, r, master) ==
  LET v == InternalPlaceCreature(w, c, r)
  IN AddCreatureCheck(
       TellAppearance(IF master = None THEN v ELSE SetMaster(v, c, master), order, c), c)

OnCreatureDisappear(w, s, c) ==
  IF w.attacked[s] = c THEN SetAttackedCreature(w, s, None) ELSE w

LoseMaster(w, c) ==
  IF w.master[c] # None /\ w.master[c] \notin w.removed THEN SetMaster(w, c, None) ELSE w

OnRemoveCreature(w, s, c) ==
  LET v == OnCreatureDisappear(w, s, c)
  IN IF s \in Players THEN v
     ELSE IF s = c THEN SetIdle(LoseMaster(v, c), c, TRUE)
     ELSE OnCreatureLeave(v, s, c)

TellRemoval(w, order, c) ==
  InTurn([s \in Creature |-> [v \in World |-> OnRemoveCreature(v, s, c)]],
         [w EXCEPT !.placed = @ \ {c}], order, Spectators(w, {w.room[c]}))

Removed(w, c) ==
  RemoveCreatureCheck([w EXCEPT !.removed = @ \cup {c}, !.releases[c] = @ + 1], c)

RemoveAlone(w, order, c) == Removed(TellRemoval(w, order, c), c)

(* A removed creature's summons go after it, then theirs: n of a row at most.   *)
Removal(order) ==
  LET removal[n \in 0 .. Cardinality(Creature)] ==
        [c \in Creature |-> [v \in World |->
           IF c \in v.removed THEN v
           ELSE LET u == RemoveAlone(v, order, c)
                IN IF n = 0 THEN u ELSE InTurn(removal[n - 1], u, order, u.summons[c])]]
  IN removal[Cardinality(Creature)]

RemoveCreature(w, order, c) == Removal(order)[c][w]

(* Summons out of range go; an attack ends when one of the two goes out of      *)
(* sight.                                                                       *)
LosesSight_OwnSteps(w, s, c) ==
  w.attacked[s] # None /\ c = s /\ ~Sees(w, s, w.attacked[s])

LosesSight(w, s, c) ==
  w.attacked[s] # None /\ c \in {s, w.attacked[s]} /\ ~Sees(w, s, w.attacked[s])

LoseSight(w, s, c) == IF LosesSight(w, s, c) THEN SetAttackedCreature(w, s, None) ELSE w

LeaveSummons(w, order, s, c) ==
  IF s # c THEN w
  ELSE InTurn(Removal(order), w, order, {m \in w.summons[c] : ~Sees(w, c, m)})

MeetOrLeave(w, order, s, c) ==
  IF s \in Players THEN w
  ELSE UpdateIdleStatus(IF s = c THEN UpdateTargetList(w, order, s)
                        ELSE IF Sees(w, s, c) THEN OnCreatureFound(w, s, c)
                        ELSE OnCreatureLeave(w, s, c), s)

OnCreatureMove(w, order, s, c) ==
  MeetOrLeave(LoseSight(LeaveSummons(w, order, s, c), s, c), order, s, c)

MoveCreature(w, order, c, r) ==
  LET old == w.room[c]
      v == [w EXCEPT !.room[c] = r]
  IN InTurn([s \in Creature |-> [u \in World |-> OnCreatureMove(u, order, s, c)]], v,
            order, Spectators(v, {old, r}))

-----------------------------------------------------------------------------
(* Health and death of a monster: damage wakes it, so that it is checked.  *)
ChangeHealth_Asleep(w, m, lethal) ==
  [w EXCEPT !.dying = IF lethal THEN @ \cup {m} ELSE @]

ChangeHealth(w, m, lethal) ==
  [SetIdle(w, m, FALSE) EXCEPT !.dying = IF lethal THEN @ \cup {m} ELSE @]

(* changeHealth and removeMaster of each summon. *)
Wake(w, S) ==
  [w EXCEPT !.refs = [c \in Creature |-> @[c] + Holds(S \ w.listed, c)],
            !.checked = @ \cup S, !.listed = @ \cup S]

KillSummons(w, m) ==
  LET S == w.summons[m]
  IN GiveBack([Wake(w, S \ (w.removed \cup w.dying)) EXCEPT
                 !.dying = @ \cup S, !.summons[m] = {},
                 !.master = [c \in Creature |-> IF c \in S THEN None ELSE @[c]]],
              [c \in Creature |-> Holds(S, c)])

LeaveMaster(w, m) == IF w.master[m] = None THEN w ELSE SetMaster(w, m, None)

OnDeath(w, order, m) ==
  RemoveCreature(
    LeaveMaster(ClearLists(KillSummons(SetAttackedCreature(w, m, None), m), m), m), order, m)

Think(w, c) == IF c \in Monsters THEN UpdateIdleStatus(w, c) ELSE w

Cleanup(w) == GiveBack([w EXCEPT !.releases = [c \in Creature |-> 0]], w.releases)

-----------------------------------------------------------------------------
CreaturesInit ==
  /\ world = [room     |-> [c \in Creature |-> None],
              placed   |-> {}, removed |-> {}, dying |-> {}, freed |-> {},
              refs     |-> [c \in Creature |-> 0],
              listed   |-> {}, checked |-> {},
              releases |-> [c \in Creature |-> 0],
              targets  |-> [c \in Creature |-> {}],
              friends  |-> [c \in Creature |-> {}],
              attacked |-> [c \in Creature |-> None],
              master   |-> [c \in Creature |-> None],
              summons  |-> [c \in Creature |-> {}]]

New(c) == c \notin world.placed \cup world.removed

(* A player logs in; a script or a raid creates a monster. *)
Appear(order, c, r) == New(c) /\ world' = PlaceCreature(world, order, c, r, None)

(* Game.createMonster with a master, or a monster that summons another one. *)
Summon(order, m, c) ==
  /\ m \in Monsters /\ New(m) /\ c \in world.placed
  /\ \/ world' = PlaceCreature(world, order, m, world.room[c], c)
     \/ world' = SetMaster(PlaceCreature(world, order, m, world.room[c], None), m, c)

(* A logout or a kick; a script, or a monster whose time is over. *)
Leave(order, c) == c \in world.placed /\ world' = RemoveCreature(world, order, c)

Move(order, c, r) ==
  /\ c \in world.placed \ world.dying /\ r # world.room[c]
  /\ world' = Cleanup(MoveCreature(world, order, c, r))

(* creature:setMaster, as addSummon and removeSummon of the library call it: a  *)
(* player's spell convinces a monster, whoever it serves, or lets it go.        *)
ChangeMaster(m, new) ==
  /\ m \in world.placed /\ new \in {None} \cup (world.placed \cap Players)
  /\ new # world.master[m]
  /\ world' = SetMaster(world, m, new)

(* Whom a player or a script names; a monster's selectTarget. *)
Attack(s, c) ==
  /\ s \in world.placed /\ world.attacked[s] # c
  /\ c # None => Cardinality({x \in world.placed : world.attacked[x] # None}) < MaxAttackers
  /\ c # None =>
       /\ c \in world.placed \ {s}
       /\ s \in Monsters => c \in world.targets[s] \ world.dying
  /\ world' = SetAttackedCreature(world, s, c)

(* goToFollowCreature finds no way: a summon forgets whom it follows. *)
OnFollowCreatureComplete(m, c) ==
  /\ m \in world.placed /\ world.master[m] # None
  /\ c \in world.placed \cap world.targets[m]
  /\ world' = RemoveTarget(world, m, c)

Damage(m, lethal) ==
  m \in world.placed \ world.dying /\ world' = ChangeHealth(world, m, lethal)

(* checkCreatures comes to c, which thinks or is dropped, *)
CheckCreature(c) ==
  /\ c \in world.listed
  /\ c \in world.checked => c \notin world.dying
  /\ world' = Cleanup(
       IF c \in world.checked THEN Think(world, c)
       ELSE [world EXCEPT !.listed = @ \ {c}, !.releases[c] = @ + 1])

(* or dies. *)
Die(order, c) ==
  /\ c \in world.listed \cap world.checked \cap world.dying
  /\ world' = Cleanup(OnDeath(world, order, c))

In(r) == {c \in world.placed : world.room[c] = r}

CreaturesNext ==
  \/ \E order \in Orders[world.placed], c \in Creature :
       \/ Leave(order, c) \/ Die(order, c)
       \/ \E r \in Rooms : Move(order, c, r)
  \/ \E c \in Creature : CheckCreature(c)
  \/ \E n \in Creature, r \in Rooms : \E order \in Orders[In(r) \cup {n}] :
       \/ Appear(order, n, r)
       \/ \E c \in In(r) : Summon(order, n, c)
  \/ \E m \in Monsters, lethal \in BOOLEAN : Damage(m, lethal)
  \/ \E m \in Monsters, c \in Players \cup {None} : ChangeMaster(m, c)
  \/ \E m \in Monsters, c \in Creature : OnFollowCreatureComplete(m, c)
  \/ \E s \in Creature, c \in Creature \cup {None} : Attack(s, c)

CreaturesSpec == CreaturesInit /\ [][CreaturesNext]_world

-----------------------------------------------------------------------------
CreaturesTypeOK == world \in World

Expected(w, c) ==
  w.releases[c] + Holds(w.placed, c) + Holds(w.listed, c) + Given(w, Creature, c)

(* Every reference is counted and every count has its reference: whatever the  *)
(* order in which creatures see, serve, attack, kill and delete each other, a  *)
(* creature is deleted exactly when nothing that counts points to it, and no   *)
(* target list or summon keeps a pointer to it then.                           *)
CountsAreExact ==
  /\ CreaturesTypeOK
  /\ \A c \in Creature :
       /\ world.refs[c] = Expected(world, c)
       /\ c \in world.freed <=> ~New(c) /\ world.refs[c] = 0
       /\ \A n \in Creature : c \in world.summons[n] <=> world.master[c] = n
  /\ \A c \in world.freed : \A d \in Creature : c \notin {world.master[d]} \cup world.targets[d]

(* attackedCreature and master are pointers without a reference: whom a        *)
(* creature on the map attacks is on the map and in its sight, and so it was   *)
(* when it moved, was removed, or the attack was passed on to summons.         *)
AttackedIsHere ==
  \A c \in world.placed : world.attacked[c] # None =>
    world.attacked[c] \in world.placed /\ Sees(world, c, world.attacked[c])

(* Who must be looked after is: a monster on the map whose health is gone, and  *)
(* one that knows somebody to attack, has the flag that checkCreatures acts on  *)
(* and is in a list, however often it fell asleep, was dropped from its list or *)
(* woke up in between.  Nobody else kills it (Creature::onDeath has no other    *)
(* caller), and it would not think.                                             *)
NobodyIsForgotten ==
  \A m \in Monsters \cap world.placed :
    m \in world.dying \/ world.targets[m] # {} => m \in world.checked \cap world.listed
=============================================================================
