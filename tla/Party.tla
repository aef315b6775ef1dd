------------------------------- MODULE Party --------------------------------
(***************************************************************************)
(* Parties and their chat channel: src/engine/src/party.cpp, the handlers of *)
(* game.cpp that call it, what a Player keeps of it, and the map of party    *)
(* channels of chat.cpp.                                                     *)
(*                                                                           *)
(* A Party is an object on the heap that deletes itself; a member of PartyId *)
(* is an address, and a new Party may be put at the address of an old one.   *)
(* The party, its members, its invitees and the players hold raw pointers to *)
(* each other, which the operations below must keep in agreement.  All run   *)
(* on the dispatcher's thread, one after the other.                          *)
(***************************************************************************)
EXTENDS Naturals, Sequences, SequencesExt

CONSTANTS
  Player,    \* the characters
  PartyId,   \* the addresses parties are allocated at
  NoPlayer,  \* a null Player*, and the leader of an address that holds no party
  NoParty    \* a null Party*

ASSUME PartyAssumption == NoPlayer \notin Player /\ NoParty \notin PartyId

VARIABLES
  online,    \* the players in the game
  game,      \* the pointers: see Links
  channels,  \* the addresses Chat::partyChannels has a channel for
  users      \* the users of each of those channels

vars == <<online, game, channels, users>>

(* What the objects say of each other. *)
Links ==
  [party       : [Player -> PartyId \cup {NoParty}],  \* Player::party
   invitations : [Player -> SUBSET PartyId],          \* Player::invitePartyList
   leader      : [PartyId -> Player \cup {NoPlayer}], \* Party::leader
   memberList  : [PartyId -> Seq(Player)],            \* Party::memberList
   inviteList  : [PartyId -> SUBSET Player]]          \* Party::inviteList

Init ==
  /\ online = {}
  /\ game = [party       |-> [p \in Player |-> NoParty],
             invitations |-> [p \in Player |-> {}],
             leader      |-> [q \in PartyId |-> NoPlayer],
             memberList  |-> [q \in PartyId |-> <<>>],
             inviteList  |-> [q \in PartyId |-> {}]]
  /\ channels = {}
  /\ users = [q \in PartyId |-> {}]

Members(g, q) == ToSet(g.memberList[q])
Exists(g, q) == g.leader[q] # NoPlayer
Empty(g, q) == g.memberList[q] = <<>> /\ g.inviteList[q] = {}
Leads(g, p) == g.party[p] # NoParty /\ g.leader[g.party[p]] = p
IsInviting(g, p, i) == Leads(g, p) /\ i \in g.inviteList[g.party[p]]

(***************************************************************************)
(* Party's own operations, as functions of the pointers                      *)
(***************************************************************************)
Dissolve(g, Q) ==
  [party       |-> [p \in Player |->
                      IF \E q \in Q : p = g.leader[q] \/ p \in Members(g, q)
                        THEN NoParty ELSE g.party[p]],
   invitations |-> g.invitations,
   leader      |-> [q \in PartyId |-> IF q \in Q THEN NoPlayer ELSE g.leader[q]],
   memberList  |-> [q \in PartyId |-> IF q \in Q THEN <<>> ELSE g.memberList[q]],
   inviteList  |-> [q \in PartyId |-> IF q \in Q THEN {} ELSE g.inviteList[q]]]

(* disband() of each party of Q, as the shipped onDisband script allows it. *)
Disband(g, Q) ==
  [Dissolve(g, Q) EXCEPT
     !.invitations = [p \in Player |-> @[p] \ {q \in Q : p \in g.inviteList[q]}]]

(* removeInvite(p) by each party of Q, the empty ones among them disbanding. *)
Uninvite(g, Q, p) ==
  [g EXCEPT !.inviteList  = [q \in PartyId |-> IF q \in Q THEN @[q] \ {p} ELSE @[q]],
            !.invitations[p] = @ \ Q]

RemoveInvite_NeverDisbands(g, Q, p) == Uninvite(g, Q, p)

RemoveInvite(g, Q, p) ==
  LET h == Uninvite(g, Q, p)
  IN Disband(h, {q \in Q : p \in g.inviteList[q] /\ Empty(h, q)})

ClearPartyInvitations(g, p) == RemoveInvite(g, g.invitations[p], p)

InvitePlayer(g, q, i) ==
  [g EXCEPT !.inviteList[q] = @ \cup {i}, !.invitations[i] = @ \cup {q}]

NewParty(g, q, p) == [g EXCEPT !.party[p] = q, !.leader[q] = p]

PassPartyLeadership_StaysMember(g, q, p) ==
  [g EXCEPT !.leader[q] = p, !.memberList[q] = <<g.leader[q]>> \o @]

PassPartyLeadership(g, q, p) ==
  [g EXCEPT !.leader[q] = p, !.memberList[q] = <<g.leader[q]>> \o RemoveFirst(@, p)]

AddMember(g, q, p) ==
  ClearPartyInvitations([g EXCEPT !.memberList[q] = Append(@, p), !.party[p] = q], p)

JoinParty_LeaderCourted(g, q, p) == AddMember(g, q, p)

(* The leader gives up his own invitations when the first member joins. *)
JoinParty(g, q, p) ==
  LET h == IF g.memberList[q] = <<>> THEN ClearPartyInvitations(g, g.leader[q]) ELSE g
  IN AddMember(h, q, p)

(* The party cannot go on without p. *)
MissingLeader(g, q, p) ==
  /\ g.leader[q] = p
  /\ \/ g.memberList[q] = <<>>
     \/ Len(g.memberList[q]) = 1 /\ g.inviteList[q] = {}

LeaveParty(g, q, p) ==
  LET passes == g.leader[q] = p /\ ~MissingLeader(g, q, p)
      led  == IF passes THEN PassPartyLeadership(g, q, Head(g.memberList[q])) ELSE g
      left == [led EXCEPT !.memberList[q] = RemoveFirst(@, p), !.party[p] = NoParty]
  IN IF MissingLeader(g, q, p) \/ Empty(left, q) THEN Disband(left, {q}) ELSE left

-----------------------------------------------------------------------------
(***************************************************************************)
(* The chat channel of a party                                              *)
(***************************************************************************)
(* getChannel(player, CHANNEL_PARTY): found through the player's own party.  *)
HasChannel(g, p) == g.party[p] \in channels

RemoveUserFromChannel(g, P) ==
  users' = [q \in PartyId |->
              users[q] \ {p \in P : HasChannel(g, p) /\ g.party[p] = q}]

(* Player::sendClosePrivate is called when setParty(nullptr) has been: the   *)
(* players whose party goes are not found in its channel, and stay there.    *)
Change(g) ==
  /\ game' = g
  /\ UNCHANGED <<online, channels>>
  /\ RemoveUserFromChannel(g, {p \in Player : game.party[p] # NoParty /\ g.party[p] = NoParty})

(* getChannelList, when the player asks for the channels there are. *)
PlayerRequestChannels(p) ==
  /\ p \in online
  /\ game.party[p] # NoParty
  /\ ~HasChannel(game, p)
  /\ channels' = channels \cup {game.party[p]}
  /\ UNCHANGED <<online, game, users>>

PlayerOpenChannel(p) ==
  /\ p \in online
  /\ HasChannel(game, p)
  /\ p \notin users[game.party[p]]
  /\ users' = [users EXCEPT ![game.party[p]] = @ \cup {p}]
  /\ UNCHANGED <<online, game, channels>>

PlayerCloseChannel(p) ==
  /\ p \in online
  /\ HasChannel(game, p)
  /\ p \in users[game.party[p]]
  /\ RemoveUserFromChannel(game, {p})
  /\ UNCHANGED <<online, game, channels>>

(* connect() of a client that takes over the character. *)
Reconnect(p) ==
  /\ p \in online
  /\ \E q \in PartyId : p \in users[q]
  /\ users' = [q \in PartyId |-> users[q] \ {p}]
  /\ UNCHANGED <<online, game, channels>>

(***************************************************************************)
(* What players ask for                                                     *)
(***************************************************************************)
Login(p) ==
  /\ p \notin online
  /\ online' = online \cup {p}
  /\ UNCHANGED <<game, channels, users>>

PlayerInviteToParty(p, i) ==
  /\ {p, i} \subseteq online /\ p # i
  /\ ~IsInviting(game, i, p)
  /\ game.party[i] = NoParty
  /\ ~IsInviting(game, p, i)
  /\ \/ Leads(game, p) /\ Change(InvitePlayer(game, game.party[p], i))
     \/ /\ game.party[p] = NoParty
        /\ \E q \in PartyId :
             ~Exists(game, q) /\ Change(InvitePlayer(NewParty(game, q, p), q, i))

PlayerJoinParty(p, l) ==
  /\ {p, l} \subseteq online
  /\ IsInviting(game, l, p)
  /\ game.party[p] = NoParty
  /\ Change(JoinParty(game, game.party[l], p))

PlayerRevokePartyInvitation(p, i) ==
  /\ {p, i} \subseteq online
  /\ IsInviting(game, p, i)
  /\ Change(RemoveInvite(game, {game.party[p]}, i))

PlayerPassPartyLeadership(p, n) ==
  /\ {p, n} \subseteq online /\ p # n
  /\ Leads(game, p)
  /\ game.party[n] = game.party[p]
  /\ Change(PassPartyLeadership(game, game.party[p], n))

(* Refused to a player who is in a fight. *)
PlayerLeaveParty(p) ==
  /\ p \in online
  /\ game.party[p] # NoParty
  /\ Change(LeaveParty(game, game.party[p], p))

(* onRemoveCreature. *)
Logout(p) ==
  LET g == ClearPartyInvitations(game, p)
  IN /\ p \in online
     /\ game' = IF g.party[p] = NoParty THEN g ELSE LeaveParty(g, g.party[p], p)
     /\ users' = [q \in PartyId |-> users[q] \ {p}]
     /\ online' = online \ {p}
     /\ UNCHANGED channels

Next ==
  \/ \E p \in Player :
       \/ Login(p) \/ Logout(p) \/ Reconnect(p)
       \/ PlayerLeaveParty(p)
       \/ PlayerRequestChannels(p) \/ PlayerOpenChannel(p) \/ PlayerCloseChannel(p)
  \/ \E p, o \in Player :
       \/ PlayerInviteToParty(p, o) \/ PlayerJoinParty(p, o)
       \/ PlayerRevokePartyInvitation(p, o) \/ PlayerPassPartyLeadership(p, o)

Spec == Init /\ [][Next]_vars

-----------------------------------------------------------------------------
(* The variables have their types. *)
TypeOK ==
  /\ online \subseteq Player
  /\ game \in Links
  /\ channels \subseteq PartyId
  /\ users \in [PartyId -> SUBSET Player]

(* A party and its players agree: the players whose party pointer is q are    *)
(* its leader and its members, each of them once and all in the game.  So no  *)
(* pointer leads to a deleted party or to a player who has logged out.  The   *)
(* channels outlive the parties, and who leaves a party stays among the users *)
(* of its channel, but no player outlives his session there.                  *)
MembershipAgrees ==
  /\ TypeOK
  /\ \A q \in PartyId :
       /\ IsInjective(game.memberList[q])
       /\ game.leader[q] \notin Members(game, q)
       /\ {p \in Player : game.party[p] = q} =
            IF Exists(game, q) THEN {game.leader[q]} \cup Members(game, q) ELSE {}
  /\ \A p \in Player : game.party[p] # NoParty => p \in online
  /\ \A q \in PartyId : users[q] \subseteq online

(* An invitation is known to both sides, or to neither: a party that goes     *)
(* takes its invitations with it, and so does a player.  Nobody is invited to *)
(* his own party, and the players of a party with members hold no invitation. *)
InvitationsAgree ==
  /\ \A p \in Player, q \in PartyId :
       p \in game.inviteList[q] <=> q \in game.invitations[p]
  /\ \A p \in Player : game.invitations[p] # {} =>
       /\ p \in online
       /\ game.party[p] # NoParty => game.memberList[game.party[p]] = <<>>
       /\ \A q \in game.invitations[p] : Exists(game, q) /\ game.party[p] # q

(* A party in which the leader is alone and has invited nobody does not last: *)
(* whoever leaves, declines or logs out, its leader is free to join another.  *)
NoPartyIsIdle == \A q \in PartyId : Exists(game, q) => ~Empty(game, q)
=============================================================================
