----------------------------- MODULE GameProofs ------------------------------
(***************************************************************************)
(* Proofs about what players and monsters are to each other: parties, for    *)
(* any players and any addresses of parties, and the life of creatures, for  *)
(* any finite sets of players and monsters and any rooms.                    *)
(***************************************************************************)
EXTENDS Party, Creatures, SequenceTheorems, NaturalsInduction, WellFoundedInduction,
        FiniteSetTheorems, FunctionTheorems, TLAPS

(***************************************************************************)
(* Lists without repetition, as memberList is one.                          *)
(***************************************************************************)
LEMMA LeastOfSome ==
  ASSUME NEW T \in SUBSET Nat, T # {}
  PROVE  Min(T) \in T /\ \A y \in T : Min(T) <= y
<1> DEFINE R == {pair \in Nat \X Nat : pair[1] < pair[2]}
<1>1. IsWellFoundedOn(R, Nat)
  BY NatLessThanWellFounded DEF OpToRel
<1>2. PICK x \in T : \A y \in T : <<y, x>> \notin R
  BY <1>1, WFMin
<1>3. \A y \in Nat : <<y, x>> \in R <=> y < x
  OBVIOUS
<1> HIDE DEF R
<1>4. ASSUME NEW y \in T
      PROVE  x <= y
  <2>1. x \in Nat /\ y \in Nat /\ ~(y < x)
    BY <1>2, <1>3
  <2> QED
    BY <2>1
<1> QED
  BY <1>4 DEF Min

LEMMA FirstIsRemoved ==
  ASSUME NEW S, NEW s \in Seq(S), NEW e \in ToSet(s)
  PROVE  \E k \in 1 .. Len(s) : s[k] = e /\ RemoveFirst(s, e) = RemoveAt(s, k)
<1> DEFINE T == {i \in 1 .. Len(s) : s[i] = e}
<1>1. PICK i \in 1 .. Len(s) : s[i] = e
  BY DEF ToSet
<1>2. T \in SUBSET Nat /\ T # {}
  BY <1>1
<1>3. RemoveFirst(s, e) = RemoveAt(s, Min(T))
  BY <1>1 DEF RemoveFirst, SelectInSeq
<1> HIDE DEF T
<1>4. Min(T) \in T
  BY <1>2, LeastOfSome
<1> QED
  BY <1>3, <1>4 DEF T

LEMMA OneIsRemoved ==
  ASSUME NEW S, NEW s \in Seq(S), NEW k \in 1 .. Len(s)
  PROVE  /\ RemoveAt(s, k) \in Seq(S)
         /\ Len(RemoveAt(s, k)) = Len(s) - 1
         /\ \A i \in 1 .. Len(s) - 1 :
              RemoveAt(s, k)[i] = IF i < k THEN s[i] ELSE s[i + 1]
<1> DEFINE a == SubSeq(s, 1, k - 1)
           b == SubSeq(s, k + 1, Len(s))
<1>1. /\ a \in Seq(S) /\ Len(a) = k - 1
      /\ \A i \in 1 .. k - 1 : a[i] = s[i]
  OBVIOUS
<1>2. /\ b \in Seq(S) /\ Len(b) = Len(s) - k
      /\ \A i \in 1 .. Len(s) - k : b[i] = s[i + k]
  OBVIOUS
<1> HIDE DEF a, b
<1>3. RemoveAt(s, k) = a \o b
  BY DEF RemoveAt, a, b
<1>4. /\ a \o b \in Seq(S) /\ Len(a \o b) = Len(s) - 1
      /\ \A i \in 1 .. Len(s) - 1 : (a \o b)[i] = IF i <= k - 1 THEN a[i] ELSE b[i - (k - 1)]
  BY <1>1, <1>2, ConcatProperties
<1>5. ASSUME NEW i \in 1 .. Len(s) - 1
      PROVE  (a \o b)[i] = IF i < k THEN s[i] ELSE s[i + 1]
  <2>1. CASE i < k
    BY <1>1, <1>4, <2>1
  <2>2. CASE i >= k
    <3>1. i - (k - 1) \in 1 .. Len(s) - k /\ i - (k - 1) + k = i + 1
      BY <2>2
    <3> QED
      BY <1>2, <1>4, <2>2, <3>1
  <2>3. i < k \/ i >= k
    OBVIOUS
  <2> QED
    BY <2>1, <2>2, <2>3
<1> QED
  BY <1>3, <1>4, <1>5

LEMMA RemovedOnce ==
  ASSUME NEW S, NEW s \in Seq(S), IsInjective(s), NEW e
  PROVE  /\ RemoveFirst(s, e) \in Seq(S)
         /\ IsInjective(RemoveFirst(s, e))
         /\ ToSet(RemoveFirst(s, e)) = ToSet(s) \ {e}
<1>1. CASE e \notin ToSet(s)
  <2>1. ~ \E i \in 1 .. Len(s) : s[i] = e
    BY <1>1 DEF ToSet
  <2>2. RemoveFirst(s, e) = s
    BY <2>1 DEF RemoveFirst
  <2> QED
    BY <1>1, <2>2
<1>2. CASE e \in ToSet(s)
  <2>1. PICK k \in 1 .. Len(s) : s[k] = e /\ RemoveFirst(s, e) = RemoveAt(s, k)
    BY <1>2, FirstIsRemoved
  <2> DEFINE r == RemoveAt(s, k)
  <2>2. /\ r \in Seq(S) /\ Len(r) = Len(s) - 1
        /\ \A i \in 1 .. Len(s) - 1 : r[i] = IF i < k THEN s[i] ELSE s[i + 1]
    BY OneIsRemoved
  <2> HIDE DEF r
  <2>3. IsInjective(r)
    <3> SUFFICES ASSUME NEW i \in 1 .. Len(s) - 1, NEW j \in 1 .. Len(s) - 1, r[i] = r[j]
                 PROVE  i = j
      BY <2>2 DEF IsInjective
    <3>1. \A m, n \in 1 .. Len(s) : s[m] = s[n] => m = n
      BY DEF IsInjective
    <3>2. /\ r[i] = s[IF i < k THEN i ELSE i + 1] /\ (IF i < k THEN i ELSE i + 1) \in 1 .. Len(s)
          /\ r[j] = s[IF j < k THEN j ELSE j + 1] /\ (IF j < k THEN j ELSE j + 1) \in 1 .. Len(s)
      BY <2>2
    <3>3. (IF i < k THEN i ELSE i + 1) = (IF j < k THEN j ELSE j + 1)
      BY <3>1, <3>2
    <3> QED
      BY <3>3
  <2>4. ToSet(r) \subseteq ToSet(s) \ {e}
    BY <2>1, <2>2 DEF ToSet, IsInjective
  <2>5. ASSUME NEW i \in 1 .. Len(s), i # k
        PROVE  s[i] \in ToSet(r)
    <3>1. CASE i < k
      <4>1. i \in 1 .. Len(s) - 1 /\ r[i] = s[i]
        BY <2>2, <3>1
      <4> QED
        BY <2>2, <4>1 DEF ToSet
    <3>2. CASE i > k
      <4>1. i - 1 \in 1 .. Len(s) - 1 /\ r[i - 1] = s[i]
        BY <2>2, <3>2
      <4> QED
        BY <2>2, <4>1 DEF ToSet
    <3> QED
      BY <2>5, <3>1, <3>2
  <2>6. ToSet(s) \ {e} \subseteq ToSet(r)
    BY <2>1, <2>5 DEF ToSet
  <2> QED
    BY <2>1, <2>2, <2>3, <2>4, <2>6 DEF r
<1> QED
  BY <1>1, <1>2

LEMMA AppendedOnce ==
  ASSUME NEW S, NEW s \in Seq(S), IsInjective(s), NEW e \in S \ ToSet(s)
  PROVE  /\ Append(s, e) \in Seq(S) /\ Append(s, e) # <<>>
         /\ IsInjective(Append(s, e))
         /\ ToSet(Append(s, e)) = ToSet(s) \cup {e}
<1> DEFINE r == Append(s, e)
<1>1. /\ r \in Seq(S) /\ r # <<>> /\ Len(r) = Len(s) + 1 /\ r[Len(s) + 1] = e
      /\ \A i \in 1 .. Len(s) : r[i] = s[i]
  BY AppendProperties
<1> HIDE DEF r
<1>2. IsInjective(r)
  BY <1>1 DEF IsInjective, ToSet
<1>3. ToSet(r) = ToSet(s) \cup {e}
  BY <1>1 DEF ToSet
<1> QED
  BY <1>1, <1>2, <1>3 DEF r

LEMMA PrependedOnce ==
  ASSUME NEW S, NEW s \in Seq(S), IsInjective(s), NEW e \in S \ ToSet(s)
  PROVE  /\ <<e>> \o s \in Seq(S) /\ <<e>> \o s # <<>>
         /\ IsInjective(<<e>> \o s)
         /\ ToSet(<<e>> \o s) = ToSet(s) \cup {e}
<1> DEFINE r == <<e>> \o s
<1>1. /\ r \in Seq(S) /\ Len(r) = Len(s) + 1 /\ r[1] = e
      /\ \A i \in 2 .. Len(s) + 1 : r[i] = s[i - 1]
      /\ \A i \in 1 .. Len(s) : r[i + 1] = s[i]
  OBVIOUS
<1> HIDE DEF r
<1>2. IsInjective(r)
  <2> SUFFICES ASSUME NEW i \in 1 .. Len(s) + 1, NEW j \in 1 .. Len(s) + 1, r[i] = r[j], i < j
               PROVE  FALSE
    BY <1>1 DEF IsInjective
  <2>1. r[j] = s[j - 1] /\ j - 1 \in 1 .. Len(s)
    BY <1>1
  <2>2. CASE i = 1
    BY <1>1, <2>1, <2>2 DEF ToSet
  <2>3. CASE i # 1
    <3>1. r[i] = s[i - 1] /\ i - 1 \in 1 .. Len(s)
      BY <1>1, <2>3
    <3> QED
      BY <2>1, <3>1 DEF IsInjective
  <2> QED
    BY <2>2, <2>3
<1>3. ToSet(s) \subseteq ToSet(r)
  <2> SUFFICES ASSUME NEW i \in 1 .. Len(s)
               PROVE  s[i] \in ToSet(r)
    BY DEF ToSet
  <2>1. i + 1 \in 1 .. Len(r) /\ r[i + 1] = s[i]
    BY <1>1
  <2> QED
    BY <1>1, <2>1 DEF ToSet
<1>4. ToSet(r) \subseteq ToSet(s) \cup {e} /\ e \in ToSet(r)
  BY <1>1 DEF ToSet
<1> QED
  BY <1>1, <1>3, <1>4, <1>2 DEF r

LEMMA NobodyInEmptyList ==
  /\ ToSet(<<>>) = {} /\ IsInjective(<<>>)
  /\ \A S : \A s \in Seq(S) : s # <<>> => Head(s) \in ToSet(s) /\ Head(s) \in S
BY DEF ToSet, IsInjective

LEMMA MembersAreTyped ==
  ASSUME NEW S, NEW s \in Seq(S)
  PROVE  ToSet(s) \subseteq S /\ (s = <<>> <=> ToSet(s) = {})
BY DEF ToSet

(***************************************************************************)
(* What the pointers say, and Party's own operations on them.               *)
(***************************************************************************)
(* A party and its players point to each other; a free address is blank. *)
Linked(g) ==
  /\ g \in Links
  /\ \A q \in PartyId :
       /\ IsInjective(g.memberList[q]) /\ g.leader[q] \notin Members(g, q)
       /\ ~Exists(g, q) => g.memberList[q] = <<>>
       /\ \A p \in Player : g.party[p] = q <=> p = g.leader[q] \/ p \in Members(g, q)

(* Invitations are known to both sides and come from parties there are. *)
Invited(g) ==
  \A p \in Player, q \in PartyId :
    /\ p \in g.inviteList[q] <=> q \in g.invitations[p]
    /\ q \in g.invitations[p] => Exists(g, q)

(* p may hold the invitations that it holds. *)
Courted(g, p) ==
  g.invitations[p] # {} =>
    /\ g.party[p] \notin g.invitations[p]
    /\ g.party[p] # NoParty => g.memberList[g.party[p]] = <<>>

Lasts(g, q) == Exists(g, q) => ~Empty(g, q)

(* Nobody but those of P has gained a party or an invitation. *)
NoneGained(g, h, P) ==
  \A p \in Player \ P :
    /\ h.party[p] \in {g.party[p], NoParty}
    /\ h.invitations[p] \subseteq g.invitations[p]

Agreed(g) ==
  /\ Linked(g) /\ Invited(g)
  /\ \A p \in Player : Courted(g, p)
  /\ \A q \in PartyId : Lasts(g, q)

LEMMA LinksAreTyped ==
  ASSUME NEW g \in Links
  PROVE  /\ \A p \in Player : g.party[p] \in PartyId \cup {NoParty} /\ g.invitations[p] \subseteq PartyId
         /\ \A q \in PartyId : /\ g.leader[q] \in Player \cup {NoPlayer}
                               /\ g.memberList[q] \in Seq(Player)
                               /\ g.inviteList[q] \subseteq Player
                               /\ Members(g, q) \subseteq Player
BY MembersAreTyped DEF Links, Members

LEMMA DisbandFields ==
  ASSUME NEW g \in Links, NEW Q \in SUBSET PartyId, NEW h, h = Disband(g, Q)
  PROVE  /\ h \in Links
         /\ \A p \in Player :
              /\ h.party[p] = IF \E q \in Q : p = g.leader[q] \/ p \in Members(g, q)
                              THEN NoParty ELSE g.party[p]
              /\ h.invitations[p] = g.invitations[p] \ {q \in Q : p \in g.inviteList[q]}
         /\ \A q \in PartyId :
              /\ h.leader[q] = IF q \in Q THEN NoPlayer ELSE g.leader[q]
              /\ h.memberList[q] = IF q \in Q THEN <<>> ELSE g.memberList[q]
              /\ h.inviteList[q] = IF q \in Q THEN {} ELSE g.inviteList[q]
<1> DEFINE d == Dissolve(g, Q)
<1>1. /\ g.party \in [Player -> PartyId \cup {NoParty}]
      /\ g.invitations \in [Player -> SUBSET PartyId]
      /\ g.leader \in [PartyId -> Player \cup {NoPlayer}]
      /\ g.memberList \in [PartyId -> Seq(Player)]
      /\ g.inviteList \in [PartyId -> SUBSET Player]
  BY DEF Links
<1>2. /\ d.invitations = g.invitations
      /\ d.party = [p \in Player |-> IF \E q \in Q : p = g.leader[q] \/ p \in Members(g, q)
                                     THEN NoParty ELSE g.party[p]]
      /\ d.leader = [q \in PartyId |-> IF q \in Q THEN NoPlayer ELSE g.leader[q]]
      /\ d.memberList = [q \in PartyId |-> IF q \in Q THEN <<>> ELSE g.memberList[q]]
      /\ d.inviteList = [q \in PartyId |-> IF q \in Q THEN {} ELSE g.inviteList[q]]
  BY DEF Dissolve
<1>3. d \in Links
  <2>1. <<>> \in Seq(Player)
    OBVIOUS
  <2> QED
    BY <1>1, <2>1 DEF Dissolve, Links
<1> DEFINE invitations == [p \in Player |-> g.invitations[p] \ {q \in Q : p \in g.inviteList[q]}]
<1>4. h = [d EXCEPT !.invitations = invitations]
  BY <1>2 DEF Disband
<1>5. invitations \in [Player -> SUBSET PartyId]
  BY <1>1
<1> HIDE DEF d
<1>6. /\ h \in Links /\ h.invitations = invitations
      /\ h.party = d.party /\ h.leader = d.leader
      /\ h.memberList = d.memberList /\ h.inviteList = d.inviteList
  <2> HIDE DEF invitations
  <2> QED
    BY <1>3, <1>4, <1>5 DEF Links
<1> QED
  BY <1>2, <1>6

(* To those who point to a party that goes it is as if it had never been. *)
LEMMA DisbandKeeps ==
  ASSUME NEW g, Linked(g), Invited(g), NEW Q \in SUBSET PartyId, NEW h, h = Disband(g, Q)
  PROVE  /\ Linked(h) /\ Invited(h)
         /\ \A p \in Player :
              /\ h.party[p] = IF g.party[p] \in Q THEN NoParty ELSE g.party[p]
              /\ h.invitations[p] = g.invitations[p] \ Q
              /\ Courted(g, p) => Courted(h, p)
         /\ \A q \in PartyId :
              /\ h.leader[q] = IF q \in Q THEN NoPlayer ELSE g.leader[q]
              /\ h.memberList[q] = IF q \in Q THEN <<>> ELSE g.memberList[q]
              /\ h.inviteList[q] = IF q \in Q THEN {} ELSE g.inviteList[q]
              /\ q \in Q \/ Lasts(g, q) => Lasts(h, q)
<1> USE PartyAssumption
<1>1. g \in Links
  BY DEF Linked
<1>2. /\ h \in Links
      /\ \A q \in PartyId :
           /\ h.leader[q] = IF q \in Q THEN NoPlayer ELSE g.leader[q]
           /\ h.memberList[q] = IF q \in Q THEN <<>> ELSE g.memberList[q]
           /\ h.inviteList[q] = IF q \in Q THEN {} ELSE g.inviteList[q]
  BY <1>1, DisbandFields
<1>3. ASSUME NEW p \in Player
      PROVE  /\ h.party[p] = IF g.party[p] \in Q THEN NoParty ELSE g.party[p]
             /\ h.invitations[p] = g.invitations[p] \ Q
  <2>1. (\E q \in Q : p = g.leader[q] \/ p \in Members(g, q)) <=> g.party[p] \in Q
    BY DEF Linked
  <2>2. {q \in Q : p \in g.inviteList[q]} = Q \cap g.invitations[p]
    BY DEF Invited
  <2> QED
    BY <1>1, <2>1, <2>2, DisbandFields
<1>4. Linked(h)
  <2> SUFFICES ASSUME NEW q \in PartyId
               PROVE  /\ IsInjective(h.memberList[q]) /\ h.leader[q] \notin Members(h, q)
                      /\ ~Exists(h, q) => h.memberList[q] = <<>>
                      /\ \A p \in Player : h.party[p] = q <=> p = h.leader[q] \/ p \in Members(h, q)
    BY <1>2 DEF Linked
  <2>1. CASE q \in Q
    <3>1. h.memberList[q] = <<>> /\ h.leader[q] = NoPlayer
      BY <1>2, <2>1
    <3>2. Members(h, q) = {} /\ IsInjective(h.memberList[q])
      BY <3>1, NobodyInEmptyList DEF Members
    <3>3. \A p \in Player : h.party[p] # q
      BY <1>3, <2>1
    <3> QED
      BY <3>1, <3>2, <3>3
  <2>2. CASE q \notin Q
    <3>1. h.memberList[q] = g.memberList[q] /\ h.leader[q] = g.leader[q]
      BY <1>2, <2>2
    <3>2. Members(h, q) = Members(g, q) /\ (Exists(h, q) <=> Exists(g, q))
      BY <3>1 DEF Members, Exists
    <3>3. \A p \in Player : h.party[p] = q <=> g.party[p] = q
      BY <1>3, <2>2
    <3> QED
      BY <3>1, <3>2, <3>3 DEF Linked
  <2> QED
    BY <2>1, <2>2
<1>5. Invited(h)
  BY <1>2, <1>3 DEF Invited, Exists
<1>6. ASSUME NEW p \in Player, Courted(g, p)
      PROVE  Courted(h, p)
  BY <1>1, <1>2, <1>3, <1>6, LinksAreTyped DEF Courted
<1>7. ASSUME NEW q \in PartyId, q \in Q \/ Lasts(g, q)
      PROVE  Lasts(h, q)
  BY <1>2, <1>7 DEF Lasts, Exists, Empty
<1> QED
  BY <1>2, <1>3, <1>4, <1>5, <1>6, <1>7

LEMMA UninviteKeeps ==
  ASSUME NEW g, Linked(g), Invited(g), NEW Q \in SUBSET PartyId, NEW p \in Player,
         NEW h, h = Uninvite(g, Q, p)
  PROVE  /\ Linked(h) /\ Invited(h)
         /\ h.party = g.party /\ h.leader = g.leader /\ h.memberList = g.memberList
         /\ h.invitations[p] = g.invitations[p] \ Q
         /\ \A r \in Player \ {p} : h.invitations[r] = g.invitations[r]
         /\ \A q \in PartyId : h.inviteList[q] = IF q \in Q THEN g.inviteList[q] \ {p} ELSE g.inviteList[q]
         /\ \A r \in Player : Courted(g, r) => Courted(h, r)
<1>1. g \in Links
  BY DEF Linked
<1>2. /\ g.invitations \in [Player -> SUBSET PartyId]
      /\ g.inviteList \in [PartyId -> SUBSET Player]
  BY <1>1 DEF Links
<1> DEFINE inviteList == [q \in PartyId |-> IF q \in Q THEN g.inviteList[q] \ {p} ELSE g.inviteList[q]]
           invitations == [g.invitations EXCEPT ![p] = @ \ Q]
<1>3. inviteList \in [PartyId -> SUBSET Player] /\ invitations \in [Player -> SUBSET PartyId]
  BY <1>2
<1>4. h = [g EXCEPT !.inviteList = inviteList, !.invitations = invitations]
  BY DEF Uninvite
<1>5. /\ h \in Links /\ h.inviteList = inviteList /\ h.invitations = invitations
      /\ h.party = g.party /\ h.leader = g.leader /\ h.memberList = g.memberList
  <2> HIDE DEF inviteList, invitations
  <2> QED
    BY <1>1, <1>3, <1>4 DEF Links
<1>6. /\ h.invitations[p] = g.invitations[p] \ Q
      /\ \A r \in Player \ {p} : h.invitations[r] = g.invitations[r]
      /\ \A q \in PartyId : h.inviteList[q] = IF q \in Q THEN g.inviteList[q] \ {p} ELSE g.inviteList[q]
  BY <1>2, <1>5
<1>7. Linked(h)
  BY <1>5 DEF Linked, Members, Exists
<1>8. Invited(h)
  BY <1>5, <1>6 DEF Invited, Exists
<1>9. ASSUME NEW r \in Player, Courted(g, r)
      PROVE  Courted(h, r)
  BY <1>5, <1>6, <1>9 DEF Courted
<1> QED
  BY <1>5, <1>6, <1>7, <1>8, <1>9

(* h is g without some parties of Q in which the leader was alone. *)
Trimmed(g, h, Q) ==
  /\ NoneGained(g, h, {})
  /\ \A r \in Player : Courted(g, r) => Courted(h, r)
  /\ \A r \in Player : h.party[r] # g.party[r] =>
       g.party[r] \in Q /\ g.memberList[g.party[r]] = <<>>
  /\ \A q \in PartyId : Lasts(g, q) => Lasts(h, q)
  /\ \A q \in PartyId : q \notin Q \/ g.memberList[q] # <<>> =>
       h.leader[q] = g.leader[q] /\ h.memberList[q] = g.memberList[q]
  /\ \A q \in PartyId \ Q : h.inviteList[q] = g.inviteList[q]

LEMMA RemoveInviteKeeps ==
  ASSUME NEW g, Linked(g), Invited(g), NEW Q \in SUBSET PartyId, NEW p \in Player,
         NEW h, h = RemoveInvite(g, Q, p)
  PROVE  /\ Linked(h) /\ Invited(h)
         /\ h.invitations[p] \subseteq g.invitations[p] \ Q
         /\ Trimmed(g, h, Q \cap g.invitations[p])
<1> DEFINE u == Uninvite(g, Q, p)
           D == {q \in Q : p \in g.inviteList[q] /\ Empty(u, q)}
<1>1. /\ Linked(u) /\ Invited(u)
      /\ u.party = g.party /\ u.leader = g.leader /\ u.memberList = g.memberList
      /\ u.invitations[p] = g.invitations[p] \ Q
      /\ \A r \in Player \ {p} : u.invitations[r] = g.invitations[r]
      /\ \A q \in PartyId : u.inviteList[q] = IF q \in Q THEN g.inviteList[q] \ {p} ELSE g.inviteList[q]
      /\ \A r \in Player : Courted(g, r) => Courted(u, r)
  BY UninviteKeeps
<1>2. h = Disband(u, D) /\ D \in SUBSET PartyId
  BY DEF RemoveInvite
<1>3. \A q \in D : q \in Q \cap g.invitations[p] /\ g.memberList[q] = <<>>
  BY <1>1 DEF Invited, Empty
<1>4. \A q \in PartyId : Lasts(g, q) => q \in D \/ Lasts(u, q)
  BY <1>1 DEF Lasts, Exists, Empty
<1> HIDE DEF u, D
<1>5. /\ Linked(h) /\ Invited(h)
      /\ \A r \in Player :
           /\ h.party[r] = IF u.party[r] \in D THEN NoParty ELSE u.party[r]
           /\ h.invitations[r] = u.invitations[r] \ D
           /\ Courted(u, r) => Courted(h, r)
      /\ \A q \in PartyId :
           /\ h.leader[q] = IF q \in D THEN NoPlayer ELSE u.leader[q]
           /\ h.memberList[q] = IF q \in D THEN <<>> ELSE u.memberList[q]
           /\ h.inviteList[q] = IF q \in D THEN {} ELSE u.inviteList[q]
           /\ q \in D \/ Lasts(u, q) => Lasts(h, q)
  BY <1>1, <1>2, DisbandKeeps
<1>6. NoneGained(g, h, {})
  BY <1>1, <1>5 DEF NoneGained
<1>7. ASSUME NEW q \in PartyId, q \notin g.invitations[p]
      PROVE  u.inviteList[q] = g.inviteList[q]
  <2>1. p \notin g.inviteList[q]
    BY <1>7 DEF Invited
  <2>2. g.inviteList[q] \ {p} = g.inviteList[q]
    BY <2>1
  <2> QED
    BY <1>1, <2>2
<1>8. /\ h.invitations[p] \subseteq g.invitations[p] \ Q
      /\ \A r \in Player : Courted(g, r) => Courted(h, r)
      /\ \A q \in PartyId : Lasts(g, q) => Lasts(h, q)
  BY <1>1, <1>4, <1>5
<1>9. \A q \in PartyId \ (Q \cap g.invitations[p]) : h.inviteList[q] = g.inviteList[q]
  BY <1>1, <1>3, <1>5, <1>7
<1>10. /\ \A q \in PartyId : q \notin Q \cap g.invitations[p] \/ g.memberList[q] # <<>> =>
            h.leader[q] = g.leader[q] /\ h.memberList[q] = g.memberList[q]
       /\ \A r \in Player : h.party[r] # g.party[r] =>
            g.party[r] \in Q \cap g.invitations[p] /\ g.memberList[g.party[r]] = <<>>
  BY <1>1, <1>3, <1>5
<1> QED
  BY <1>5, <1>6, <1>8, <1>9, <1>10 DEF Trimmed

LEMMA ClearKeeps ==
  ASSUME NEW g, Linked(g), Invited(g), NEW p \in Player,
         NEW h, h = ClearPartyInvitations(g, p)
  PROVE  /\ Linked(h) /\ Invited(h)
         /\ h.invitations[p] = {} /\ Courted(h, p)
         /\ Trimmed(g, h, g.invitations[p])
<1>1. g.invitations[p] \in SUBSET PartyId /\ h = RemoveInvite(g, g.invitations[p], p)
  BY LinksAreTyped DEF Linked, ClearPartyInvitations
<1>2. /\ Linked(h) /\ Invited(h)
      /\ h.invitations[p] \subseteq g.invitations[p] \ g.invitations[p]
      /\ Trimmed(g, h, g.invitations[p] \cap g.invitations[p])
  BY <1>1, RemoveInviteKeeps
<1>3. g.invitations[p] \cap g.invitations[p] = g.invitations[p]
  OBVIOUS
<1>4. h.invitations[p] = {} /\ Courted(h, p)
  BY <1>2 DEF Courted
<1> QED
  BY <1>2, <1>3, <1>4

(***************************************************************************)
(* Invitations, new parties and members.                                    *)
(***************************************************************************)
LEMMA NewPartyKeeps ==
  ASSUME NEW g, Agreed(g), NEW q \in PartyId, ~Exists(g, q),
         NEW p \in Player, g.party[p] = NoParty,
         NEW h, h = NewParty(g, q, p)
  PROVE  /\ Linked(h) /\ Invited(h) /\ Exists(h, q)
         /\ \A r \in Player : Courted(h, r)
         /\ \A o \in PartyId \ {q} : Lasts(h, o)
         /\ NoneGained(g, h, {p})
         /\ \A r \in Player \ {p} : h.party[r] = g.party[r]
<1> USE PartyAssumption
<1>1. g \in Links /\ Linked(g) /\ Invited(g)
  BY DEF Agreed, Linked
<1>2. /\ h \in Links
      /\ h.invitations = g.invitations /\ h.memberList = g.memberList /\ h.inviteList = g.inviteList
      /\ h.party[p] = q /\ \A r \in Player \ {p} : h.party[r] = g.party[r]
      /\ h.leader[q] = p /\ \A o \in PartyId \ {q} : h.leader[o] = g.leader[o]
  BY <1>1 DEF NewParty, Links
<1>3. \A o \in PartyId : Members(h, o) = Members(g, o)
  BY <1>2 DEF Members
<1>4. g.memberList[q] = <<>> /\ Members(g, q) = {} /\ g.leader[q] = NoPlayer
  BY <1>1, NobodyInEmptyList DEF Linked, Members, Exists
<1>5. p # NoPlayer
  OBVIOUS
<1>6. Linked(h)
  <2> SUFFICES ASSUME NEW o \in PartyId
               PROVE  /\ IsInjective(h.memberList[o]) /\ h.leader[o] \notin Members(h, o)
                      /\ ~Exists(h, o) => h.memberList[o] = <<>>
                      /\ \A r \in Player : h.party[r] = o <=> r = h.leader[o] \/ r \in Members(h, o)
    BY <1>2 DEF Linked
  <2>1. /\ IsInjective(g.memberList[o]) /\ g.leader[o] \notin Members(g, o)
        /\ ~Exists(g, o) => g.memberList[o] = <<>>
        /\ \A r \in Player : g.party[r] = o <=> r = g.leader[o] \/ r \in Members(g, o)
    BY <1>1 DEF Linked
  <2>2. CASE o = q
    BY <1>2, <1>3, <1>4, <1>5, <2>1, <2>2 DEF Exists
  <2>3. CASE o # q
    BY <1>2, <1>3, <2>1, <2>3 DEF Exists
  <2> QED
    BY <2>2, <2>3
<1>7. Exists(h, q) /\ \A o \in PartyId : Exists(g, o) => Exists(h, o)
  BY <1>2, <1>5 DEF Exists
<1>8. Invited(h)
  BY <1>1, <1>2, <1>7 DEF Invited
<1>9. ASSUME NEW r \in Player
      PROVE  Courted(h, r)
  <2>1. Courted(g, r) /\ q \notin g.invitations[r]
    BY <1>1 DEF Agreed, Invited
  <2> QED
    BY <1>2, <1>4, <2>1 DEF Courted
<1>10. ASSUME NEW o \in PartyId \ {q}
       PROVE  Lasts(h, o)
  BY <1>2 DEF Agreed, Lasts, Exists, Empty
<1>11. NoneGained(g, h, {p})
  BY <1>2 DEF NoneGained
<1> QED
  BY <1>2, <1>6, <1>7, <1>8, <1>9, <1>10, <1>11

LEMMA InvitePlayerKeeps ==
  ASSUME NEW g, Linked(g), Invited(g), \A r \in Player : Courted(g, r),
         NEW q \in PartyId, Exists(g, q), \A o \in PartyId \ {q} : Lasts(g, o),
         NEW i \in Player, g.party[i] = NoParty,
         NEW h, h = InvitePlayer(g, q, i)
  PROVE  Agreed(h) /\ NoneGained(g, h, {i})
<1> USE PartyAssumption
<1>1. g \in Links
  BY DEF Linked
<1>2. /\ h \in Links
      /\ h.party = g.party /\ h.leader = g.leader /\ h.memberList = g.memberList
      /\ h.invitations[i] = g.invitations[i] \cup {q}
      /\ \A r \in Player \ {i} : h.invitations[r] = g.invitations[r]
      /\ h.inviteList[q] = g.inviteList[q] \cup {i}
      /\ \A o \in PartyId \ {q} : h.inviteList[o] = g.inviteList[o]
  BY <1>1 DEF InvitePlayer, Links
<1>3. Linked(h)
  BY <1>2 DEF Linked, Members, Exists
<1>4. Invited(h)
  BY <1>2 DEF Invited, Exists
<1>5. \A r \in Player : Courted(h, r)
  BY <1>2 DEF Courted
<1>6. \A o \in PartyId : Lasts(h, o)
  BY <1>2 DEF Lasts, Exists, Empty
<1>7. NoneGained(g, h, {i})
  BY <1>2 DEF NoneGained
<1> QED
  BY <1>3, <1>4, <1>5, <1>6, <1>7 DEF Agreed

LEMMA PassKeeps ==
  ASSUME NEW g, Agreed(g), NEW q \in PartyId, Exists(g, q),
         NEW p \in Player, p \in Members(g, q),
         NEW h, h = PassPartyLeadership(g, q, p)
  PROVE  /\ Agreed(h) /\ h.party = g.party /\ h.invitations = g.invitations
         /\ h.leader[q] = p /\ Members(h, q) = (Members(g, q) \ {p}) \cup {g.leader[q]}
<1> USE PartyAssumption
<1>1. g \in Links /\ Linked(g) /\ Invited(g)
  BY DEF Agreed, Linked
<1> DEFINE old == g.leader[q]
           left == RemoveFirst(g.memberList[q], p)
           list == <<old>> \o left
<1>2. /\ g.memberList \in [PartyId -> Seq(Player)] /\ g.leader \in [PartyId -> Player \cup {NoPlayer}]
      /\ IsInjective(g.memberList[q]) /\ old \in Player \ Members(g, q)
  BY <1>1 DEF Links, Linked, Exists
<1>3. left \in Seq(Player) /\ IsInjective(left) /\ ToSet(left) = Members(g, q) \ {p}
  BY <1>2, RemovedOnce DEF Members
<1> HIDE DEF left
<1>4. /\ list \in Seq(Player) /\ list # <<>> /\ IsInjective(list)
      /\ ToSet(list) = (Members(g, q) \ {p}) \cup {old}
  BY <1>2, <1>3, PrependedOnce
<1> HIDE DEF list
<1>5. /\ h \in Links
      /\ h.party = g.party /\ h.invitations = g.invitations /\ h.inviteList = g.inviteList
      /\ h.leader[q] = p /\ \A o \in PartyId \ {q} : h.leader[o] = g.leader[o]
      /\ h.memberList[q] = list /\ \A o \in PartyId \ {q} : h.memberList[o] = g.memberList[o]
  <2> DEFINE leaders == [g.leader EXCEPT ![q] = p]
             lists == [g.memberList EXCEPT ![q] = list]
  <2>1. /\ leaders \in [PartyId -> Player \cup {NoPlayer}] /\ leaders[q] = p
        /\ \A o \in PartyId \ {q} : leaders[o] = g.leader[o]
        /\ lists \in [PartyId -> Seq(Player)] /\ lists[q] = list
        /\ \A o \in PartyId \ {q} : lists[o] = g.memberList[o]
    BY <1>2, <1>4
  <2>2. h = [g EXCEPT !.leader = leaders, !.memberList = lists]
    BY DEF PassPartyLeadership, list, left
  <2> HIDE DEF leaders, lists
  <2>3. /\ h \in Links /\ h.leader = leaders /\ h.memberList = lists
        /\ h.party = g.party /\ h.invitations = g.invitations /\ h.inviteList = g.inviteList
    BY <1>1, <2>1, <2>2 DEF Links
  <2> QED
    BY <2>1, <2>3
<1>6. \A o \in PartyId : Members(h, o) = IF o = q THEN (Members(g, q) \ {p}) \cup {old} ELSE Members(g, o)
  BY <1>4, <1>5 DEF Members
<1>7. p # NoPlayer /\ p # old
  BY <1>2
<1>8. Linked(h)
  <2> SUFFICES ASSUME NEW o \in PartyId
               PROVE  /\ IsInjective(h.memberList[o]) /\ h.leader[o] \notin Members(h, o)
                      /\ ~Exists(h, o) => h.memberList[o] = <<>>
                      /\ \A r \in Player : h.party[r] = o <=> r = h.leader[o] \/ r \in Members(h, o)
    BY <1>5 DEF Linked
  <2>1. /\ IsInjective(g.memberList[o]) /\ g.leader[o] \notin Members(g, o)
        /\ ~Exists(g, o) => g.memberList[o] = <<>>
        /\ \A r \in Player : g.party[r] = o <=> r = g.leader[o] \/ r \in Members(g, o)
    BY <1>1 DEF Linked
  <2>2. CASE o = q
    BY <1>4, <1>5, <1>6, <1>7, <2>1, <2>2 DEF Exists
  <2>3. CASE o # q
    BY <1>5, <1>6, <2>1, <2>3 DEF Exists
  <2> QED
    BY <2>2, <2>3
<1>9. g.memberList[q] # <<>>
  BY NobodyInEmptyList DEF Members
<1>10. \A o \in PartyId : /\ Exists(h, o) <=> Exists(g, o)
                          /\ h.memberList[o] = <<>> <=> g.memberList[o] = <<>>
  BY <1>4, <1>5, <1>7, <1>9 DEF Exists
<1>11. Invited(h)
  BY <1>1, <1>5, <1>10 DEF Invited
<1>12. ASSUME NEW r \in Player
       PROVE  Courted(h, r)
  BY <1>1, <1>5, <1>10, LinksAreTyped DEF Agreed, Courted
<1>13. \A o \in PartyId : Lasts(h, o)
  BY <1>5, <1>10 DEF Agreed, Lasts, Empty
<1> QED
  BY <1>5, <1>6, <1>8, <1>11, <1>12, <1>13 DEF Agreed

LEMMA NewMemberKeeps ==
  ASSUME NEW g, Linked(g), Invited(g), NEW q \in PartyId, Exists(g, q),
         NEW p \in Player, g.party[p] = NoParty,
         \A r \in Player : Courted(g, r),
         \A r \in Player : g.party[r] = q => g.invitations[r] = {},
         \A o \in PartyId : Lasts(g, o),
         NEW h, h = [g EXCEPT !.memberList[q] = Append(@, p), !.party[p] = q]
  PROVE  /\ Linked(h) /\ Invited(h)
         /\ \A r \in Player \ {p} : Courted(h, r)
         /\ \A o \in PartyId : Lasts(h, o)
         /\ NoneGained(g, h, {p})
<1> USE PartyAssumption
<1>1. g \in Links
  BY DEF Linked
<1> DEFINE list == Append(g.memberList[q], p)
<1>2. /\ g.memberList[q] \in Seq(Player) /\ IsInjective(g.memberList[q])
      /\ p \notin Members(g, q) /\ p # g.leader[q]
  BY <1>1, LinksAreTyped DEF Linked
<1>3. /\ list \in Seq(Player) /\ list # <<>> /\ IsInjective(list)
      /\ ToSet(list) = Members(g, q) \cup {p}
  BY <1>2, AppendedOnce DEF Members
<1>4. /\ h \in Links
      /\ h.leader = g.leader /\ h.inviteList = g.inviteList /\ h.invitations = g.invitations
      /\ h.party[p] = q /\ \A r \in Player \ {p} : h.party[r] = g.party[r]
      /\ h.memberList[q] = list /\ \A o \in PartyId \ {q} : h.memberList[o] = g.memberList[o]
  <2> DEFINE lists == [g.memberList EXCEPT ![q] = list]
             party == [g.party EXCEPT ![p] = q]
  <2>1. /\ g.memberList \in [PartyId -> Seq(Player)]
        /\ g.party \in [Player -> PartyId \cup {NoParty}]
    BY <1>1 DEF Links
  <2>2. h = [g EXCEPT !.memberList = lists, !.party = party]
    OBVIOUS
  <2> HIDE DEF list
  <2>3. /\ party \in [Player -> PartyId \cup {NoParty}] /\ party[p] = q
        /\ \A r \in Player \ {p} : party[r] = g.party[r]
        /\ lists \in [PartyId -> Seq(Player)] /\ lists[q] = list
        /\ \A o \in PartyId \ {q} : lists[o] = g.memberList[o]
    BY <1>3, <2>1
  <2> HIDE DEF lists, party
  <2>4. /\ h \in Links /\ h.memberList = lists /\ h.party = party
        /\ h.leader = g.leader /\ h.inviteList = g.inviteList /\ h.invitations = g.invitations
    BY <1>1, <2>2, <2>3 DEF Links
  <2> QED
    BY <2>3, <2>4
<1> HIDE DEF list
<1>5. /\ Members(h, q) = Members(g, q) \cup {p}
      /\ \A o \in PartyId \ {q} : Members(h, o) = Members(g, o)
  <2>1. Members(h, q) = ToSet(list)
    BY <1>4 DEF Members
  <2>2. \A o \in PartyId \ {q} : Members(h, o) = Members(g, o)
    BY <1>4 DEF Members
  <2> QED
    BY <1>3, <2>1, <2>2
<1>6. Linked(h)
  <2> SUFFICES ASSUME NEW o \in PartyId
               PROVE  /\ IsInjective(h.memberList[o]) /\ h.leader[o] \notin Members(h, o)
                      /\ ~Exists(h, o) => h.memberList[o] = <<>>
                      /\ \A r \in Player : h.party[r] = o <=> r = h.leader[o] \/ r \in Members(h, o)
    BY <1>4 DEF Linked
  <2>1. /\ IsInjective(g.memberList[o]) /\ g.leader[o] \notin Members(g, o)
        /\ ~Exists(g, o) => g.memberList[o] = <<>>
        /\ \A r \in Player : g.party[r] = o <=> r = g.leader[o] \/ r \in Members(g, o)
    BY DEF Linked
  <2>2. CASE o = q
    <3>1. \A r \in Player : h.party[r] = q <=> r = g.leader[q] \/ r \in Members(h, q)
      BY <1>4, <1>5, <2>1, <2>2
    <3>2. h.leader[q] = g.leader[q] /\ h.leader[q] \notin Members(h, q) /\ h.leader[q] # NoPlayer
      BY <1>2, <1>4, <1>5, <2>1, <2>2 DEF Exists
    <3> QED
      BY <1>3, <1>4, <2>2, <3>1, <3>2 DEF Exists
  <2>3. CASE o # q
    BY <1>4, <1>5, <2>1, <2>3 DEF Exists
  <2> QED
    BY <2>2, <2>3
<1>7. Invited(h)
  BY <1>4 DEF Invited, Exists
<1>8. ASSUME NEW r \in Player \ {p}
      PROVE  Courted(h, r)
  BY <1>4 DEF Courted
<1>9. \A o \in PartyId : Lasts(h, o)
  BY <1>3, <1>4 DEF Lasts, Exists, Empty
<1>10. NoneGained(g, h, {p})
  BY <1>4 DEF NoneGained
<1> QED
  BY <1>6, <1>7, <1>8, <1>9, <1>10

LEMMA AddMemberKeeps ==
  ASSUME NEW g, Linked(g), Invited(g), NEW q \in PartyId, Exists(g, q),
         NEW p \in Player, g.party[p] = NoParty,
         \A r \in Player : Courted(g, r),
         \A r \in Player : g.party[r] = q => g.invitations[r] = {},
         \A o \in PartyId : Lasts(g, o),
         NEW h, h = AddMember(g, q, p)
  PROVE  Agreed(h) /\ NoneGained(g, h, {p})
<1> DEFINE a == [g EXCEPT !.memberList[q] = Append(@, p), !.party[p] = q]
<1>1. h = ClearPartyInvitations(a, p)
  BY DEF AddMember
<1>2. /\ Linked(a) /\ Invited(a)
      /\ \A r \in Player \ {p} : Courted(a, r)
      /\ \A o \in PartyId : Lasts(a, o)
      /\ NoneGained(g, a, {p})
  BY NewMemberKeeps
<1> HIDE DEF a
<1>3. Linked(h) /\ Invited(h) /\ Courted(h, p) /\ Trimmed(a, h, a.invitations[p])
  BY <1>1, <1>2, ClearKeeps
<1>4. Agreed(h)
  BY <1>2, <1>3 DEF Agreed, Trimmed
<1>5. NoneGained(g, h, {p})
  BY <1>2, <1>3 DEF Trimmed, NoneGained
<1> QED
  BY <1>4, <1>5

LEMMA JoinPartyKeeps ==
  ASSUME NEW g, Agreed(g), NEW q \in PartyId, Exists(g, q),
         NEW p \in Player, g.party[p] = NoParty,
         NEW h, h = JoinParty(g, q, p)
  PROVE  Agreed(h) /\ NoneGained(g, h, {p})
<1> USE PartyAssumption
<1>1. g \in Links /\ Linked(g) /\ Invited(g) /\ \A r \in Player : Courted(g, r)
  BY DEF Agreed, Linked
<1> DEFINE l == g.leader[q]
           c == IF g.memberList[q] = <<>> THEN ClearPartyInvitations(g, l) ELSE g
<1>2. l \in Player /\ g.party[l] = q
  BY <1>1, LinksAreTyped DEF Linked, Exists
<1>3. h = AddMember(c, q, p)
  BY DEF JoinParty
<1>4. /\ Linked(c) /\ Invited(c) /\ Exists(c, q) /\ c.party[p] = NoParty
      /\ \A r \in Player : Courted(c, r)
      /\ \A r \in Player : c.party[r] = q => c.invitations[r] = {}
      /\ \A o \in PartyId : Lasts(c, o)
      /\ NoneGained(g, c, {})
  <2>1. CASE g.memberList[q] = <<>>
    <3>1. /\ Linked(c) /\ Invited(c) /\ c.invitations[l] = {}
          /\ Trimmed(g, c, g.invitations[l])
      BY <1>1, <1>2, <2>1, ClearKeeps
    <3> HIDE DEF c
    <3>2. q \notin g.invitations[l]
      BY <1>1, <1>2 DEF Courted
    <3>3. c.leader[q] = l /\ c.memberList[q] = <<>>
      BY <2>1, <3>1, <3>2 DEF Trimmed
    <3>4. Members(c, q) = {} /\ Exists(c, q)
      BY <3>3, NobodyInEmptyList DEF Members, Exists
    <3>5. \A r \in Player : c.party[r] = q => r = l
      BY <3>1, <3>3, <3>4 DEF Linked
    <3>6. c.party[p] = NoParty
      BY <3>1 DEF Trimmed, NoneGained
    <3>7. /\ \A r \in Player : Courted(c, r)
          /\ \A o \in PartyId : Lasts(c, o)
          /\ NoneGained(g, c, {})
      BY <1>1, <3>1 DEF Trimmed, Agreed
    <3> QED
      BY <3>1, <3>4, <3>5, <3>6, <3>7
  <2>2. CASE g.memberList[q] # <<>>
    <3>1. c = g
      BY <2>2
    <3> HIDE DEF c
    <3>2. \A r \in Player : g.party[r] = q => g.invitations[r] = {}
      BY <1>1, <2>2 DEF Courted
    <3>3. NoneGained(g, g, {})
      BY DEF NoneGained
    <3> QED
      BY <1>1, <3>1, <3>2, <3>3 DEF Agreed
  <2> QED
    BY <2>1, <2>2
<1> HIDE DEF c
<1>5. Agreed(h) /\ NoneGained(c, h, {p})
  BY <1>3, <1>4, AddMemberKeeps
<1>6. NoneGained(g, h, {p})
  BY <1>4, <1>5 DEF NoneGained
<1> QED
  BY <1>5, <1>6

(* g when the party at q has let p out of its list, and p has dropped it. *)
LetOut(g, q, p) == [g EXCEPT !.memberList[q] = RemoveFirst(@, p), !.party[p] = NoParty]

LEMMA MemberLeaves ==
  ASSUME NEW g, Agreed(g), NEW q \in PartyId, NEW p \in Player, p \in Members(g, q),
         NEW h, h = LetOut(g, q, p)
  PROVE  /\ Linked(h) /\ Invited(h)
         /\ \A r \in Player : Courted(h, r)
         /\ \A o \in PartyId \ {q} : Lasts(h, o)
         /\ NoneGained(g, h, {}) /\ h.party[p] = NoParty
<1> USE PartyAssumption
<1>1. g \in Links /\ Linked(g) /\ Invited(g)
  BY DEF Agreed, Linked
<1> DEFINE list == RemoveFirst(g.memberList[q], p)
<1>2. /\ g.memberList[q] \in Seq(Player) /\ IsInjective(g.memberList[q])
      /\ g.party[p] = q /\ p # g.leader[q] /\ g.memberList[q] # <<>> /\ Exists(g, q)
  <2>1. g.memberList[q] \in Seq(Player)
    BY <1>1, LinksAreTyped
  <2>2. g.memberList[q] # <<>>
    BY NobodyInEmptyList DEF Members
  <2> QED
    BY <1>1, <2>1, <2>2 DEF Linked
<1>3. list \in Seq(Player) /\ IsInjective(list) /\ ToSet(list) = Members(g, q) \ {p}
  BY <1>2, RemovedOnce DEF Members
<1>4. /\ h \in Links
      /\ h.leader = g.leader /\ h.inviteList = g.inviteList /\ h.invitations = g.invitations
      /\ h.party[p] = NoParty /\ \A r \in Player \ {p} : h.party[r] = g.party[r]
      /\ h.memberList[q] = list /\ \A o \in PartyId \ {q} : h.memberList[o] = g.memberList[o]
  <2> DEFINE lists == [g.memberList EXCEPT ![q] = list]
             party == [g.party EXCEPT ![p] = NoParty]
  <2>1. /\ g.memberList \in [PartyId -> Seq(Player)]
        /\ g.party \in [Player -> PartyId \cup {NoParty}]
    BY <1>1 DEF Links
  <2>2. h = [g EXCEPT !.memberList = lists, !.party = party]
    BY DEF LetOut
  <2> HIDE DEF list
  <2>3. /\ party \in [Player -> PartyId \cup {NoParty}] /\ party[p] = NoParty
        /\ \A r \in Player \ {p} : party[r] = g.party[r]
        /\ lists \in [PartyId -> Seq(Player)] /\ lists[q] = list
        /\ \A o \in PartyId \ {q} : lists[o] = g.memberList[o]
    BY <1>3, <2>1
  <2> HIDE DEF lists, party
  <2>4. /\ h \in Links /\ h.memberList = lists /\ h.party = party
        /\ h.leader = g.leader /\ h.inviteList = g.inviteList /\ h.invitations = g.invitations
    BY <1>1, <2>2, <2>3 DEF Links
  <2> QED
    BY <2>3, <2>4
<1> HIDE DEF list
<1>5. /\ Members(h, q) = Members(g, q) \ {p}
      /\ \A o \in PartyId \ {q} : Members(h, o) = Members(g, o)
  <2>1. Members(h, q) = ToSet(list)
    BY <1>4 DEF Members
  <2>2. \A o \in PartyId \ {q} : Members(h, o) = Members(g, o)
    BY <1>4 DEF Members
  <2> QED
    BY <1>3, <2>1, <2>2
<1>6. Linked(h)
  <2> SUFFICES ASSUME NEW o \in PartyId
               PROVE  /\ IsInjective(h.memberList[o]) /\ h.leader[o] \notin Members(h, o)
                      /\ ~Exists(h, o) => h.memberList[o] = <<>>
                      /\ \A r \in Player : h.party[r] = o <=> r = h.leader[o] \/ r \in Members(h, o)
    BY <1>4 DEF Linked
  <2>1. /\ IsInjective(g.memberList[o]) /\ g.leader[o] \notin Members(g, o)
        /\ ~Exists(g, o) => g.memberList[o] = <<>>
        /\ \A r \in Player : g.party[r] = o <=> r = g.leader[o] \/ r \in Members(g, o)
    BY <1>1 DEF Linked
  <2>2. CASE o = q
    <3>1. \A r \in Player : h.party[r] = q <=> r = g.leader[q] \/ r \in Members(h, q)
      BY <1>2, <1>4, <1>5, <2>1, <2>2
    <3>2. h.leader[q] = g.leader[q] /\ h.leader[q] \notin Members(h, q) /\ h.leader[q] # NoPlayer
      BY <1>2, <1>4, <1>5, <2>1, <2>2 DEF Exists
    <3> QED
      BY <1>3, <1>4, <2>2, <3>1, <3>2 DEF Exists
  <2>3. CASE o # q
    BY <1>2, <1>4, <1>5, <2>1, <2>3 DEF Exists
  <2> QED
    BY <2>2, <2>3
<1>7. Invited(h)
  BY <1>1, <1>4 DEF Invited, Exists
<1>8. ASSUME NEW r \in Player
      PROVE  Courted(h, r)
  <2>1. /\ Courted(g, r) /\ g.invitations[r] \subseteq PartyId
        /\ g.party[r] \in PartyId \cup {NoParty}
    BY <1>1, LinksAreTyped DEF Agreed
  <2>2. CASE r = p
    BY <1>4, <2>1, <2>2 DEF Courted
  <2>3. CASE r # p
    BY <1>2, <1>4, <2>1, <2>3 DEF Courted
  <2> QED
    BY <2>2, <2>3
<1>9. \A o \in PartyId \ {q} : Lasts(h, o)
  BY <1>4 DEF Agreed, Lasts, Exists, Empty
<1>10. NoneGained(g, h, {})
  BY <1>4 DEF NoneGained
<1> QED
  BY <1>4, <1>6, <1>7, <1>8, <1>9, <1>10

LEMMA SameLinks ==
  ASSUME NEW g \in Links, NEW h \in Links,
         \A p \in Player : g.party[p] = h.party[p] /\ g.invitations[p] = h.invitations[p],
         \A q \in PartyId : /\ g.leader[q] = h.leader[q]
                            /\ g.memberList[q] = h.memberList[q]
                            /\ g.inviteList[q] = h.inviteList[q]
  PROVE  g = h
<1>1. g.party = h.party /\ g.invitations = h.invitations
  BY DEF Links
<1>2. g.leader = h.leader /\ g.memberList = h.memberList /\ g.inviteList = h.inviteList
  BY DEF Links
<1> QED
  BY <1>1, <1>2 DEF Links

(* Whether or not its leader has already left it, a party disbands alike. *)
LEMMA LeaderLeaves ==
  ASSUME NEW g, Agreed(g), NEW q \in PartyId, NEW p \in Player, g.leader[q] = p,
         NEW left, left = LetOut(g, q, p)
  PROVE  Disband(left, {q}) = Disband(g, {q})
<1> USE PartyAssumption
<1>1. g \in Links /\ Linked(g)
  BY DEF Agreed, Linked
<1> DEFINE list == RemoveFirst(g.memberList[q], p)
<1>2. /\ g.memberList[q] \in Seq(Player) /\ IsInjective(g.memberList[q])
      /\ p \notin Members(g, q)
  BY <1>1, LinksAreTyped DEF Linked
<1>3. list \in Seq(Player) /\ ToSet(list) = Members(g, q)
  <2>1. list \in Seq(Player) /\ ToSet(list) = Members(g, q) \ {p}
    BY <1>2, RemovedOnce DEF Members
  <2> QED
    BY <1>2, <2>1
<1>4. /\ left \in Links
      /\ left.leader = g.leader /\ left.inviteList = g.inviteList /\ left.invitations = g.invitations
      /\ left.party[p] = NoParty /\ \A r \in Player \ {p} : left.party[r] = g.party[r]
      /\ left.memberList[q] = list /\ \A o \in PartyId \ {q} : left.memberList[o] = g.memberList[o]
  <2> DEFINE lists == [g.memberList EXCEPT ![q] = list]
             party == [g.party EXCEPT ![p] = NoParty]
  <2>1. /\ g.memberList \in [PartyId -> Seq(Player)]
        /\ g.party \in [Player -> PartyId \cup {NoParty}]
    BY <1>1 DEF Links
  <2>2. left = [g EXCEPT !.memberList = lists, !.party = party]
    BY DEF LetOut
  <2> HIDE DEF list
  <2>3. /\ party \in [Player -> PartyId \cup {NoParty}] /\ party[p] = NoParty
        /\ \A r \in Player \ {p} : party[r] = g.party[r]
        /\ lists \in [PartyId -> Seq(Player)] /\ lists[q] = list
        /\ \A o \in PartyId \ {q} : lists[o] = g.memberList[o]
    BY <1>3, <2>1
  <2> HIDE DEF lists, party
  <2>4. /\ left \in Links /\ left.memberList = lists /\ left.party = party
        /\ left.leader = g.leader /\ left.inviteList = g.inviteList /\ left.invitations = g.invitations
    BY <1>1, <2>2, <2>3 DEF Links
  <2> QED
    BY <2>3, <2>4
<1> HIDE DEF list
<1>5. Members(left, q) = Members(g, q)
  BY <1>3, <1>4 DEF Members
<1>q. {q} \in SUBSET PartyId
  OBVIOUS
<1> DEFINE h == Disband(left, {q})
           d == Disband(g, {q})
<1>6. /\ h \in Links
      /\ \A r \in Player :
           /\ h.party[r] = IF \E o \in {q} : r = left.leader[o] \/ r \in Members(left, o)
                           THEN NoParty ELSE left.party[r]
           /\ h.invitations[r] = left.invitations[r] \ {o \in {q} : r \in left.inviteList[o]}
      /\ \A o \in PartyId :
           /\ h.leader[o] = IF o \in {q} THEN NoPlayer ELSE left.leader[o]
           /\ h.memberList[o] = IF o \in {q} THEN <<>> ELSE left.memberList[o]
           /\ h.inviteList[o] = IF o \in {q} THEN {} ELSE left.inviteList[o]
  BY <1>4, <1>q, DisbandFields
<1>7. /\ d \in Links
      /\ \A r \in Player :
           /\ d.party[r] = IF \E o \in {q} : r = g.leader[o] \/ r \in Members(g, o)
                           THEN NoParty ELSE g.party[r]
           /\ d.invitations[r] = g.invitations[r] \ {o \in {q} : r \in g.inviteList[o]}
      /\ \A o \in PartyId :
           /\ d.leader[o] = IF o \in {q} THEN NoPlayer ELSE g.leader[o]
           /\ d.memberList[o] = IF o \in {q} THEN <<>> ELSE g.memberList[o]
           /\ d.inviteList[o] = IF o \in {q} THEN {} ELSE g.inviteList[o]
  BY <1>1, <1>q, DisbandFields
<1> HIDE DEF h, d
<1>8. \A r \in Player : h.party[r] = d.party[r]
  BY <1>4, <1>5, <1>6, <1>7
<1>9. ASSUME NEW r \in Player
      PROVE  h.invitations[r] = d.invitations[r]
  <2>1. left.inviteList = g.inviteList /\ left.invitations = g.invitations
    BY <1>4
  <2>2. h.invitations[r] = left.invitations[r] \ {o \in {q} : r \in left.inviteList[o]}
    BY <1>6
  <2>3. d.invitations[r] = g.invitations[r] \ {o \in {q} : r \in g.inviteList[o]}
    BY <1>7
  <2> QED
    BY <2>1, <2>2, <2>3
<1>10. \A o \in PartyId : /\ h.leader[o] = d.leader[o]
                          /\ h.memberList[o] = d.memberList[o]
                          /\ h.inviteList[o] = d.inviteList[o]
  BY <1>4, <1>6, <1>7
<1>11. h = d
  BY <1>6, <1>7, <1>8, <1>9, <1>10, SameLinks
<1> QED
  BY <1>11 DEF h, d

LEMMA LeavePartyKeeps ==
  ASSUME NEW g, Agreed(g), NEW p \in Player, NEW q \in PartyId, g.party[p] = q,
         NEW h, h = LeaveParty(g, q, p)
  PROVE  Agreed(h) /\ NoneGained(g, h, {}) /\ h.party[p] = NoParty
<1> USE PartyAssumption
<1>1. g \in Links /\ Linked(g) /\ Invited(g) /\ \A r \in Player : Courted(g, r)
  BY DEF Agreed, Linked
<1>q. {q} \in SUBSET PartyId
  OBVIOUS
<1>2. CASE MissingLeader(g, q, p)
  <2>1. h = Disband(LetOut(g, q, p), {q})
    BY <1>2 DEF LeaveParty, LetOut
  <2>2. Disband(LetOut(g, q, p), {q}) = Disband(g, {q})
    BY <1>2, LeaderLeaves DEF MissingLeader
  <2>h. h = Disband(g, {q})
    BY <2>1, <2>2
  <2>3. /\ Linked(h) /\ Invited(h)
        /\ \A r \in Player :
             /\ h.party[r] = IF g.party[r] \in {q} THEN NoParty ELSE g.party[r]
             /\ h.invitations[r] = g.invitations[r] \ {q}
             /\ Courted(g, r) => Courted(h, r)
        /\ \A o \in PartyId : o \in {q} \/ Lasts(g, o) => Lasts(h, o)
    BY <1>1, <2>h, <1>q, DisbandKeeps
  <2>4. NoneGained(g, h, {})
    BY <2>3 DEF NoneGained
  <2> QED
    BY <1>1, <2>3, <2>4 DEF Agreed
<1>3. CASE ~MissingLeader(g, q, p)
  <2> DEFINE led == IF g.leader[q] = p THEN PassPartyLeadership(g, q, Head(g.memberList[q])) ELSE g
             left == LetOut(led, q, p)
  <2>1. h = IF Empty(left, q) THEN Disband(left, {q}) ELSE left
    BY <1>3 DEF LeaveParty, LetOut
  <2>2. Agreed(led) /\ NoneGained(g, led, {}) /\ p \in Members(led, q)
    <3>1. CASE g.leader[q] = p
      <4>1. g.memberList[q] # <<>> /\ Exists(g, q)
        BY <1>3, <3>1 DEF MissingLeader, Exists
      <4>2. Head(g.memberList[q]) \in Members(g, q) /\ Head(g.memberList[q]) \in Player
        BY <1>1, <4>1, LinksAreTyped, NobodyInEmptyList DEF Members
      <4>3. /\ Agreed(led) /\ led.party = g.party /\ led.invitations = g.invitations
            /\ Members(led, q) = (Members(g, q) \ {Head(g.memberList[q])}) \cup {g.leader[q]}
        BY <3>1, <4>1, <4>2, PassKeeps
      <4> HIDE DEF led
      <4> QED
        BY <3>1, <4>3 DEF NoneGained
    <3>2. CASE g.leader[q] # p
      <4>1. led = g
        BY <3>2
      <4>2. p \in Members(g, q)
        BY <1>1, <3>2 DEF Linked
      <4>3. NoneGained(g, g, {})
        BY DEF NoneGained
      <4> HIDE DEF led
      <4> QED
        BY <4>1, <4>2, <4>3
    <3> QED
      BY <3>1, <3>2
  <2> HIDE DEF led
  <2>3. /\ Linked(left) /\ Invited(left)
        /\ \A r \in Player : Courted(left, r)
        /\ \A o \in PartyId \ {q} : Lasts(left, o)
        /\ NoneGained(led, left, {}) /\ left.party[p] = NoParty
    BY <2>2, MemberLeaves
  <2> HIDE DEF left
  <2>4. NoneGained(g, left, {})
    BY <2>2, <2>3 DEF NoneGained
  <2>5. CASE Empty(left, q)
    <3>1. h = Disband(left, {q})
      BY <2>1, <2>5
    <3>2. /\ Linked(h) /\ Invited(h)
          /\ \A r \in Player :
               /\ h.party[r] = IF left.party[r] \in {q} THEN NoParty ELSE left.party[r]
               /\ h.invitations[r] = left.invitations[r] \ {q}
               /\ Courted(left, r) => Courted(h, r)
          /\ \A o \in PartyId : o \in {q} \/ Lasts(left, o) => Lasts(h, o)
      BY <2>3, <3>1, <1>q, DisbandKeeps
    <3>3. NoneGained(g, h, {})
      BY <2>4, <3>2 DEF NoneGained
    <3> QED
      BY <2>3, <3>2, <3>3 DEF Agreed
  <2>6. CASE ~Empty(left, q)
    <3>1. h = left
      BY <2>1, <2>6
    <3>2. \A o \in PartyId : Lasts(left, o)
      BY <2>3, <2>6 DEF Lasts
    <3> QED
      BY <2>3, <2>4, <3>1, <3>2 DEF Agreed
  <2> QED
    BY <2>5, <2>6
<1> QED
  BY <1>2, <1>3

(***************************************************************************)
(* The invariant.                                                           *)
(***************************************************************************)
(* The pointers are sound, and only a player in the game has a party, holds *)
(* an invitation or is in a channel.                                        *)
AllAreHere ==
  /\ \A p \in Player : game.party[p] # NoParty \/ game.invitations[p] # {} => p \in online
  /\ \A q \in PartyId : users[q] \subseteq online

PartiesAreSound == TypeOK /\ Agreed(game) /\ AllAreHere

LEMMA PartiesStart == Init => PartiesAreSound
<1> USE PartyAssumption
<1> SUFFICES ASSUME Init
             PROVE  PartiesAreSound
  OBVIOUS
<1>1. <<>> \in Seq(Player)
  OBVIOUS
<1>2. TypeOK
  BY <1>1 DEF Init, TypeOK, Links
<1>3. Linked(game)
  <2>1. \A q \in PartyId : /\ game.memberList[q] = <<>> /\ game.leader[q] = NoPlayer
                           /\ Members(game, q) = {}
    BY NobodyInEmptyList DEF Init, Members
  <2>2. \A p \in Player : game.party[p] = NoParty
    BY DEF Init
  <2> QED
    BY <1>2, <2>1, <2>2, NobodyInEmptyList DEF TypeOK, Linked
<1>4. Invited(game) /\ \A p \in Player : Courted(game, p)
  BY DEF Init, Invited, Courted
<1>5. \A q \in PartyId : Lasts(game, q)
  BY DEF Init, Lasts, Exists
<1>6. AllAreHere
  BY DEF Init, AllAreHere
<1> QED
  BY <1>2, <1>3, <1>4, <1>5, <1>6 DEF Agreed, PartiesAreSound

LEMMA UsersOnlyLeave ==
  ASSUME PartiesAreSound, NEW g, NEW P, RemoveUserFromChannel(g, P)
  PROVE  /\ users' \in [PartyId -> SUBSET Player]
         /\ \A q \in PartyId : users'[q] \subseteq users[q]
BY DEF PartiesAreSound, TypeOK, RemoveUserFromChannel

(* A change of the pointers by which only players in the game gain. *)
LEMMA ChangeKeeps ==
  ASSUME PartiesAreSound, NEW g, Agreed(g), NEW P \in SUBSET online,
         NoneGained(game, g, P), Change(g)
  PROVE  PartiesAreSound'
<1> USE PartyAssumption
<1>1. /\ users' \in [PartyId -> SUBSET Player]
      /\ \A q \in PartyId : users'[q] \subseteq users[q]
  BY UsersOnlyLeave DEF Change
<1>2. game' = g /\ online' = online /\ channels' = channels /\ g \in Links
  BY DEF Change, Agreed, Linked
<1>3. TypeOK' /\ Agreed(game')
  BY <1>1, <1>2 DEF PartiesAreSound, TypeOK
<1>4. ASSUME NEW p \in Player, g.party[p] # NoParty \/ g.invitations[p] # {}
      PROVE  p \in online
  BY <1>4 DEF PartiesAreSound, AllAreHere, NoneGained
<1>5. AllAreHere'
  BY <1>1, <1>2, <1>4 DEF PartiesAreSound, AllAreHere
<1> QED
  BY <1>3, <1>5 DEF PartiesAreSound

LEMMA LoginKeeps ==
  ASSUME PartiesAreSound, NEW p \in Player, Login(p)
  PROVE  PartiesAreSound'
BY DEF PartiesAreSound, TypeOK, AllAreHere, Login

LEMMA ChannelsKeep ==
  ASSUME PartiesAreSound, NEW p \in Player,
         \/ PlayerRequestChannels(p) \/ PlayerOpenChannel(p)
         \/ PlayerCloseChannel(p) \/ Reconnect(p)
  PROVE  PartiesAreSound'
<1>1. game' = game /\ online' = online /\ p \in online
  BY DEF PlayerRequestChannels, PlayerOpenChannel, PlayerCloseChannel, Reconnect
<1>2. channels' \subseteq PartyId
  <2>1. game.party[p] \in PartyId \cup {NoParty}
    BY LinksAreTyped DEF PartiesAreSound, TypeOK
  <2> QED
    BY <2>1 DEF PartiesAreSound, TypeOK, PlayerRequestChannels, PlayerOpenChannel,
                PlayerCloseChannel, Reconnect
<1>3. users' \in [PartyId -> SUBSET Player] /\ \A q \in PartyId : users'[q] \subseteq users[q] \cup {p}
  <2>1. CASE PlayerCloseChannel(p)
    BY <2>1, UsersOnlyLeave DEF PlayerCloseChannel
  <2>2. CASE ~PlayerCloseChannel(p)
    BY <2>2 DEF PartiesAreSound, TypeOK, PlayerRequestChannels, PlayerOpenChannel, Reconnect
  <2> QED
    BY <2>1, <2>2
<1> QED
  BY <1>1, <1>2, <1>3 DEF PartiesAreSound, TypeOK, AllAreHere

LEMMA LeadersLead ==
  ASSUME PartiesAreSound, NEW p \in Player, Leads(game, p)
  PROVE  game.party[p] \in PartyId /\ Exists(game, game.party[p])
<1>1. game.party[p] \in PartyId \cup {NoParty}
  BY LinksAreTyped DEF PartiesAreSound, TypeOK
<1> QED
  BY <1>1, PartyAssumption DEF Leads, Exists

LEMMA InviteKeeps ==
  ASSUME PartiesAreSound, NEW p \in Player, NEW i \in Player, PlayerInviteToParty(p, i)
  PROVE  PartiesAreSound'
<1> USE PartyAssumption
<1>1. /\ Agreed(game) /\ Linked(game) /\ Invited(game) /\ \A r \in Player : Courted(game, r)
      /\ \A o \in PartyId : Lasts(game, o)
  BY DEF PartiesAreSound, Agreed
<1>2. p \in online /\ i \in online /\ p # i /\ game.party[i] = NoParty
  BY DEF PlayerInviteToParty
<1>3. CASE Leads(game, p) /\ Change(InvitePlayer(game, game.party[p], i))
  <2> DEFINE h == InvitePlayer(game, game.party[p], i)
  <2>1. game.party[p] \in PartyId /\ Exists(game, game.party[p])
    BY <1>3, LeadersLead
  <2>2. Agreed(h) /\ NoneGained(game, h, {i})
    BY <1>1, <1>2, <2>1, InvitePlayerKeeps
  <2>3. {i} \in SUBSET online
    BY <1>2
  <2> HIDE DEF h
  <2> QED
    BY <1>3, <2>2, <2>3, ChangeKeeps DEF h
<1>4. ASSUME game.party[p] = NoParty, NEW q \in PartyId,
             ~Exists(game, q), Change(InvitePlayer(NewParty(game, q, p), q, i))
      PROVE  PartiesAreSound'
  <2> DEFINE n == NewParty(game, q, p)
             h == InvitePlayer(n, q, i)
  <2>1. game.party[p] = NoParty /\ ~Exists(game, q) /\ n = NewParty(game, q, p)
    BY <1>4
  <2> HIDE DEF n
  <2>2. /\ Linked(n) /\ Invited(n) /\ Exists(n, q)
        /\ \A r \in Player : Courted(n, r)
        /\ \A o \in PartyId \ {q} : Lasts(n, o)
        /\ NoneGained(game, n, {p})
        /\ \A r \in Player \ {p} : n.party[r] = game.party[r]
    BY <1>1, <2>1, NewPartyKeeps
  <2>3. n.party[i] = NoParty
    BY <1>2, <2>2
  <2>4. Agreed(h) /\ NoneGained(n, h, {i})
    BY <2>2, <2>3, InvitePlayerKeeps
  <2>5. Change(h)
    BY <1>4 DEF n
  <2> HIDE DEF h
  <2>6. NoneGained(game, h, {p, i})
    BY <2>2, <2>4 DEF NoneGained
  <2>7. {p, i} \in SUBSET online
    BY <1>2
  <2> QED
    BY <2>4, <2>5, <2>6, <2>7, ChangeKeeps
<1> QED
  BY <1>3, <1>4 DEF PlayerInviteToParty

LEMMA JoinKeeps ==
  ASSUME PartiesAreSound, NEW p \in Player, NEW l \in Player, PlayerJoinParty(p, l)
  PROVE  PartiesAreSound'
<1> DEFINE q == game.party[l]
           h == JoinParty(game, q, p)
<1>1. q \in PartyId /\ Exists(game, q)
  BY LeadersLead DEF PlayerJoinParty, IsInviting
<1>2. p \in online /\ game.party[p] = NoParty /\ Change(h)
  BY DEF PlayerJoinParty
<1>3. Agreed(h) /\ NoneGained(game, h, {p})
  BY <1>1, <1>2, JoinPartyKeeps DEF PartiesAreSound
<1> HIDE DEF h
<1>4. {p} \in SUBSET online
  BY <1>2
<1> QED
  BY <1>2, <1>3, <1>4, ChangeKeeps

LEMMA RevokeKeeps ==
  ASSUME PartiesAreSound, NEW p \in Player, NEW i \in Player, PlayerRevokePartyInvitation(p, i)
  PROVE  PartiesAreSound'
<1> DEFINE Q == {game.party[p]}
           h == RemoveInvite(game, Q, i)
<1>1. Q \in SUBSET PartyId /\ Change(h)
  BY LeadersLead DEF PlayerRevokePartyInvitation, IsInviting
<1>2. Agreed(game) /\ Linked(game) /\ Invited(game)
  BY DEF PartiesAreSound, Agreed
<1> HIDE DEF Q
<1>3. Linked(h) /\ Invited(h) /\ Trimmed(game, h, Q \cap game.invitations[i])
  BY <1>1, <1>2, RemoveInviteKeeps
<1> HIDE DEF h
<1>4. Agreed(h) /\ NoneGained(game, h, {})
  BY <1>2, <1>3 DEF Agreed, Trimmed
<1>5. {} \in SUBSET online
  OBVIOUS
<1> QED
  BY <1>1, <1>4, <1>5, ChangeKeeps

LEMMA PassLeadershipKeeps ==
  ASSUME PartiesAreSound, NEW p \in Player, NEW n \in Player, PlayerPassPartyLeadership(p, n)
  PROVE  PartiesAreSound'
<1> DEFINE q == game.party[p]
           h == PassPartyLeadership(game, q, n)
<1>1. q \in PartyId /\ Exists(game, q)
  BY LeadersLead DEF PlayerPassPartyLeadership
<1>2. Change(h) /\ game.party[n] = q /\ game.leader[q] = p /\ p # n
  BY DEF PlayerPassPartyLeadership, Leads
<1>3. n \in Members(game, q)
  BY <1>1, <1>2 DEF PartiesAreSound, Agreed, Linked
<1>4. Agreed(h) /\ h.party = game.party /\ h.invitations = game.invitations
  BY <1>1, <1>3, PassKeeps DEF PartiesAreSound
<1> HIDE DEF h
<1>5. NoneGained(game, h, {}) /\ {} \in SUBSET online
  BY <1>4 DEF NoneGained
<1> QED
  BY <1>2, <1>4, <1>5, ChangeKeeps

LEMMA LeaveKeeps ==
  ASSUME PartiesAreSound, NEW p \in Player, PlayerLeaveParty(p)
  PROVE  PartiesAreSound'
<1> DEFINE q == game.party[p]
           h == LeaveParty(game, q, p)
<1>1. q \in PartyId /\ Change(h)
  BY LinksAreTyped DEF PlayerLeaveParty, PartiesAreSound, TypeOK
<1>2. Agreed(h) /\ NoneGained(game, h, {})
  BY <1>1, LeavePartyKeeps DEF PartiesAreSound
<1> HIDE DEF h
<1>3. {} \in SUBSET online
  OBVIOUS
<1> QED
  BY <1>1, <1>2, <1>3, ChangeKeeps

(* Who logs out gives up first his invitations, and then his party. *)
LEMMA LogoutKeeps ==
  ASSUME PartiesAreSound, NEW p \in Player, Logout(p)
  PROVE  PartiesAreSound'
<1> USE PartyAssumption
<1> DEFINE g == ClearPartyInvitations(game, p)
           h == game'
<1>1. Agreed(game) /\ Linked(game) /\ Invited(game)
  BY DEF PartiesAreSound, Agreed
<1>2. /\ Linked(g) /\ Invited(g) /\ g.invitations[p] = {}
      /\ Trimmed(game, g, game.invitations[p])
  BY <1>1, ClearKeeps
<1>3. /\ h = IF g.party[p] = NoParty THEN g ELSE LeaveParty(g, g.party[p], p)
      /\ online' = online \ {p} /\ channels' = channels
      /\ users' = [q \in PartyId |-> users[q] \ {p}]
  BY DEF Logout
<1> HIDE DEF g
<1>4. Agreed(g) /\ NoneGained(game, g, {})
  BY <1>1, <1>2 DEF Agreed, Trimmed
<1>5. g.party[p] \in PartyId \cup {NoParty}
  BY <1>2, LinksAreTyped DEF Linked
<1> HIDE DEF h
<1>6. Agreed(h) /\ NoneGained(g, h, {}) /\ h.party[p] = NoParty
  <2>1. CASE g.party[p] = NoParty
    BY <1>3, <1>4, <2>1 DEF NoneGained
  <2>2. CASE g.party[p] # NoParty
    <3>1. g.party[p] \in PartyId /\ h = LeaveParty(g, g.party[p], p)
      BY <1>3, <1>5, <2>2
    <3> QED
      BY <1>4, <3>1, LeavePartyKeeps
  <2> QED
    BY <2>1, <2>2
<1>7. h.invitations[p] = {} /\ h \in Links
  BY <1>2, <1>6 DEF NoneGained, Agreed, Linked
<1>8. ASSUME NEW r \in Player, h.party[r] # NoParty \/ h.invitations[r] # {}
      PROVE  r \in online \ {p}
  <2>1. game.party[r] # NoParty \/ game.invitations[r] # {}
    BY <1>4, <1>6, <1>8 DEF NoneGained
  <2> QED
    BY <1>6, <1>7, <1>8, <2>1 DEF PartiesAreSound, AllAreHere
<1>9. TypeOK' /\ Agreed(game')
  BY <1>3, <1>6, <1>7 DEF h, PartiesAreSound, TypeOK
<1>10. AllAreHere'
  BY <1>3, <1>8 DEF h, PartiesAreSound, AllAreHere
<1> QED
  BY <1>9, <1>10 DEF PartiesAreSound

LEMMA PartiesStaySound == Spec => []PartiesAreSound
<1>1. ASSUME PartiesAreSound, [Next]_vars
      PROVE  PartiesAreSound'
  <2>1. ASSUME NEW p \in Player, Login(p)
        PROVE  PartiesAreSound'
    BY <1>1, <2>1, LoginKeeps
  <2>2. ASSUME NEW p \in Player, Logout(p)
        PROVE  PartiesAreSound'
    BY <1>1, <2>2, LogoutKeeps
  <2>3. ASSUME NEW p \in Player,
               \/ PlayerRequestChannels(p) \/ PlayerOpenChannel(p)
               \/ PlayerCloseChannel(p) \/ Reconnect(p)
        PROVE  PartiesAreSound'
    BY <1>1, <2>3, ChannelsKeep
  <2>4. ASSUME NEW p \in Player, PlayerLeaveParty(p)
        PROVE  PartiesAreSound'
    BY <1>1, <2>4, LeaveKeeps
  <2>5. ASSUME NEW p \in Player, NEW o \in Player, PlayerInviteToParty(p, o)
        PROVE  PartiesAreSound'
    BY <1>1, <2>5, InviteKeeps
  <2>6. ASSUME NEW p \in Player, NEW o \in Player, PlayerJoinParty(p, o)
        PROVE  PartiesAreSound'
    BY <1>1, <2>6, JoinKeeps
  <2>7. ASSUME NEW p \in Player, NEW o \in Player, PlayerRevokePartyInvitation(p, o)
        PROVE  PartiesAreSound'
    BY <1>1, <2>7, RevokeKeeps
  <2>8. ASSUME NEW p \in Player, NEW o \in Player, PlayerPassPartyLeadership(p, o)
        PROVE  PartiesAreSound'
    BY <1>1, <2>8, PassLeadershipKeeps
  <2>9. CASE UNCHANGED vars
    BY <1>1, <2>9 DEF vars, PartiesAreSound, TypeOK, AllAreHere
  <2> QED
    BY <1>1, <2>1, <2>2, <2>3, <2>4, <2>5, <2>6, <2>7, <2>8, <2>9 DEF Next
<1> QED
  BY <1>1, PartiesStart, PTL DEF Spec

(***************************************************************************)
(* What follows of parties.                                                 *)
(***************************************************************************)
(* The players whose Player::party is a party are its leader and its members, *)
(* each once, through invitations, joins, passed leaderships, departures and  *)
(* logouts in any order; no such pointer outlives its party or its player.    *)
THEOREM MembershipsAgree == Spec => []MembershipAgrees
<1>1. ASSUME PartiesAreSound
      PROVE  MembershipAgrees
  <2> USE PartyAssumption
  <2>1. TypeOK /\ Linked(game) /\ AllAreHere
    BY <1>1 DEF PartiesAreSound, Agreed
  <2>2. ASSUME NEW q \in PartyId
        PROVE  {p \in Player : game.party[p] = q} =
                 IF Exists(game, q) THEN {game.leader[q]} \cup Members(game, q) ELSE {}
    <3>1. /\ \A p \in Player : game.party[p] = q <=> p = game.leader[q] \/ p \in Members(game, q)
          /\ Members(game, q) \subseteq Player /\ game.leader[q] \in Player \cup {NoPlayer}
      BY <2>1, LinksAreTyped DEF Linked
    <3>2. CASE Exists(game, q)
      BY <3>1, <3>2 DEF Exists
    <3>3. CASE ~Exists(game, q)
      <4>1. Members(game, q) = {} /\ game.leader[q] = NoPlayer
        BY <2>1, <3>3, NobodyInEmptyList DEF Linked, Members, Exists
      <4> QED
        BY <3>1, <3>3, <4>1
    <3> QED
      BY <3>2, <3>3
  <2> QED
    BY <2>1, <2>2 DEF MembershipAgrees, Linked, AllAreHere
<1> QED
  BY <1>1, PartiesStaySound, PTL

(* A party's invitees and Player::invitePartyList say the same, whichever    *)
(* side goes; nobody is invited to his own party, and a player of a party    *)
(* with members holds no invitation.                                         *)
THEOREM InvitationsStayAgreed == Spec => []InvitationsAgree
<1>1. ASSUME PartiesAreSound
      PROVE  InvitationsAgree
  <2>1. /\ Linked(game) /\ Invited(game) /\ AllAreHere
        /\ \A p \in Player : Courted(game, p)
    BY <1>1 DEF PartiesAreSound, Agreed
  <2>2. ASSUME NEW p \in Player, game.invitations[p] # {}
        PROVE  /\ p \in online
               /\ game.party[p] # NoParty => game.memberList[game.party[p]] = <<>>
               /\ \A q \in game.invitations[p] : Exists(game, q) /\ game.party[p] # q
    <3>1. game.invitations[p] \subseteq PartyId
      BY <2>1, LinksAreTyped DEF Linked
    <3> QED
      BY <2>1, <2>2, <3>1 DEF Invited, Courted, AllAreHere
  <2> QED
    BY <2>1, <2>2 DEF InvitationsAgree, Invited
<1> QED
  BY <1>1, PartiesStaySound, PTL

(* Party::disband is reached on every way a party can lose its last member   *)
(* and its last invitee: none is left with a leader who is alone.            *)
THEOREM NoPartyStaysIdle == Spec => []NoPartyIsIdle
<1>1. PartiesAreSound => NoPartyIsIdle
  BY DEF PartiesAreSound, Agreed, Lasts, NoPartyIsIdle
<1> QED
  BY <1>1, PartiesStaySound, PTL

(***************************************************************************)
(* Creatures.                                                               *)
(*                                                                          *)
(* An operation is a chain of calls, and between two of them the world is   *)
(* not one that Next ever leaves: references have been cut and not yet      *)
(* given back, a creature is off the map and not yet removed.  Sound says    *)
(* what such a world keeps, Watching who is in a check list, and Calmer what *)
(* a call may do to the creatures it is not about.  There is one lemma for   *)
(* each call (..Good), one for each action (..IsSound), and InTurn lemmas    *)
(* that carry what every call keeps over a round of spectators or summons.  *)
(***************************************************************************)
(* Of a changed world: one field, the others stay. *)
Fields == {"room", "placed", "removed", "dying", "refs", "freed", "listed", "checked",
           "releases", "targets", "friends", "attacked", "master", "summons"}
Same(w, v, changed) == \A f \in Fields \ changed : v[f] = w[f]

LEMMA PutRoom ==
  ASSUME NEW w \in World, NEW e \in [Creature -> Rooms \cup {None}]
  PROVE  LET v == [w EXCEPT !.room = e]
         IN v \in World /\ v.room = e /\ Same(w, v, {"room"})
<1>1. [w EXCEPT !.room = e] \in World
  BY DEF World
<1>2. [w EXCEPT !.room = e].room = e
  BY DEF World
<1>3. Same(w, [w EXCEPT !.room = e], {"room"})
  BY DEF World, Same, Fields
<1> QED BY <1>1, <1>2, <1>3

LEMMA PutPlaced ==
  ASSUME NEW w \in World, NEW e \in SUBSET Creature
  PROVE  LET v == [w EXCEPT !.placed = e]
         IN v \in World /\ v.placed = e /\ Same(w, v, {"placed"})
<1>1. [w EXCEPT !.placed = e] \in World
  BY DEF World
<1>2. [w EXCEPT !.placed = e].placed = e
  BY DEF World
<1>3. Same(w, [w EXCEPT !.placed = e], {"placed"})
  BY DEF World, Same, Fields
<1> QED BY <1>1, <1>2, <1>3

LEMMA PutRemoved ==
  ASSUME NEW w \in World, NEW e \in SUBSET Creature
  PROVE  LET v == [w EXCEPT !.removed = e]
         IN v \in World /\ v.removed = e /\ Same(w, v, {"removed"})
<1>1. [w EXCEPT !.removed = e] \in World
  BY DEF World
<1>2. [w EXCEPT !.removed = e].removed = e
  BY DEF World
<1>3. Same(w, [w EXCEPT !.removed = e], {"removed"})
  BY DEF World, Same, Fields
<1> QED BY <1>1, <1>2, <1>3

LEMMA PutDying ==
  ASSUME NEW w \in World, NEW e \in SUBSET Monsters
  PROVE  LET v == [w EXCEPT !.dying = e]
         IN v \in World /\ v.dying = e /\ Same(w, v, {"dying"})
<1>1. [w EXCEPT !.dying = e] \in World
  BY DEF World
<1>2. [w EXCEPT !.dying = e].dying = e
  BY DEF World
<1>3. Same(w, [w EXCEPT !.dying = e], {"dying"})
  BY DEF World, Same, Fields
<1> QED BY <1>1, <1>2, <1>3

LEMMA PutRefs ==
  ASSUME NEW w \in World, NEW e \in [Creature -> Nat]
  PROVE  LET v == [w EXCEPT !.refs = e]
         IN v \in World /\ v.refs = e /\ Same(w, v, {"refs"})
<1>1. [w EXCEPT !.refs = e] \in World
  BY DEF World
<1>2. [w EXCEPT !.refs = e].refs = e
  BY DEF World
<1>3. Same(w, [w EXCEPT !.refs = e], {"refs"})
  BY DEF World, Same, Fields
<1> QED BY <1>1, <1>2, <1>3

LEMMA PutFreed ==
  ASSUME NEW w \in World, NEW e \in SUBSET Creature
  PROVE  LET v == [w EXCEPT !.freed = e]
         IN v \in World /\ v.freed = e /\ Same(w, v, {"freed"})
<1>1. [w EXCEPT !.freed = e] \in World
  BY DEF World
<1>2. [w EXCEPT !.freed = e].freed = e
  BY DEF World
<1>3. Same(w, [w EXCEPT !.freed = e], {"freed"})
  BY DEF World, Same, Fields
<1> QED BY <1>1, <1>2, <1>3

LEMMA PutListed ==
  ASSUME NEW w \in World, NEW e \in SUBSET Creature
  PROVE  LET v == [w EXCEPT !.listed = e]
         IN v \in World /\ v.listed = e /\ Same(w, v, {"listed"})
<1>1. [w EXCEPT !.listed = e] \in World
  BY DEF World
<1>2. [w EXCEPT !.listed = e].listed = e
  BY DEF World
<1>3. Same(w, [w EXCEPT !.listed = e], {"listed"})
  BY DEF World, Same, Fields
<1> QED BY <1>1, <1>2, <1>3

LEMMA PutChecked ==
  ASSUME NEW w \in World, NEW e \in SUBSET Creature
  PROVE  LET v == [w EXCEPT !.checked = e]
         IN v \in World /\ v.checked = e /\ Same(w, v, {"checked"})
<1>1. [w EXCEPT !.checked = e] \in World
  BY DEF World
<1>2. [w EXCEPT !.checked = e].checked = e
  BY DEF World
<1>3. Same(w, [w EXCEPT !.checked = e], {"checked"})
  BY DEF World, Same, Fields
<1> QED BY <1>1, <1>2, <1>3

LEMMA PutReleases ==
  ASSUME NEW w \in World, NEW e \in [Creature -> Nat]
  PROVE  LET v == [w EXCEPT !.releases = e]
         IN v \in World /\ v.releases = e /\ Same(w, v, {"releases"})
<1>1. [w EXCEPT !.releases = e] \in World
  BY DEF World
<1>2. [w EXCEPT !.releases = e].releases = e
  BY DEF World
<1>3. Same(w, [w EXCEPT !.releases = e], {"releases"})
  BY DEF World, Same, Fields
<1> QED BY <1>1, <1>2, <1>3

LEMMA PutTargets ==
  ASSUME NEW w \in World, NEW e \in [Creature -> SUBSET Creature]
  PROVE  LET v == [w EXCEPT !.targets = e]
         IN v \in World /\ v.targets = e /\ Same(w, v, {"targets"})
<1>1. [w EXCEPT !.targets = e] \in World
  BY DEF World
<1>2. [w EXCEPT !.targets = e].targets = e
  BY DEF World
<1>3. Same(w, [w EXCEPT !.targets = e], {"targets"})
  BY DEF World, Same, Fields
<1> QED BY <1>1, <1>2, <1>3

LEMMA PutFriends ==
  ASSUME NEW w \in World, NEW e \in [Creature -> SUBSET Creature]
  PROVE  LET v == [w EXCEPT !.friends = e]
         IN v \in World /\ v.friends = e /\ Same(w, v, {"friends"})
<1>1. [w EXCEPT !.friends = e] \in World
  BY DEF World
<1>2. [w EXCEPT !.friends = e].friends = e
  BY DEF World
<1>3. Same(w, [w EXCEPT !.friends = e], {"friends"})
  BY DEF World, Same, Fields
<1> QED BY <1>1, <1>2, <1>3

LEMMA PutAttacked ==
  ASSUME NEW w \in World, NEW e \in [Creature -> Creature \cup {None}]
  PROVE  LET v == [w EXCEPT !.attacked = e]
         IN v \in World /\ v.attacked = e /\ Same(w, v, {"attacked"})
<1>1. [w EXCEPT !.attacked = e] \in World
  BY DEF World
<1>2. [w EXCEPT !.attacked = e].attacked = e
  BY DEF World
<1>3. Same(w, [w EXCEPT !.attacked = e], {"attacked"})
  BY DEF World, Same, Fields
<1> QED BY <1>1, <1>2, <1>3

LEMMA PutMaster ==
  ASSUME NEW w \in World, NEW e \in [Creature -> Creature \cup {None}]
  PROVE  LET v == [w EXCEPT !.master = e]
         IN v \in World /\ v.master = e /\ Same(w, v, {"master"})
<1>1. [w EXCEPT !.master = e] \in World
  BY DEF World
<1>2. [w EXCEPT !.master = e].master = e
  BY DEF World
<1>3. Same(w, [w EXCEPT !.master = e], {"master"})
  BY DEF World, Same, Fields
<1> QED BY <1>1, <1>2, <1>3

LEMMA PutSummons ==
  ASSUME NEW w \in World, NEW e \in [Creature -> SUBSET Creature]
  PROVE  LET v == [w EXCEPT !.summons = e]
         IN v \in World /\ v.summons = e /\ Same(w, v, {"summons"})
<1>1. [w EXCEPT !.summons = e] \in World
  BY DEF World
<1>2. [w EXCEPT !.summons = e].summons = e
  BY DEF World
<1>3. Same(w, [w EXCEPT !.summons = e], {"summons"})
  BY DEF World, Same, Fields
<1> QED BY <1>1, <1>2, <1>3

-----------------------------------------------------------------------------
(* Pointers, and how many there are *)
LEMMA Constants == IsFiniteSet(Creature) /\ None \notin Creature
<1>1. IsFiniteSet(Players) /\ IsFiniteSet(Monsters)
  BY CreaturesAssumption
<1>2. IsFiniteSet(Creature)
  BY <1>1, FS_Union DEF Creature
<1> QED
  BY <1>2, CreaturesAssumption DEF Creature

Lists == [Creature -> SUBSET Creature]

LEMMA PointersNat ==
  ASSUME NEW list, NEW S \in SUBSET Creature, NEW c
  PROVE  /\ IsFiniteSet({n \in S : c \in list[n]})
         /\ Pointers(list, S, c) \in Nat
         /\ Pointers(list, S, c) = 0 <=> \A n \in S : c \notin list[n]
<1> DEFINE H == {n \in S : c \in list[n]}
<1>1. IsFiniteSet(H)
  <2>1. H \in SUBSET Creature
    OBVIOUS
  <2> HIDE DEF H
  <2> QED BY <2>1, Constants, FS_Subset
<1>2. Cardinality(H) \in Nat /\ (Cardinality(H) = 0 <=> H = {})
  <2> HIDE DEF H
  <2> QED BY <1>1, FS_CardinalityType, FS_EmptySet
<1> QED
  BY <1>1, <1>2 DEF Pointers

(* Those that D has, and the rest *)
LEMMA PointersSplit ==
  ASSUME NEW list \in Lists, NEW D \in SUBSET Creature, NEW c
  PROVE  Pointers(list, Creature, c) =
           Pointers(list, D, c) + Pointers(Without(list, D), Creature, c)
<1> DEFINE A == {n \in D : c \in list[n]}
           B == {n \in Creature : c \in Without(list, D)[n]}
<1>1. IsFiniteSet(A) /\ IsFiniteSet(B)
  BY PointersNat
<1>2. A \cap B = {}
  BY DEF Without
<1>3. A \cup B = {n \in Creature : c \in list[n]}
  BY DEF Without
<1>4. Cardinality(A \cup B) = Cardinality(A) + Cardinality(B)
  <2>1. Cardinality(A) \in Nat /\ Cardinality(B) \in Nat
    <3> HIDE DEF A, B
    <3> QED BY <1>1, FS_CardinalityType
  <2>2. Cardinality(A \cup B) = Cardinality(A) + Cardinality(B) - Cardinality(A \cap B)
    <3> HIDE DEF A, B
    <3> QED BY <1>1, FS_Union
  <2>3. Cardinality(A \cap B) = 0
    BY <1>2, FS_EmptySet
  <2> HIDE DEF A, B
  <2> QED BY <2>1, <2>2, <2>3
<1> QED
  BY <1>3, <1>4 DEF Pointers

LEMMA FewerPointers ==
  ASSUME NEW list, NEW D \in SUBSET Creature, NEW E \in SUBSET D, NEW c
  PROVE  Pointers(list, E, c) <= Pointers(list, D, c)
<1> DEFINE A == {n \in E : c \in list[n]}
           B == {n \in D : c \in list[n]}
<1>1. IsFiniteSet(B) /\ A \in SUBSET B
  BY PointersNat
<1>2. Cardinality(A) <= Cardinality(B)
  <2> HIDE DEF A, B
  <2> QED BY <1>1, FS_Subset
<1> QED
  BY <1>2 DEF Pointers

(* One of them points to others. *)
LEMMA PointersChange ==
  ASSUME NEW list \in Lists, NEW m \in Creature, NEW T \in SUBSET Creature, NEW c
  PROVE  Pointers([list EXCEPT ![m] = T], Creature, c) =
           Pointers(list, Creature, c) - Holds(list[m], c) + Holds(T, c)
<1> DEFINE A == {n \in Creature : c \in list[n]}
           B == {n \in Creature : c \in [list EXCEPT ![m] = T][n]}
           C == {n \in Creature \ {m} : c \in list[n]}
<1>1. IsFiniteSet(C) /\ m \notin C /\ Cardinality(C) \in Nat
  BY PointersNat DEF Pointers
<1>2. A = IF c \in list[m] THEN C \cup {m} ELSE C
  OBVIOUS
<1>3. B = IF c \in T THEN C \cup {m} ELSE C
  BY DEF Lists
<1>4. Cardinality(C \cup {m}) = Cardinality(C) + 1
  <2> HIDE DEF C
  <2> QED BY <1>1, FS_AddElement
<1>5. Cardinality(A) = Cardinality(C) + Holds(list[m], c)
  <2> HIDE DEF A, C
  <2> QED BY <1>1, <1>2, <1>4 DEF Holds
<1>6. Cardinality(B) = Cardinality(C) + Holds(T, c)
  <2> HIDE DEF B, C
  <2> QED BY <1>1, <1>3, <1>4 DEF Holds
<1>7. Holds(T, c) \in Int /\ Holds(list[m], c) \in Int
  BY DEF Holds
<1>8. Cardinality(B) = Cardinality(A) - Holds(list[m], c) + Holds(T, c)
  <2> HIDE DEF A, B, C
  <2> QED BY <1>1, <1>5, <1>6, <1>7
<1> QED
  BY <1>8 DEF Pointers

LEMMA HoldsNat == \A S, c : Holds(S, c) \in {0, 1}
BY DEF Holds

-----------------------------------------------------------------------------
(* References given back *)
LEMMA GivenNat ==
  ASSUME NEW w \in World, NEW S \in SUBSET Creature, NEW c
  PROVE  Given(w, S, c) \in Nat
<1>1. /\ Pointers(w.targets, S, c) \in Nat
      /\ Pointers(w.friends, S, c) \in Nat
      /\ Pointers(w.summons, S, c) \in Nat
  BY PointersNat
<1> QED
  BY <1>1 DEF Given

LEMMA GivenByNone ==
  ASSUME NEW w \in World, NEW c
  PROVE  Given(w, {}, c) = 0
<1>1. /\ Pointers(w.targets, {}, c) = 0
      /\ Pointers(w.friends, {}, c) = 0
      /\ Pointers(w.summons, {}, c) = 0
  BY PointersNat
<1> QED
  BY <1>1 DEF Given

LEMMA GivenByFewer ==
  ASSUME NEW w \in World, NEW D \in SUBSET Creature, NEW E \in SUBSET D, NEW c
  PROVE  Given(w, E, c) <= Given(w, D, c)
<1>1. /\ Pointers(w.targets, E, c) <= Pointers(w.targets, D, c)
      /\ Pointers(w.friends, E, c) <= Pointers(w.friends, D, c)
      /\ Pointers(w.summons, E, c) <= Pointers(w.summons, D, c)
  BY FewerPointers
<1>2. \A S \in SUBSET Creature :
        /\ Pointers(w.targets, S, c) \in Nat
        /\ Pointers(w.friends, S, c) \in Nat
        /\ Pointers(w.summons, S, c) \in Nat
  BY PointersNat
<1> QED
  BY <1>1, <1>2 DEF Given

LEMMA MoreGo ==
  ASSUME NEW w \in World, NEW back \in [Creature -> Nat], NEW c \in Creature,
         NEW D \in SUBSET Creature, NEW E \in SUBSET D, Goes(w, back, E, c)
  PROVE  Goes(w, back, D, c)
<1>1. Given(w, E, c) <= Given(w, D, c) /\ Given(w, E, c) \in Nat /\ Given(w, D, c) \in Nat
  BY GivenByFewer, GivenNat
<1>2. w.refs[c] \in Nat /\ back[c] \in Nat
  BY DEF World
<1> QED
  BY <1>1, <1>2 DEF Goes

(* Deleted is who goes, when just they go. *)
LEMMA DeletedIs ==
  ASSUME NEW w \in World, NEW back \in [Creature -> Nat]
  PROVE  /\ Deleted(w, back) \in SUBSET Creature
         /\ \A c \in Creature : c \in Deleted(w, back) <=> Goes(w, back, Deleted(w, back), c)
<1> DEFINE D == Deleted(w, back)
           Closed(E) == \A d \in Creature : Goes(w, back, E, d) => d \in E
<1>1. CASE \A c \in Creature : w.refs[c] \notin 1 .. back[c]
  <2>1. D = {}
    BY <1>1 DEF Deleted
  <2>2. \A c \in Creature : back[c] \in Nat /\ back[c] + Given(w, {}, c) = back[c]
    BY GivenByNone
  <2>3. \A c \in Creature : ~Goes(w, back, {}, c)
    BY <1>1, <2>2 DEF Goes
  <2> QED BY <2>1, <2>3
<1>2. CASE ~ \A c \in Creature : w.refs[c] \notin 1 .. back[c]
  <2>1. D = {c \in Creature : \A E \in SUBSET Creature : Closed(E) => c \in E}
    BY <1>2 DEF Deleted
  <2> HIDE DEF D
  <2>2. ASSUME NEW c \in Creature, Goes(w, back, D, c)
        PROVE  c \in D
    <3>1. ASSUME NEW E \in SUBSET Creature, Closed(E)
          PROVE  c \in E
      <4>1. D \in SUBSET E
        BY <2>1, <3>1
      <4>2. Goes(w, back, E, c)
        BY <2>2, <4>1, MoreGo
      <4> QED BY <3>1, <4>2
    <3> QED BY <2>1, <3>1
  <2> DEFINE E == {c \in Creature : Goes(w, back, D, c)}
  <2>3. E \in SUBSET D
    BY <2>2
  <2>4. D \in SUBSET Creature
    BY <2>1
  <2>5. Closed(E)
    <3> SUFFICES ASSUME NEW d \in Creature, Goes(w, back, E, d)
                 PROVE  d \in E
      OBVIOUS
    <3>1. Goes(w, back, D, d)
      <4> HIDE DEF E
      <4> QED BY <2>3, <2>4, MoreGo
    <3> QED BY <3>1
  <2>6. D \in SUBSET E
    <3> HIDE DEF Closed
    <3> QED BY <2>1, <2>3, <2>4, <2>5
  <2> QED BY <2>2, <2>4, <2>6 DEF D
<1> QED BY <1>1, <1>2

(* An attack is passed on from S to summons only. *)
LEMMA ToldAre ==
  ASSUME NEW w \in World, NEW S \in SUBSET Creature, NEW sees
  PROVE  /\ Told(w, S, sees) \in SUBSET Creature
         /\ S \subseteq Told(w, S, sees)
         /\ \A c \in Told(w, S, sees) : c \in S \/ \E n \in Creature : c \in w.summons[n]
<1> DEFINE R == S \cup UNION {w.summons[n] : n \in Creature}
<1>1. R \in SUBSET Creature /\ S \subseteq R
  BY DEF World
<1>2. \A n \in R \cap sees : w.summons[n] \subseteq R
  BY <1>1
<1>3. \A c \in Told(w, S, sees) : c \in R
  <2> HIDE DEF R
  <2> QED BY <1>1, <1>2 DEF Told
<1> QED
  BY <1>3 DEF Told

(* What is left when D is deleted *)
LEMMA DeleteIs ==
  ASSUME NEW w \in World, NEW D \in SUBSET Creature,
         \A c \in Creature \ D : w.refs[c] >= Given(w, D, c)
  PROVE  LET v == Delete(w, D)
         IN /\ v \in World
            /\ Same(w, v, {"refs", "freed", "room", "targets", "friends", "summons",
                           "attacked", "master"})
            /\ v.refs = [c \in Creature |-> IF c \in D THEN 0 ELSE w.refs[c] - Given(w, D, c)]
            /\ v.freed = w.freed \cup D
            /\ v.room = [c \in Creature |-> IF c \in D THEN None ELSE w.room[c]]
            /\ v.targets = Without(w.targets, D)
            /\ v.friends = Without(w.friends, D)
            /\ v.summons = Without(w.summons, D)
            /\ \A c \in Creature : v.attacked[c] \in {w.attacked[c], None}
            /\ v.master = [c \in Creature |->
                             IF \E d \in D : c \in w.summons[d] THEN None ELSE w.master[c]]
<1> DEFINE freed == UNION {w.summons[d] : d \in D}
           calm  == D \cup Told(w, freed, Creature)
           refs == [c \in Creature |-> IF c \in D THEN 0 ELSE w.refs[c] - Given(w, D, c)]
           room == [c \in Creature |-> IF c \in D THEN None ELSE w.room[c]]
           targets == Without(w.targets, D)
           friends == Without(w.friends, D)
           summons == Without(w.summons, D)
           attacked == [c \in Creature |-> IF c \in calm THEN None ELSE w.attacked[c]]
           master == [c \in Creature |-> IF c \in freed THEN None ELSE w.master[c]]
           v == Delete(w, D)
<1>1. refs \in [Creature -> Nat]
  <2>1. \A c \in Creature : w.refs[c] \in Nat /\ Given(w, D, c) \in Nat
    BY GivenNat DEF World
  <2> QED BY <2>1
<1>2. room \in [Creature -> Rooms \cup {None}]
  BY DEF World
<1>3. targets \in Lists /\ friends \in Lists /\ summons \in Lists
  BY DEF World, Lists, Without
<1>4. attacked \in [Creature -> Creature \cup {None}] /\ master \in [Creature -> Creature \cup {None}]
  BY DEF World
<1>5. v = [w EXCEPT !.refs = refs, !.freed = @ \cup D, !.room = room, !.targets = targets,
                    !.friends = friends, !.summons = summons, !.attacked = attacked,
                    !.master = master]
  BY DEF Delete
<1> HIDE DEF v, refs, room, targets, friends, summons, attacked, master
<1>6. /\ v \in World
      /\ v.refs = refs /\ v.freed = w.freed \cup D /\ v.room = room
      /\ v.targets = targets /\ v.friends = friends /\ v.summons = summons
      /\ v.attacked = attacked /\ v.master = master
  BY <1>1, <1>2, <1>3, <1>4, <1>5 DEF World, Lists
<1>7. Same(w, v, {"refs", "freed", "room", "targets", "friends", "summons", "attacked", "master"})
  BY <1>5 DEF Same, Fields, World
<1>8. \A c \in Creature : attacked[c] \in {w.attacked[c], None}
  BY DEF attacked
<1>9. master = [c \in Creature |->
                  IF \E d \in D : c \in w.summons[d] THEN None ELSE w.master[c]]
  BY DEF master
<1> QED
  BY <1>6, <1>7, <1>8, <1>9 DEF v, refs, room, targets, friends, summons

-----------------------------------------------------------------------------
(* A world in which every reference counts, those among back are being given *)
(* back, and x is off the map and not yet removed.                           *)
Zero == [c \in Creature |-> 0]
One(S) == [c \in Creature |-> Holds(S, c)]

Counts(w, back, x) ==
  \A c \in Creature : w.refs[c] = Expected(w, c) + back[c] + Holds({x}, c)

Serve(w) == \A c, n \in Creature : c \in w.summons[n] <=> w.master[c] = n

Lives(w, x, c) ==
  /\ c \in w.freed <=> c \in w.removed /\ w.refs[c] = 0
  /\ c \in w.freed => w.room[c] = None
  /\ c \in w.placed => w.room[c] # None
  /\ w.refs[c] = 0 => w.targets[c] = {} /\ w.friends[c] = {} /\ w.summons[c] = {}
  /\ c \notin w.placed \cup w.removed \cup {x} =>
       w.refs[c] = 0 /\ c \notin w.dying /\ w.attacked[c] = None

Sound(w, back, x) ==
  /\ w \in World
  /\ Counts(w, back, x)
  /\ Serve(w)
  /\ \A c \in Creature : Lives(w, x, c)
  /\ w.placed \cap w.removed = {}
  /\ w.checked \subseteq w.listed

(* From w to v creatures are at most removed, with the attacks on them in their *)
(* sight; nobody attacks or serves anew.                                        *)
Kept(w) == w.placed \cup {c \in Creature : w.releases[c] > 0}

Calmer(w, v) ==
  /\ v.placed \subseteq w.placed
  /\ v.placed \cup v.removed = w.placed \cup w.removed
  /\ Kept(v) = Kept(w)
  /\ w.freed \subseteq v.freed
  /\ v.placed \cap v.freed = {}
  /\ \A c \in Creature \ v.freed : v.room[c] = w.room[c]
  /\ \A c \in Creature : v.attacked[c] \in {w.attacked[c], None}
  /\ \A c \in Creature : v.master[c] \in {w.master[c], None}
  /\ \A a \in v.placed, b \in w.placed \ v.placed : v.attacked[a] = b => w.room[a] # w.room[b]

LEMMA CalmerTwice ==
  ASSUME NEW w \in World, NEW v \in World, NEW u \in World, Calmer(w, v), Calmer(v, u)
  PROVE  Calmer(w, u)
<1>1. u.placed \subseteq Creature /\ v.placed \subseteq Creature /\ w.placed \subseteq Creature
  BY DEF World
<1>2. /\ u.placed \subseteq w.placed
      /\ u.placed \cup u.removed = w.placed \cup w.removed
      /\ Kept(u) = Kept(w)
      /\ w.freed \subseteq u.freed
      /\ u.placed \cap u.freed = {}
  BY DEF Calmer
<1>3. \A c \in Creature \ u.freed : u.room[c] = w.room[c]
  BY DEF Calmer
<1>4. \A c \in Creature : u.attacked[c] \in {w.attacked[c], None} /\ u.master[c] \in {w.master[c], None}
  BY DEF Calmer
<1>5. ASSUME NEW a \in u.placed, NEW b \in w.placed \ u.placed, u.attacked[a] = b
      PROVE  w.room[a] # w.room[b]
  <2>1. a \in Creature /\ b \in Creature /\ b # None /\ a \in v.placed
    BY <1>1, <1>2, Constants DEF Calmer
  <2>2. v.attacked[a] = b
    BY <1>5, <2>1 DEF Calmer
  <2>3. CASE b \notin v.placed
    BY <2>1, <2>2, <2>3 DEF Calmer
  <2>4. CASE b \in v.placed
    <3>1. v.room[a] # v.room[b]
      BY <1>5, <2>4 DEF Calmer
    <3>2. a \notin v.freed /\ b \notin v.freed
      BY <2>1, <2>4 DEF Calmer
    <3> QED BY <2>1, <3>1, <3>2 DEF Calmer
  <2> QED BY <2>3, <2>4
<1> QED
  BY <1>2, <1>3, <1>4, <1>5 DEF Calmer

LEMMA ExpectedNat ==
  ASSUME NEW w \in World, NEW c \in Creature
  PROVE  /\ Expected(w, c) \in Nat /\ Given(w, Creature, c) \in Nat /\ w.releases[c] \in Nat
         /\ Expected(w, c) = w.releases[c] + Holds(w.placed, c) + Holds(w.listed, c)
                               + Given(w, Creature, c)
<1>1. Given(w, Creature, c) \in Nat /\ w.releases[c] \in Nat
  BY GivenNat DEF World
<1>2. Holds(w.placed, c) \in {0, 1} /\ Holds(w.listed, c) \in {0, 1}
  BY HoldsNat
<1> QED
  BY <1>1, <1>2 DEF Expected

(* Who has a reference *)
LEMMA Referenced ==
  ASSUME NEW w, NEW back \in [Creature -> Nat], NEW x, Sound(w, back, x), NEW c \in Creature
  PROVE  /\ c \in Kept(w) \cup w.listed \cup {x} => w.refs[c] > 0
         /\ \A n \in Creature : c \in w.targets[n] \cup w.friends[n] \cup w.summons[n] => w.refs[c] > 0
         /\ w.refs[c] > 0 => c \notin w.freed /\ c \in w.placed \cup w.removed \cup {x}
         /\ w.refs[c] \in Nat /\ w.refs[c] >= back[c]
<1>1. w \in World
  BY DEF Sound
<1>2. /\ Expected(w, c) \in Nat /\ Given(w, Creature, c) \in Nat /\ w.releases[c] \in Nat
      /\ Expected(w, c) = w.releases[c] + Holds(w.placed, c) + Holds(w.listed, c)
                            + Given(w, Creature, c)
  BY <1>1, ExpectedNat
<1>3. w.refs[c] = Expected(w, c) + back[c] + Holds({x}, c) /\ w.refs[c] \in Nat /\ back[c] \in Nat
  BY <1>1 DEF Sound, Counts, World
<1>4. Holds({x}, c) \in {0, 1} /\ Holds(w.placed, c) \in {0, 1} /\ Holds(w.listed, c) \in {0, 1}
  BY HoldsNat
<1>5. c \in Kept(w) \cup w.listed \cup {x} => w.refs[c] > 0
  BY <1>2, <1>3, <1>4 DEF Holds, Kept
<1>6. ASSUME NEW n \in Creature, c \in w.targets[n] \cup w.friends[n] \cup w.summons[n]
      PROVE  w.refs[c] > 0
  <2>1. /\ Pointers(w.targets, Creature, c) \in Nat
        /\ Pointers(w.friends, Creature, c) \in Nat
        /\ Pointers(w.summons, Creature, c) \in Nat
    BY PointersNat
  <2>2. \/ Pointers(w.targets, Creature, c) # 0
        \/ Pointers(w.friends, Creature, c) # 0
        \/ Pointers(w.summons, Creature, c) # 0
    BY <1>6, PointersNat
  <2>3. \A i, j, k \in Nat : i # 0 \/ j # 0 \/ k # 0 => i + j + k # 0
    OBVIOUS
  <2>4. Given(w, Creature, c) # 0
    BY <2>1, <2>2, <2>3, Zenon DEF Given
  <2>5. Expected(w, c) > 0
    BY <1>2, <1>4, <2>4
  <2> QED BY <1>2, <1>3, <1>4, <2>5
<1>7. w.refs[c] > 0 => c \notin w.freed /\ c \in w.placed \cup w.removed \cup {x}
  <2>1. Lives(w, x, c)
    BY DEF Sound
  <2> QED BY <2>1, <1>3 DEF Lives
<1>8. w.refs[c] >= back[c]
  BY <1>2, <1>3, <1>4
<1> QED
  BY <1>3, <1>5, <1>6, <1>7, <1>8

-----------------------------------------------------------------------------
(* Giving references back keeps the world sound. *)
Lessens(w, v) ==
  /\ Same(w, v, {"refs", "freed", "room", "targets", "friends", "summons", "attacked", "master"})
  /\ \A c \in Creature : v.targets[c] \subseteq w.targets[c]
  /\ Calmer(w, v)

GivenBack(w, back, D, v) ==
  /\ D \in SUBSET Creature
  /\ \A c \in Creature : c \in D <=> Goes(w, back, D, c)
  /\ v \in World
  /\ Same(w, v, {"refs", "freed", "room", "targets", "friends", "summons", "attacked", "master"})
  /\ \A c \in Creature : v.refs[c] = IF c \in D THEN 0 ELSE w.refs[c] - back[c] - Given(w, D, c)
  /\ v.freed = w.freed \cup D
  /\ \A c \in Creature : v.room[c] = IF c \in D THEN None ELSE w.room[c]
  /\ v.targets = Without(w.targets, D)
  /\ v.friends = Without(w.friends, D)
  /\ v.summons = Without(w.summons, D)
  /\ \A c \in Creature : v.attacked[c] \in {w.attacked[c], None}
  /\ \A c \in Creature : v.master[c] = IF \E d \in D : c \in w.summons[d] THEN None ELSE w.master[c]

LEMMA GiveBackIs ==
  ASSUME NEW w, NEW back \in [Creature -> Nat], NEW x, Sound(w, back, x)
  PROVE  GivenBack(w, back, Deleted(w, back), GiveBack(w, back))
<1> DEFINE D == Deleted(w, back)
           e == [c \in Creature |-> w.refs[c] - back[c]]
           u == [w EXCEPT !.refs = e]
           v == GiveBack(w, back)
<1> SUFFICES GivenBack(w, back, D, v)
  OBVIOUS
<1>1. w \in World
  BY DEF Sound
<1>2. D \in SUBSET Creature /\ \A c \in Creature : c \in D <=> Goes(w, back, D, c)
  BY <1>1, DeletedIs
<1>3. \A c \in Creature : w.refs[c] \in Nat /\ back[c] \in Nat /\ w.refs[c] >= back[c]
  BY Referenced
<1>4. e \in [Creature -> Nat]
  BY <1>3
<1>5. u \in World /\ u.refs = e /\ Same(w, u, {"refs"})
  <2> HIDE DEF e
  <2> QED BY <1>1, <1>4, PutRefs
<1>6. v = IF D = {} THEN u ELSE Delete(u, D)
  BY <1>1 DEF GiveBack, World
<1>7. \A c \in Creature : e[c] = w.refs[c] - back[c]
  OBVIOUS
<1> HIDE DEF D, e, u, v
<1>8. /\ u.freed = w.freed /\ u.room = w.room /\ u.targets = w.targets
      /\ u.friends = w.friends /\ u.summons = w.summons /\ u.attacked = w.attacked
      /\ u.master = w.master
  BY <1>5 DEF Same, Fields
<1>9. \A c \in Creature, E \in SUBSET Creature : Given(u, E, c) = Given(w, E, c)
  BY <1>8 DEF Given
<1>10. CASE D = {}
  <2>1. v = u
    BY <1>6, <1>10
  <2>2. Same(w, v, {"refs", "freed", "room", "targets", "friends", "summons", "attacked", "master"})
    BY <1>5, <2>1 DEF Same
  <2>3. \A c \in Creature : v.refs[c] =
          IF c \in D THEN 0 ELSE w.refs[c] - back[c] - Given(w, D, c)
    <3> TAKE c \in Creature
    <3>1. Given(w, D, c) = 0
      BY <1>1, <1>10, GivenByNone
    <3> QED BY <1>3, <1>5, <1>7, <1>10, <2>1, <3>1
  <2>4. \A list \in Lists : Without(list, D) = list
    BY <1>10 DEF Without, Lists
  <2>5. w.targets \in Lists /\ w.friends \in Lists /\ w.summons \in Lists
    BY <1>1 DEF World, Lists
  <2> QED
    BY <1>2, <1>5, <1>8, <1>10, <2>1, <2>2, <2>3, <2>4, <2>5 DEF GivenBack
<1>11. CASE D # {}
  <2>1. v = Delete(u, D)
    BY <1>6, <1>11
  <2>2. ASSUME NEW c \in Creature \ D
        PROVE  u.refs[c] >= Given(u, D, c)
    <3>1. Given(w, D, c) \in Nat /\ Given(w, Creature, c) \in Nat
            /\ Given(w, D, c) <= Given(w, Creature, c)
      BY <1>1, <1>2, GivenNat, GivenByFewer
    <3>2. /\ Expected(w, c) \in Nat /\ w.releases[c] \in Nat
          /\ Expected(w, c) = w.releases[c] + Holds(w.placed, c) + Holds(w.listed, c)
                            + Given(w, Creature, c)
      BY <1>1, ExpectedNat
    <3>3. Holds({x}, c) \in {0, 1} /\ Holds(w.placed, c) \in {0, 1} /\ Holds(w.listed, c) \in {0, 1}
      BY HoldsNat
    <3>4. w.refs[c] = Expected(w, c) + back[c] + Holds({x}, c)
      BY DEF Sound, Counts
    <3>5. u.refs[c] = w.refs[c] - back[c]
      BY <1>5, <1>7
    <3>6. Expected(w, c) >= Given(w, D, c)
      BY <3>1, <3>2, <3>3
    <3>7. u.refs[c] >= Given(w, D, c)
      BY <1>3, <3>1, <3>2, <3>3, <3>4, <3>5, <3>6
    <3> QED BY <1>2, <1>9, <3>7
  <2>3. /\ v \in World
        /\ Same(u, v, {"refs", "freed", "room", "targets", "friends", "summons",
                       "attacked", "master"})
        /\ v.refs = [c \in Creature |-> IF c \in D THEN 0 ELSE u.refs[c] - Given(u, D, c)]
        /\ v.freed = u.freed \cup D
        /\ v.room = [c \in Creature |-> IF c \in D THEN None ELSE u.room[c]]
        /\ v.targets = Without(u.targets, D)
        /\ v.friends = Without(u.friends, D)
        /\ v.summons = Without(u.summons, D)
        /\ \A c \in Creature : v.attacked[c] \in {u.attacked[c], None}
        /\ v.master = [c \in Creature |->
                         IF \E d \in D : c \in u.summons[d] THEN None ELSE u.master[c]]
    BY <1>2, <1>5, <2>1, <2>2, DeleteIs
  <2>4. Same(w, v, {"refs", "freed", "room", "targets", "friends", "summons", "attacked", "master"})
    BY <1>5, <2>3 DEF Same
  <2>5. \A c \in Creature : v.refs[c] =
          IF c \in D THEN 0 ELSE w.refs[c] - back[c] - Given(w, D, c)
    BY <1>2, <1>5, <1>7, <1>9, <2>3
  <2> QED
    BY <1>2, <1>8, <2>3, <2>4, <2>5 DEF GivenBack
<1> QED
  BY <1>10, <1>11

LEMMA GiveBackSound ==
  ASSUME NEW w, NEW back \in [Creature -> Nat], NEW x \in Creature \cup {None},
         Sound(w, back, x)
  PROVE  LET v == GiveBack(w, back) IN Sound(v, Zero, x) /\ Lessens(w, v)
<1> DEFINE v == GiveBack(w, back)
<1> DEFINE D == Deleted(w, back)
<1>0. GivenBack(w, back, D, v)
  BY GiveBackIs
<1> HIDE DEF v, D
<1>1. /\ D \in SUBSET Creature
      /\ \A c \in Creature : c \in D <=> Goes(w, back, D, c)
      /\ v \in World
      /\ Same(w, v, {"refs", "freed", "room", "targets", "friends", "summons",
                       "attacked", "master"})
      /\ \A c \in Creature : v.refs[c] =
             IF c \in D THEN 0 ELSE w.refs[c] - back[c] - Given(w, D, c)
      /\ v.freed = w.freed \cup D
      /\ \A c \in Creature : v.room[c] = IF c \in D THEN None ELSE w.room[c]
      /\ v.targets = Without(w.targets, D)
      /\ v.friends = Without(w.friends, D)
      /\ v.summons = Without(w.summons, D)
      /\ \A c \in Creature : v.attacked[c] \in {w.attacked[c], None}
      /\ \A c \in Creature : v.master[c] =
             IF \E d \in D : c \in w.summons[d] THEN None ELSE w.master[c]
  BY <1>0 DEF GivenBack
<1>2. w \in World /\ Serve(w) /\ Counts(w, back, x) /\ w.placed \cap w.removed = {}
        /\ w.checked \subseteq w.listed /\ \A c \in Creature : Lives(w, x, c)
  BY DEF Sound
<1>3. /\ v.placed = w.placed /\ v.removed = w.removed /\ v.dying = w.dying
      /\ v.listed = w.listed /\ v.checked = w.checked /\ v.releases = w.releases
  BY <1>1 DEF Same, Fields
<1>4. w.targets \in Lists /\ w.friends \in Lists /\ w.summons \in Lists
  BY <1>2 DEF World, Lists
<1>5. ASSUME NEW c \in Creature
      PROVE  /\ Given(w, Creature, c) = Given(w, D, c) + Given(v, Creature, c)
             /\ Given(w, D, c) \in Nat /\ Given(v, Creature, c) \in Nat
  <2>1. /\ Pointers(w.targets, Creature, c) = Pointers(w.targets, D, c) + Pointers(v.targets, Creature, c)
        /\ Pointers(w.friends, Creature, c) = Pointers(w.friends, D, c) + Pointers(v.friends, Creature, c)
        /\ Pointers(w.summons, Creature, c) = Pointers(w.summons, D, c) + Pointers(v.summons, Creature, c)
    BY <1>1, <1>4, PointersSplit
  <2>2. /\ Pointers(w.targets, D, c) \in Nat /\ Pointers(v.targets, Creature, c) \in Nat
        /\ Pointers(w.friends, D, c) \in Nat /\ Pointers(v.friends, Creature, c) \in Nat
        /\ Pointers(w.summons, D, c) \in Nat /\ Pointers(v.summons, Creature, c) \in Nat
    BY <1>1, PointersNat
  <2>3. Given(w, D, c) \in Nat /\ Given(v, Creature, c) \in Nat
    BY <1>1, <1>2, GivenNat
  <2> QED BY <2>1, <2>2, <2>3 DEF Given
<1>6. ASSUME NEW c \in Creature
      PROVE  /\ w.refs[c] = w.releases[c] + Holds(w.placed, c) + Holds(w.listed, c)
                              + Given(w, D, c) + Given(v, Creature, c) + back[c] + Holds({x}, c)
             /\ Expected(v, c) = w.releases[c] + Holds(w.placed, c) + Holds(w.listed, c)
                              + Given(v, Creature, c)
             /\ Expected(v, c) \in Nat
             /\ w.refs[c] \in Nat /\ back[c] \in Nat /\ w.releases[c] \in Nat
             /\ Holds(w.placed, c) \in Nat /\ Holds(w.listed, c) \in Nat
             /\ Holds({x}, c) \in Nat
  <2>1. w.refs[c] \in Nat /\ back[c] \in Nat /\ w.releases[c] \in Nat
    BY <1>2 DEF World
  <2>2. /\ Holds(w.placed, c) \in Nat /\ Holds(w.listed, c) \in Nat
        /\ Holds({x}, c) \in Nat
    BY HoldsNat
  <2>3. /\ Expected(v, c) = v.releases[c] + Holds(v.placed, c) + Holds(v.listed, c)
                              + Given(v, Creature, c)
        /\ Expected(v, c) \in Nat
    BY <1>1, ExpectedNat
  <2>4. w.refs[c] = w.releases[c] + Holds(w.placed, c) + Holds(w.listed, c)
                      + (Given(w, D, c) + Given(v, Creature, c)) + back[c] + Holds({x}, c)
    <3>1. Given(w, Creature, c) = Given(w, D, c) + Given(v, Creature, c)
      BY <1>5
    <3>2. w.refs[c] = Expected(w, c) + back[c] + Holds({x}, c)
      BY <1>2 DEF Counts
    <3> QED BY <3>1, <3>2, Zenon DEF Expected
  <2>5. w.refs[c] = w.releases[c] + Holds(w.placed, c) + Holds(w.listed, c)
                      + Given(w, D, c) + Given(v, Creature, c) + back[c] + Holds({x}, c)
    <3>1. Given(w, D, c) \in Nat /\ Given(v, Creature, c) \in Nat
      BY <1>5
    <3>3. Holds(w.placed, c) \in Nat /\ Holds(w.listed, c) \in Nat /\ Holds({x}, c) \in Nat
      BY HoldsNat
    <3> DEFINE r == w.releases[c]  hp == Holds(w.placed, c)  hl == Holds(w.listed, c)
               gd == Given(w, D, c)  gv == Given(v, Creature, c)
               bk == back[c]  hx == Holds({x}, c)  n == w.refs[c]
    <3>4. /\ r \in Nat /\ hp \in Nat /\ hl \in Nat /\ gd \in Nat /\ gv \in Nat
          /\ bk \in Nat /\ hx \in Nat /\ n = r + hp + hl + (gd + gv) + bk + hx
      BY <2>1, <2>4, <3>1, <3>3, Zenon
    <3>5. n = r + hp + hl + gd + gv + bk + hx
      <4> HIDE DEF r, hp, hl, gd, gv, bk, hx, n
      <4> QED BY <3>4
    <3> QED BY <3>5, Zenon
  <2>6. Expected(v, c) = w.releases[c] + Holds(w.placed, c) + Holds(w.listed, c)
                              + Given(v, Creature, c)
    BY <1>3, <2>3, Zenon
  <2> QED BY <2>1, <2>2, <2>3, <2>5, <2>6
<1>7. ASSUME NEW c \in D
      PROVE  /\ Expected(v, c) = 0 /\ Holds({x}, c) = 0 /\ w.refs[c] > 0
             /\ c \in w.removed /\ c \notin Kept(w) /\ c # x /\ c \in Creature
  <2>1. w.refs[c] \in 1 .. back[c] + Given(w, D, c) /\ c \in Creature
    BY <1>1 DEF Goes
  <2>2. Expected(v, c) = 0 /\ Holds({x}, c) = 0 /\ w.refs[c] > 0
    <3> DEFINE r == w.releases[c]  hp == Holds(w.placed, c)  hl == Holds(w.listed, c)
               gd == Given(w, D, c)  gv == Given(v, Creature, c)
               bk == back[c]  hx == Holds({x}, c)  n == w.refs[c]  e == Expected(v, c)
    <3>1. /\ r \in Nat /\ hp \in Nat /\ hl \in Nat /\ gd \in Nat /\ gv \in Nat
          /\ bk \in Nat /\ hx \in Nat
      BY <1>5, <1>6, <2>1
    <3>2. n = r + hp + hl + gd + gv + bk + hx /\ e = r + hp + hl + gv /\ n \in 1 .. bk + gd
      BY <1>6, <2>1, Zenon
    <3>3. e = 0 /\ hx = 0 /\ n > 0
      <4> HIDE DEF r, hp, hl, gd, gv, bk, hx, n, e
      <4> QED BY <3>1, <3>2
    <3> QED BY <3>3, Zenon
  <2>3. c \in w.placed \cup w.removed \cup {x} /\ (c \in Kept(w) => Expected(v, c) # 0)
    <3>1. Lives(w, x, c)
      BY <1>2, <2>1
    <3>2. c \in w.placed \cup w.removed \cup {x}
      BY <2>2, <3>1 DEF Lives
    <3>3. c \in Kept(w) => Expected(v, c) # 0
      <4>1. \A r, hp, hl, gv \in Nat : r > 0 \/ hp = 1 => r + hp + hl + gv # 0
        OBVIOUS
      <4>2. c \in Kept(w) => w.releases[c] > 0 \/ Holds(w.placed, c) = 1
        BY <2>1 DEF Kept, Holds
      <4>3. Given(v, Creature, c) \in Nat
        BY <1>5, <2>1
      <4>4. /\ Expected(v, c) = w.releases[c] + Holds(w.placed, c) + Holds(w.listed, c)
                                 + Given(v, Creature, c)
            /\ w.releases[c] \in Nat /\ Holds(w.placed, c) \in Nat /\ Holds(w.listed, c) \in Nat
        BY <1>6, <2>1
      <4> QED BY <4>1, <4>2, <4>3, <4>4, Zenon
    <3> QED BY <3>2, <3>3
  <2>4. c # x
    BY <2>2 DEF Holds
  <2>5. c \notin w.placed
    BY <2>2, <2>3 DEF Kept
  <2> QED BY <2>1, <2>2, <2>3, <2>4, <2>5
<1>8. ASSUME NEW c \in Creature \ D
      PROVE  /\ v.refs[c] = w.refs[c] - back[c] - Given(w, D, c)
             /\ v.refs[c] = 0 <=> w.refs[c] = 0
             /\ v.refs[c] = Expected(v, c) + Holds({x}, c)
  <2>1. v.refs[c] = w.refs[c] - back[c] - Given(w, D, c)
    BY <1>1
  <2>2. w.refs[c] \notin 1 .. back[c] + Given(w, D, c)
    BY <1>1 DEF Goes
  <2>3. /\ w.releases[c] \in Nat /\ back[c] \in Nat
        /\ Given(w, D, c) \in Nat /\ Given(v, Creature, c) \in Nat
        /\ Holds(w.placed, c) \in Nat /\ Holds(w.listed, c) \in Nat /\ Holds({x}, c) \in Nat
    BY <1>5, <1>6
  <2>4. w.refs[c] = w.releases[c] + Holds(w.placed, c) + Holds(w.listed, c)
                              + Given(w, D, c) + Given(v, Creature, c) + back[c] + Holds({x}, c)
    BY <1>6
  <2>5. Expected(v, c) = w.releases[c] + Holds(w.placed, c) + Holds(w.listed, c)
                              + Given(v, Creature, c)
    BY <1>6
  <2> DEFINE r == w.releases[c]  hp == Holds(w.placed, c)  hl == Holds(w.listed, c)
             gd == Given(w, D, c)  gv == Given(v, Creature, c)
             bk == back[c]  hx == Holds({x}, c)
             n == w.refs[c]  k == v.refs[c]  e == Expected(v, c)
  <2>6. /\ r \in Nat /\ hp \in Nat /\ hl \in Nat /\ gd \in Nat /\ gv \in Nat
        /\ bk \in Nat /\ hx \in Nat
        /\ n = r + hp + hl + gd + gv + bk + hx /\ e = r + hp + hl + gv
        /\ n \notin 1 .. bk + gd /\ k = n - bk - gd
    BY <2>1, <2>2, <2>3, <2>4, <2>5, Zenon
  <2>7. (k = 0 <=> n = 0) /\ k = e + hx
    <3> HIDE DEF r, hp, hl, gd, gv, bk, hx, n, k, e
    <3> QED BY <2>6
  <2>8. (v.refs[c] = 0 <=> w.refs[c] = 0) /\ v.refs[c] = Expected(v, c) + Holds({x}, c)
    BY <2>7, Zenon
  <2> QED BY <2>1, <2>8
<1>9. Counts(v, Zero, x)
  <2> SUFFICES ASSUME NEW c \in Creature
               PROVE  v.refs[c] = Expected(v, c) + Zero[c] + Holds({x}, c)
    BY DEF Counts
  <2>1. v.refs[c] = Expected(v, c) + Holds({x}, c)
    <3>1. CASE c \in D
      <4>1. v.refs[c] = 0 /\ Expected(v, c) = 0 /\ Holds({x}, c) = 0
        BY <1>1, <1>7, <3>1
      <4> QED BY <4>1
    <3>2. CASE c \notin D
      BY <1>8, <3>2
    <3> QED BY <3>1, <3>2
  <2>2. Expected(v, c) \in Nat /\ Zero[c] = 0
    BY <1>6 DEF Zero
  <2> QED BY <2>1, <2>2
<1>10. ASSUME NEW n \in Creature
       PROVE  /\ v.targets[n] = IF n \in D THEN {} ELSE w.targets[n]
              /\ v.friends[n] = IF n \in D THEN {} ELSE w.friends[n]
              /\ v.summons[n] = IF n \in D THEN {} ELSE w.summons[n]
  BY <1>1 DEF Without
<1>11. Serve(v)
  <2> SUFFICES ASSUME NEW c \in Creature, NEW n \in Creature
               PROVE  c \in v.summons[n] <=> v.master[c] = n
    BY DEF Serve
  <2>1. \A d \in Creature : c \in w.summons[d] <=> w.master[c] = d
    BY <1>2 DEF Serve
  <2>2. v.master[c] = IF \E d \in D : c \in w.summons[d] THEN None ELSE w.master[c]
    BY <1>1
  <2>3. n # None
    BY Constants
  <2>4. v.summons[n] = IF n \in D THEN {} ELSE w.summons[n]
    BY <1>10
  <2>5. D \in SUBSET Creature
    BY <1>1
  <2> QED BY <2>1, <2>2, <2>3, <2>4, <2>5
<1>12. ASSUME NEW c \in Creature
       PROVE  Lives(v, x, c)
  <2>1. Lives(w, x, c)
    BY <1>2
  <2>2. CASE c \in D
    <3>1. v.refs[c] = 0 /\ c \in v.freed /\ v.room[c] = None
      BY <1>1, <2>2
    <3>2. c \in w.removed /\ c \notin w.placed
      BY <1>7, <2>2 DEF Kept
    <3> QED BY <1>3, <1>10, <2>2, <3>1, <3>2 DEF Lives
  <2>3. CASE c \notin D
    <3>1. (v.refs[c] = 0 <=> w.refs[c] = 0) /\ (c \in v.freed <=> c \in w.freed)
      BY <1>1, <1>8, <2>3
    <3>2. w.attacked[c] = None => v.attacked[c] = None
      BY <1>1
    <3>3. v.room[c] = w.room[c]
      BY <1>1, <2>3
    <3>4. /\ v.targets[c] = w.targets[c] /\ v.friends[c] = w.friends[c]
          /\ v.summons[c] = w.summons[c]
      BY <1>10, <2>3
    <3> QED BY <1>3, <2>1, <3>1, <3>2, <3>3, <3>4 DEF Lives
  <2> QED BY <2>2, <2>3
<1>13. Sound(v, Zero, x)
  BY <1>1, <1>2, <1>3, <1>9, <1>11, <1>12 DEF Sound
<1>14. Calmer(w, v)
  <2>1. Kept(v) = Kept(w)
    BY <1>3 DEF Kept
  <2>2. v.placed \cap v.freed = {}
    BY <1>2, <1>3, <1>12 DEF Lives, World
  <2>3. \A c \in Creature \ v.freed : v.room[c] = w.room[c]
    BY <1>1
  <2>4. \A c \in Creature : v.master[c] \in {w.master[c], None}
    BY <1>1
  <2> QED BY <1>1, <1>3, <2>1, <2>2, <2>3, <2>4 DEF Calmer
<1>15. Lessens(w, v)
  BY <1>1, <1>10, <1>14 DEF Lessens
<1> QED
  BY <1>13, <1>15 DEF v

-----------------------------------------------------------------------------
(* A world where who must be looked after is, but for what m knows. *)
Watching(w, m) ==
  \A n \in Monsters \cap w.placed :
    n \in w.dying \/ (n # m /\ w.targets[n] # {}) => n \in w.checked

Good(w, m, x) == Sound(w, Zero, x) /\ Watching(w, m)

LEMMA PlacedLive ==
  ASSUME NEW w, NEW back, NEW x, Sound(w, back, x)
  PROVE  w.placed \cap w.freed = {}
BY DEF Sound, Lives, World

LEMMA CalmerChange ==
  ASSUME NEW w, NEW v, w.placed \cap w.freed = {},
         Same(w, v, {"refs", "targets", "friends", "summons", "listed", "checked", "dying",
                     "attacked", "master"}),
         \A c \in Creature : v.attacked[c] \in {w.attacked[c], None},
         \A c \in Creature : v.master[c] \in {w.master[c], None}
  PROVE  Calmer(w, v)
<1>1. /\ v.placed = w.placed /\ v.removed = w.removed /\ v.freed = w.freed /\ v.room = w.room
      /\ v.releases = w.releases
  BY DEF Same, Fields
<1>2. Kept(v) = Kept(w)
  BY <1>1 DEF Kept
<1> QED
  BY <1>1, <1>2 DEF Calmer

LEMMA CalmerSame ==
  ASSUME NEW w, NEW v, NEW back, NEW x, Sound(w, back, x),
         Same(w, v, {"refs", "targets", "friends", "summons", "listed", "checked", "dying",
                     "attacked", "master"}),
         \A c \in Creature : v.attacked[c] \in {w.attacked[c], None},
         \A c \in Creature : v.master[c] \in {w.master[c], None}
  PROVE  Calmer(w, v)
BY PlacedLive, CalmerChange

LEMMA GiveBackGood ==
  ASSUME NEW w, NEW back \in [Creature -> Nat], NEW x \in Creature \cup {None}, NEW m,
         Sound(w, back, x), Watching(w, m)
  PROVE  LET v == GiveBack(w, back) IN Good(v, m, x) /\ Calmer(w, v) /\ Lessens(w, v)
<1> DEFINE v == GiveBack(w, back)
<1>1. Sound(v, Zero, x) /\ Lessens(w, v)
  BY GiveBackSound
<1> HIDE DEF v
<1>2. /\ v.placed = w.placed /\ v.dying = w.dying /\ v.checked = w.checked
      /\ \A c \in Creature : v.targets[c] \subseteq w.targets[c]
  BY <1>1 DEF Lessens, Same, Fields
<1>3. Watching(v, m)
  BY <1>2 DEF Watching, Creature
<1> QED
  BY <1>1, <1>3 DEF v, Good, Lessens

(* The lists of m are changed. *)
Relisted(w, v, back, m, T, F) ==
  /\ v \in World /\ back \in [Creature -> Nat] /\ m \in Creature
  /\ T \in SUBSET Creature /\ F \in SUBSET Creature
  /\ Same(w, v, {"targets", "friends", "refs"})
  /\ v.targets = [w.targets EXCEPT ![m] = T] /\ v.friends = [w.friends EXCEPT ![m] = F]
  /\ \A c \in Creature :
       /\ v.refs[c] + Holds(w.targets[m], c) + Holds(w.friends[m], c)
            = w.refs[c] + Holds(T, c) + Holds(F, c) + back[c]
       /\ v.refs[c] = 0 <=> w.refs[c] = 0
  /\ w.refs[m] = 0 => T = {} /\ F = {}

LEMMA Relist ==
  ASSUME NEW w, NEW v, NEW x, Sound(w, Zero, x), NEW back, NEW m, NEW T, NEW F,
         Relisted(w, v, back, m, T, F)
  PROVE  Sound(v, back, x) /\ Calmer(w, v)
<1>0. /\ v \in World /\ back \in [Creature -> Nat] /\ m \in Creature
      /\ T \in SUBSET Creature /\ F \in SUBSET Creature
      /\ Same(w, v, {"targets", "friends", "refs"})
      /\ v.targets = [w.targets EXCEPT ![m] = T] /\ v.friends = [w.friends EXCEPT ![m] = F]
      /\ w.refs[m] = 0 => T = {} /\ F = {}
  BY DEF Relisted
<1> DEFINE Balance(c) ==
             v.refs[c] + Holds(w.targets[m], c) + Holds(w.friends[m], c)
               = w.refs[c] + Holds(T, c) + Holds(F, c) + back[c]
           Alike(c) == v.refs[c] = 0 <=> w.refs[c] = 0
<1>00. \A c \in Creature : Balance(c) /\ Alike(c)
  BY DEF Relisted
<1> HIDE DEF Balance, Alike
<1>1. /\ v.room = w.room /\ v.placed = w.placed /\ v.removed = w.removed /\ v.dying = w.dying
      /\ v.freed = w.freed /\ v.listed = w.listed /\ v.checked = w.checked
      /\ v.releases = w.releases /\ v.attacked = w.attacked /\ v.master = w.master
      /\ v.summons = w.summons
  BY <1>0 DEF Same, Fields
<1>2. w \in World /\ w.targets \in Lists /\ w.friends \in Lists
  BY DEF Sound, World, Lists
<1>3. Counts(v, back, x)
  <2> SUFFICES ASSUME NEW c \in Creature
               PROVE  v.refs[c] = Expected(v, c) + back[c] + Holds({x}, c)
    BY DEF Counts
  <2>1. /\ Pointers(v.targets, Creature, c)
             = Pointers(w.targets, Creature, c) - Holds(w.targets[m], c) + Holds(T, c)
        /\ Pointers(v.friends, Creature, c)
             = Pointers(w.friends, Creature, c) - Holds(w.friends[m], c) + Holds(F, c)
    BY <1>0, <1>2, PointersChange
  <2>2. Holds(w.targets[m], c) \in Nat /\ Holds(w.friends[m], c) \in Nat
          /\ Holds(T, c) \in Nat /\ Holds(F, c) \in Nat /\ Holds({x}, c) \in Nat
          /\ Holds(w.placed, c) \in Nat /\ Holds(w.listed, c) \in Nat
    BY HoldsNat
  <2>3. /\ Pointers(w.targets, Creature, c) \in Nat /\ Pointers(w.friends, Creature, c) \in Nat
        /\ Pointers(w.summons, Creature, c) \in Nat
    BY PointersNat
  <2>4. w.refs[c] = Expected(w, c) + Zero[c] + Holds({x}, c)
    BY DEF Sound, Counts
  <2>5. w.refs[c] \in Nat /\ v.refs[c] \in Nat /\ w.releases[c] \in Nat /\ Zero[c] = 0
          /\ back[c] \in Nat
    BY <1>0, <1>2 DEF World, Zero
  <2> DEFINE n == w.refs[c]  k == v.refs[c]  ht == Holds(w.targets[m], c)
             hf == Holds(w.friends[m], c)  nt == Holds(T, c)  nf == Holds(F, c)
             hx == Holds({x}, c)  hp == Holds(w.placed, c)  hl == Holds(w.listed, c)
             r == w.releases[c]  b == back[c]  z == Zero[c]
             pt == Pointers(w.targets, Creature, c)  pf == Pointers(w.friends, Creature, c)
             ps == Pointers(w.summons, Creature, c)
             qt == Pointers(v.targets, Creature, c)  qf == Pointers(v.friends, Creature, c)
  <2>6. /\ n = r + hp + hl + (pt + pf + ps) + z + hx
        /\ qt = pt - ht + nt /\ qf = pf - hf + nf /\ k + ht + hf = n + nt + nf + b
    BY <1>00, <2>1, <2>4, Zenon DEF Balance, Expected, Given
  <2>7. k = r + hp + hl + (qt + qf + ps) + b + hx
    <3>1. /\ n \in Nat /\ k \in Nat /\ r \in Nat /\ z = 0 /\ b \in Nat
          /\ ht \in Nat /\ hf \in Nat /\ nt \in Nat /\ nf \in Nat /\ hx \in Nat /\ hp \in Nat
          /\ hl \in Nat /\ pt \in Nat /\ pf \in Nat /\ ps \in Nat
      BY <2>2, <2>3, <2>5
    <3> HIDE DEF n, k, ht, hf, nt, nf, hx, hp, hl, r, b, z, pt, pf, ps, qt, qf
    <3> QED BY <2>6, <3>1
  <2> QED BY <1>1, <2>7, Zenon DEF Expected, Given
<1>4. Serve(v)
  BY <1>1 DEF Sound, Serve
<1>5. ASSUME NEW c \in Creature
      PROVE  Lives(v, x, c)
  <2>1. Lives(w, x, c)
    BY DEF Sound
  <2>2. v.refs[c] = 0 <=> w.refs[c] = 0
    BY <1>00 DEF Alike
  <2>3. /\ v.targets[c] = IF c = m THEN T ELSE w.targets[c]
        /\ v.friends[c] = IF c = m THEN F ELSE w.friends[c]
    BY <1>0, <1>2 DEF Lists
  <2>4. c # m => v.targets[c] = w.targets[c] /\ v.friends[c] = w.friends[c]
    BY <2>3
  <2>5. c = m => v.targets[c] = T /\ v.friends[c] = F
    BY <2>3
  <2>6. v.refs[c] = 0 => v.targets[c] = {} /\ v.friends[c] = {} /\ v.summons[c] = {}
    BY <1>0, <1>1, <2>1, <2>2, <2>4, <2>5 DEF Lives
  <2> QED BY <1>1, <2>1, <2>2, <2>6 DEF Lives
<1>6. Sound(v, back, x)
  BY <1>0, <1>1, <1>3, <1>4, <1>5 DEF Sound
<1>7. Calmer(w, v)
  <2>1. Same(w, v, {"refs", "targets", "friends", "summons", "listed", "checked", "dying",
                     "attacked", "master"})
    BY <1>0 DEF Same
  <2> QED BY <1>1, <2>1, CalmerSame
<1> QED
  BY <1>6, <1>7

Shorter(w, m, T, F) == [w EXCEPT !.targets[m] = T, !.friends[m] = F]
Cut(w, m, T, F) ==
  [c \in Creature |-> Holds(w.targets[m] \ T, c) + Holds(w.friends[m] \ F, c)]
Forgetting(w, m, T, F) == GiveBack(Shorter(w, m, T, F), Cut(w, m, T, F))

LEMMA Forget ==
  ASSUME NEW w, NEW x \in Creature \cup {None}, NEW k, Good(w, k, x), NEW m \in Creature,
         NEW T \in SUBSET w.targets[m], NEW F \in SUBSET w.friends[m]
  PROVE  LET v == Forgetting(w, m, T, F)
         IN Good(v, k, x) /\ Calmer(w, v) /\ v.targets[m] \subseteq T /\ v.dying = w.dying
<1> DEFINE u == Shorter(w, m, T, F)
           back == Cut(w, m, T, F)
<1>1. w \in World /\ Sound(w, Zero, x) /\ Watching(w, k)
  BY DEF Good, Sound
<1>2. w.targets[m] \in SUBSET Creature /\ w.friends[m] \in SUBSET Creature
  BY <1>1 DEF World
<1>3. T \in SUBSET Creature /\ F \in SUBSET Creature
  BY <1>2
<1>4. \A S, c : Holds(S, c) \in Nat
  BY HoldsNat
<1>5. back \in [Creature -> Nat]
  BY <1>4 DEF Cut
<1>6. /\ u \in World /\ Same(w, u, {"targets", "friends"})
      /\ u.targets = [w.targets EXCEPT ![m] = T] /\ u.friends = [w.friends EXCEPT ![m] = F]
  <2> DEFINE t == [w.targets EXCEPT ![m] = T]
             f == [w.friends EXCEPT ![m] = F]
             a == [w EXCEPT !.targets = t]
             b == [a EXCEPT !.friends = f]
  <2>1. t \in Lists /\ f \in Lists
    BY <1>1, <1>3 DEF World, Lists
  <2>2. u = b
    BY <1>1 DEF World, Shorter
  <2> HIDE DEF t, f
  <2>3. a \in World /\ a.targets = t /\ Same(w, a, {"targets"})
    BY <1>1, <2>1, PutTargets DEF Lists
  <2> HIDE DEF a
  <2>4. b \in World /\ b.friends = f /\ Same(a, b, {"friends"})
    BY <2>1, <2>3, PutFriends DEF Lists
  <2> HIDE DEF b
  <2>5. b.targets = t
    BY <2>3, <2>4 DEF Same, Fields
  <2>6. Same(w, b, {"targets", "friends"})
    BY <2>3, <2>4 DEF Same, Fields
  <2> QED BY <2>2, <2>3, <2>4, <2>5, <2>6 DEF t, f
<1> HIDE DEF u
<1>7. u.refs = w.refs
  BY <1>6 DEF Same, Fields
<1>8. ASSUME NEW c \in Creature
      PROVE  u.refs[c] + Holds(w.targets[m], c) + Holds(w.friends[m], c)
               = w.refs[c] + Holds(T, c) + Holds(F, c) + back[c]
  <2>1. back[c] = Holds(w.targets[m] \ T, c) + Holds(w.friends[m] \ F, c)
    BY DEF Cut
  <2>2. /\ Holds(w.targets[m], c) = Holds(T, c) + Holds(w.targets[m] \ T, c)
        /\ Holds(w.friends[m], c) = Holds(F, c) + Holds(w.friends[m] \ F, c)
    BY DEF Holds
  <2> DEFINE n == w.refs[c]  a == Holds(T, c)  b == Holds(F, c)
             d == Holds(w.targets[m] \ T, c)  e == Holds(w.friends[m] \ F, c)
  <2>3. n \in Nat /\ a \in Nat /\ b \in Nat /\ d \in Nat /\ e \in Nat
    BY <1>1, <1>4 DEF World
  <2>4. n + (a + d) + (b + e) = n + a + b + (d + e)
    <3> HIDE DEF n, a, b, d, e
    <3> QED BY <2>3
  <2> QED BY <1>7, <2>1, <2>2, <2>4
<1> HIDE DEF back
<1>9. w.refs[m] = 0 => T = {} /\ F = {}
  BY <1>1 DEF Sound, Lives
<1>10. Sound(u, back, x) /\ Calmer(w, u)
  <2>1. Same(w, u, {"targets", "friends", "refs"})
    BY <1>6 DEF Same
  <2>2. \A c \in Creature : u.refs[c] = 0 <=> w.refs[c] = 0
    BY <1>7
  <2>3. \A c \in Creature : /\ u.refs[c] + Holds(w.targets[m], c) + Holds(w.friends[m], c)
                                   = w.refs[c] + Holds(T, c) + Holds(F, c) + back[c]
                            /\ u.refs[c] = 0 <=> w.refs[c] = 0
    BY <1>8, <2>2
  <2>4. Relisted(w, u, back, m, T, F)
    BY <1>3, <1>5, <1>6, <1>9, <2>1, <2>3 DEF Relisted
  <2> QED BY <1>1, <2>4, Relist
<1>11. Watching(u, k)
  <2>1. u.placed = w.placed /\ u.dying = w.dying /\ u.checked = w.checked
    BY <1>6 DEF Same, Fields
  <2>2. \A n \in Creature : u.targets[n] \subseteq w.targets[n]
    BY <1>1, <1>6 DEF World
  <2> QED BY <1>1, <2>1, <2>2 DEF Watching, Creature
<1> DEFINE v == GiveBack(u, back)
<1>12. Good(v, k, x) /\ Calmer(u, v) /\ Lessens(u, v)
  BY <1>5, <1>10, <1>11, GiveBackGood
<1> HIDE DEF v
<1>13. v.targets[m] \subseteq T /\ v.dying = w.dying
  <2>1. v.targets[m] \subseteq u.targets[m] /\ v.dying = u.dying
    BY <1>12 DEF Lessens, Same, Fields
  <2>2. u.targets[m] = T /\ u.dying = w.dying
    BY <1>1, <1>6 DEF Same, Fields, World
  <2> QED BY <2>1, <2>2
<1>14. Calmer(w, v)
  <2>1. v \in World
    BY <1>12 DEF Good, Sound
  <2> QED BY <1>1, <1>6, <1>10, <1>12, <2>1, CalmerTwice
<1> QED
  BY <1>12, <1>13, <1>14 DEF v, u, back, Forgetting

LEMMA ClearListsGood ==
  ASSUME NEW w, NEW x \in Creature \cup {None}, NEW k, Good(w, k, x), NEW m \in Creature
  PROVE  LET v == ClearLists(w, m)
         IN Good(v, k, x) /\ Calmer(w, v) /\ v.targets[m] = {} /\ v.dying = w.dying
<1>1. ClearLists(w, m) = Forgetting(w, m, {}, {})
  BY DEF ClearLists, Forgetting, Shorter, Cut
<1>2. LET v == Forgetting(w, m, {}, {})
      IN Good(v, k, x) /\ Calmer(w, v) /\ v.targets[m] \subseteq {} /\ v.dying = w.dying
  <2> DEFINE T == {}
             F == {}
  <2>1. T \in SUBSET w.targets[m] /\ F \in SUBSET w.friends[m]
    OBVIOUS
  <2>2. T = {} /\ F = {}
    OBVIOUS
  <2> HIDE DEF T, F
  <2>3. LET v == Forgetting(w, m, T, F)
        IN Good(v, k, x) /\ Calmer(w, v) /\ v.targets[m] \subseteq T /\ v.dying = w.dying
    BY <2>1, Forget
  <2> QED BY <2>2, <2>3
<1> QED
  BY <1>1, <1>2

LEMMA ForgetStaleGood ==
  ASSUME NEW w, NEW x \in Creature \cup {None}, NEW k, Good(w, k, x), NEW m \in Creature
  PROVE  LET v == ForgetStale(w, m) IN Good(v, k, x) /\ Calmer(w, v)
<1> DEFINE t == Stale(w, m, w.targets[m])
           f == Stale(w, m, w.friends[m])
           T == w.targets[m] \ t
           F == w.friends[m] \ f
<1>1. ForgetStale(w, m) = Forgetting(w, m, T, F)
  <2>1. w.targets[m] \ T = t /\ w.friends[m] \ F = f
    BY DEF Stale
  <2>2. /\ Shorter(w, m, T, F) = [w EXCEPT !.targets[m] = @ \ t, !.friends[m] = @ \ f]
        /\ Cut(w, m, T, F) = [c \in Creature |-> Holds(t, c) + Holds(f, c)]
    <3> HIDE DEF t, f
    <3>1. Cut(w, m, T, F) = [c \in Creature |-> Holds(t, c) + Holds(f, c)]
      BY <2>1 DEF Cut
    <3> QED BY <3>1 DEF Shorter, Good, Sound, World
  <2> QED BY <2>2 DEF ForgetStale, Forgetting
<1>2. T \in SUBSET w.targets[m] /\ F \in SUBSET w.friends[m]
  OBVIOUS
<1> HIDE DEF T, F
<1>3. LET v == Forgetting(w, m, T, F)
      IN Good(v, k, x) /\ Calmer(w, v)
  BY <1>2, Forget
<1> QED BY <1>1, <1>3

LEMMA RemoveTargetGood ==
  ASSUME NEW w, NEW x \in Creature \cup {None}, NEW k, Good(w, k, x), NEW m \in Creature,
         NEW c \in Creature
  PROVE  LET v == RemoveTarget(w, m, c) IN Good(v, k, x) /\ Calmer(w, v)
<1>1. CASE c \in w.targets[m]
  <2> DEFINE T == w.targets[m] \ {c}
             F == w.friends[m]
  <2>1. Shorter(w, m, T, F) = [w EXCEPT !.targets[m] = @ \ {c}]
    BY DEF Shorter, Good, Sound, World
  <2>2. Cut(w, m, T, F) = [d \in Creature |-> Holds({c}, d)]
    <3>1. w.targets[m] \ T = {c} /\ w.friends[m] \ F = {}
      BY <1>1
    <3>2. \A d \in Creature : Holds({}, d) = 0 /\ Holds({c}, d) \in Nat
      BY HoldsNat DEF Holds
    <3>3. \A d \in Creature : Holds({c}, d) + Holds({}, d) = Holds({c}, d)
      BY <3>2
    <3> QED BY <3>1, <3>3 DEF Cut
  <2>3. RemoveTarget(w, m, c) = Forgetting(w, m, T, F)
    BY <1>1, <2>1, <2>2 DEF RemoveTarget, Dec, Forgetting
  <2>4. T \in SUBSET w.targets[m] /\ F \in SUBSET w.friends[m]
    OBVIOUS
  <2> HIDE DEF T, F
  <2>5. LET v == Forgetting(w, m, T, F)
        IN Good(v, k, x) /\ Calmer(w, v)
    BY <2>4, Forget
  <2> QED BY <2>3, <2>5
<1>2. CASE c \notin w.targets[m]
  <2>1. Calmer(w, w)
    BY CalmerSame DEF Good, Same
  <2> QED BY <1>2, <2>1 DEF RemoveTarget
<1> QED BY <1>1, <1>2

LEMMA RemoveFriendGood ==
  ASSUME NEW w, NEW x \in Creature \cup {None}, NEW k, Good(w, k, x), NEW m \in Creature,
         NEW c \in Creature
  PROVE  LET v == RemoveFriend(w, m, c) IN Good(v, k, x) /\ Calmer(w, v)
<1>1. CASE c \in w.friends[m]
  <2> DEFINE T == w.targets[m]
             F == w.friends[m] \ {c}
  <2>1. Shorter(w, m, T, F) = [w EXCEPT !.friends[m] = @ \ {c}]
    BY DEF Shorter, Good, Sound, World
  <2>2. Cut(w, m, T, F) = [d \in Creature |-> Holds({c}, d)]
    <3>1. w.friends[m] \ F = {c} /\ w.targets[m] \ T = {}
      BY <1>1
    <3>2. \A d \in Creature : Holds({}, d) = 0 /\ Holds({c}, d) \in Nat
      BY HoldsNat DEF Holds
    <3>3. \A d \in Creature : Holds({}, d) + Holds({c}, d) = Holds({c}, d)
      BY <3>2
    <3> QED BY <3>1, <3>3 DEF Cut
  <2>3. RemoveFriend(w, m, c) = Forgetting(w, m, T, F)
    BY <1>1, <2>1, <2>2 DEF RemoveFriend, Dec, Forgetting
  <2>4. T \in SUBSET w.targets[m] /\ F \in SUBSET w.friends[m]
    OBVIOUS
  <2> HIDE DEF T, F
  <2>5. LET v == Forgetting(w, m, T, F)
        IN Good(v, k, x) /\ Calmer(w, v)
    BY <2>4, Forget
  <2> QED BY <2>3, <2>5
<1>2. CASE c \notin w.friends[m]
  <2>1. Calmer(w, w)
    BY CalmerSame DEF Good, Same
  <2> QED BY <1>2, <2>1 DEF RemoveFriend
<1> QED BY <1>1, <1>2

(* Who has a reference may be listed, and have lists. *)
LEMMA AddTargetGood ==
  ASSUME NEW w, NEW x \in Creature \cup {None}, NEW m \in Creature, Good(w, m, x),
         NEW c \in Creature, w.refs[m] # 0, w.refs[c] # 0
  PROVE  LET v == AddTarget(w, m, c) IN Good(v, m, x) /\ Calmer(w, v)
<1>1. CASE c \in w.targets[m]
  <2>1. Calmer(w, w)
    BY CalmerSame DEF Good, Same
  <2> QED BY <1>1, <2>1 DEF AddTarget
<1>2. CASE c \notin w.targets[m]
  <2> DEFINE T == w.targets[m] \cup {c}
             t == [w.targets EXCEPT ![m] = T]
             u == [w EXCEPT !.targets = t]
             e == [u.refs EXCEPT ![c] = @ + 1]
             v == [u EXCEPT !.refs = e]
  <2>1. w \in World /\ Sound(w, Zero, x) /\ Watching(w, m)
    BY DEF Good, Sound
  <2>2. T \in SUBSET Creature /\ t \in Lists /\ w.friends[m] \in SUBSET Creature
    BY <2>1 DEF World, Lists
  <2>3. v = AddTarget(w, m, c)
    BY <1>2 DEF AddTarget, Inc
  <2> HIDE DEF t
  <2>4. u \in World /\ u.targets = t /\ Same(w, u, {"targets"})
    BY <2>1, <2>2, PutTargets DEF Lists
  <2> HIDE DEF u
  <2>5. u.refs = w.refs
    BY <2>4 DEF Same, Fields
  <2>6. e \in [Creature -> Nat]
    BY <2>4 DEF World
  <2> HIDE DEF e
  <2>7. v \in World /\ v.refs = e /\ Same(u, v, {"refs"})
    BY <2>4, <2>6, PutRefs
  <2> HIDE DEF v
  <2>8. Same(w, v, {"targets", "friends", "refs"}) /\ v.friends = w.friends /\ v.targets = t
    BY <2>4, <2>7 DEF Same, Fields
  <2>9. \A d \in Creature : e[d] = IF d = c THEN w.refs[c] + 1 ELSE w.refs[d]
    BY <2>1, <2>5 DEF e, World
  <2>10. ASSUME NEW d \in Creature
         PROVE  v.refs[d] + Holds(w.targets[m], d) + Holds(w.friends[m], d)
                  = w.refs[d] + Holds(T, d) + Holds(w.friends[m], d) + Zero[d]
    <3>1. Holds(w.friends[m], d) \in Nat /\ Holds(w.targets[m], d) \in Nat
            /\ Zero[d] = 0 /\ w.refs[d] \in Nat
      BY <2>1, HoldsNat DEF Zero, World
    <3>2. CASE d = c
      <4>1. Holds(w.targets[m], d) = 0 /\ Holds(T, d) = 1 /\ v.refs[d] = w.refs[d] + 1
        BY <1>2, <2>7, <2>9, <3>2 DEF Holds
      <4> QED BY <3>1, <4>1
    <3>3. CASE d # c
      <4>1. Holds(w.targets[m], d) = Holds(T, d) /\ v.refs[d] = w.refs[d]
        BY <2>7, <2>9, <3>3 DEF Holds
      <4> QED BY <3>1, <4>1
    <3> QED BY <3>2, <3>3
  <2>11. \A d \in Creature : v.refs[d] = 0 <=> w.refs[d] = 0
    <3>1. w.refs[c] \in Nat
      BY <2>1 DEF World
    <3> QED BY <2>7, <2>9, <3>1
  <2>12. v.friends = [w.friends EXCEPT ![m] = w.friends[m]] /\ v.targets = [w.targets EXCEPT ![m] = T]
    BY <2>1, <2>8 DEF t, World
  <2>13. Zero \in [Creature -> Nat]
    BY DEF Zero
  <2>14. Sound(v, Zero, x) /\ Calmer(w, v)
    <3>1. \A d \in Creature :
            /\ v.refs[d] + Holds(w.targets[m], d) + Holds(w.friends[m], d)
                 = w.refs[d] + Holds(T, d) + Holds(w.friends[m], d) + Zero[d]
            /\ v.refs[d] = 0 <=> w.refs[d] = 0
      BY <2>10, <2>11
    <3>2. w.refs[m] = 0 => T = {} /\ w.friends[m] = {}
      OBVIOUS
    <3> HIDE DEF T
    <3>3. Relisted(w, v, Zero, m, T, w.friends[m])
      BY <2>2, <2>7, <2>8, <2>12, <2>13, <3>1, <3>2 DEF Relisted
    <3> QED BY <2>1, <3>3, Relist
  <2>15. Watching(v, m)
    <3>1. v.placed = w.placed /\ v.dying = w.dying /\ v.checked = w.checked
      BY <2>8 DEF Same, Fields
    <3>2. \A n \in Creature \ {m} : v.targets[n] = w.targets[n]
      BY <2>1, <2>12 DEF World
    <3> QED BY <2>1, <3>1, <3>2 DEF Watching, Creature
  <2> QED BY <2>3, <2>14, <2>15 DEF Good
<1> QED BY <1>1, <1>2

LEMMA AddFriendGood ==
  ASSUME NEW w, NEW x \in Creature \cup {None}, NEW k, Good(w, k, x), NEW m \in Creature,
         NEW c \in Creature, w.refs[m] # 0, w.refs[c] # 0
  PROVE  LET v == AddFriend(w, m, c) IN Good(v, k, x) /\ Calmer(w, v)
<1>1. CASE c \in w.friends[m]
  <2>1. Calmer(w, w)
    BY CalmerSame DEF Good, Same
  <2> QED BY <1>1, <2>1 DEF AddFriend
<1>2. CASE c \notin w.friends[m]
  <2> DEFINE T == w.friends[m] \cup {c}
             t == [w.friends EXCEPT ![m] = T]
             u == [w EXCEPT !.friends = t]
             e == [u.refs EXCEPT ![c] = @ + 1]
             v == [u EXCEPT !.refs = e]
  <2>1. w \in World /\ Sound(w, Zero, x) /\ Watching(w, k)
    BY DEF Good, Sound
  <2>2. T \in SUBSET Creature /\ t \in Lists /\ w.targets[m] \in SUBSET Creature
    BY <2>1 DEF World, Lists
  <2>3. v = AddFriend(w, m, c)
    BY <1>2 DEF AddFriend, Inc
  <2> HIDE DEF t
  <2>4. u \in World /\ u.friends = t /\ Same(w, u, {"friends"})
    BY <2>1, <2>2, PutFriends DEF Lists
  <2> HIDE DEF u
  <2>5. u.refs = w.refs
    BY <2>4 DEF Same, Fields
  <2>6. e \in [Creature -> Nat]
    BY <2>4 DEF World
  <2> HIDE DEF e
  <2>7. v \in World /\ v.refs = e /\ Same(u, v, {"refs"})
    BY <2>4, <2>6, PutRefs
  <2> HIDE DEF v
  <2>8. Same(w, v, {"targets", "friends", "refs"}) /\ v.targets = w.targets /\ v.friends = t
    BY <2>4, <2>7 DEF Same, Fields
  <2>9. \A d \in Creature : e[d] = IF d = c THEN w.refs[c] + 1 ELSE w.refs[d]
    BY <2>1, <2>5 DEF e, World
  <2>10. ASSUME NEW d \in Creature
         PROVE  v.refs[d] + Holds(w.targets[m], d) + Holds(w.friends[m], d)
                  = w.refs[d] + Holds(w.targets[m], d) + Holds(T, d) + Zero[d]
    <3>1. Holds(w.targets[m], d) \in Nat /\ Holds(w.friends[m], d) \in Nat
            /\ Zero[d] = 0 /\ w.refs[d] \in Nat
      BY <2>1, HoldsNat DEF Zero, World
    <3>2. CASE d = c
      <4>1. Holds(w.friends[m], d) = 0 /\ Holds(T, d) = 1 /\ v.refs[d] = w.refs[d] + 1
        BY <1>2, <2>7, <2>9, <3>2 DEF Holds
      <4> QED BY <3>1, <4>1
    <3>3. CASE d # c
      <4>1. Holds(w.friends[m], d) = Holds(T, d) /\ v.refs[d] = w.refs[d]
        BY <2>7, <2>9, <3>3 DEF Holds
      <4> QED BY <3>1, <4>1
    <3> QED BY <3>2, <3>3
  <2>11. \A d \in Creature : v.refs[d] = 0 <=> w.refs[d] = 0
    <3>1. w.refs[c] \in Nat
      BY <2>1 DEF World
    <3> QED BY <2>7, <2>9, <3>1
  <2>12. v.targets = [w.targets EXCEPT ![m] = w.targets[m]] /\ v.friends = [w.friends EXCEPT ![m] = T]
    BY <2>1, <2>8 DEF t, World
  <2>13. Zero \in [Creature -> Nat]
    BY DEF Zero
  <2>14. Sound(v, Zero, x) /\ Calmer(w, v)
    <3>1. \A d \in Creature :
            /\ v.refs[d] + Holds(w.targets[m], d) + Holds(w.friends[m], d)
                 = w.refs[d] + Holds(w.targets[m], d) + Holds(T, d) + Zero[d]
            /\ v.refs[d] = 0 <=> w.refs[d] = 0
      BY <2>10, <2>11
    <3>2. w.refs[m] = 0 => T = {} /\ w.targets[m] = {}
      OBVIOUS
    <3> HIDE DEF T
    <3>3. Relisted(w, v, Zero, m, w.targets[m], T)
      BY <2>2, <2>7, <2>8, <2>12, <2>13, <3>1, <3>2 DEF Relisted
    <3> QED BY <2>1, <3>3, Relist
  <2>15. Watching(v, k)
    <3>1. v.placed = w.placed /\ v.dying = w.dying /\ v.checked = w.checked
      BY <2>8 DEF Same, Fields
    <3>2. v.targets = w.targets
      BY <2>8
    <3> QED BY <2>1, <3>1, <3>2 DEF Watching, Creature
  <2> QED BY <2>3, <2>14, <2>15 DEF Good
<1> QED BY <1>1, <1>2

LEMMA KeptReferenced ==
  ASSUME NEW w, NEW x, Sound(w, Zero, x), NEW c \in Creature, c \in Kept(w)
  PROVE  w.refs[c] # 0
<1>1. Zero \in [Creature -> Nat]
  BY DEF Zero
<1>2. w.refs[c] > 0 /\ w.refs[c] \in Nat
  BY <1>1, Referenced
<1> QED BY <1>2

(* The check lists *)
LEMMA AddCreatureCheckGood ==
  ASSUME NEW w, NEW x \in Creature \cup {None}, NEW c \in Creature, Good(w, c, x),
         w.refs[c] # 0
  PROVE  LET v == AddCreatureCheck(w, c)
         IN Good(v, None, x) /\ Calmer(w, v) /\ c \in v.checked
<1>1. w \in World /\ Sound(w, Zero, x) /\ Watching(w, c)
  BY DEF Good, Sound
<1>2. w.listed \in SUBSET Creature /\ w.checked \in SUBSET Creature
  BY <1>1 DEF World
<1> DEFINE ch == w.checked \cup {c}
           li == w.listed \cup {c}
           e == IF c \in w.listed THEN w.refs ELSE [w.refs EXCEPT ![c] = @ + 1]
           a == [w EXCEPT !.checked = ch]
           b == [a EXCEPT !.listed = li]
           v == [b EXCEPT !.refs = e]
<1>3. v = AddCreatureCheck(w, c)
  BY <1>1, <1>2 DEF AddCreatureCheck, Inc, World
<1>4. a \in World /\ a.checked = ch /\ Same(w, a, {"checked"})
  BY <1>1, <1>2, PutChecked
<1> HIDE DEF a
<1>5. b \in World /\ b.listed = li /\ Same(a, b, {"listed"})
  BY <1>2, <1>4, PutListed
<1> HIDE DEF b
<1>6. e \in [Creature -> Nat]
  BY <1>1 DEF World
<1>7. \A d \in Creature : e[d] = IF d = c /\ c \notin w.listed THEN w.refs[c] + 1 ELSE w.refs[d]
  BY <1>1 DEF World
<1> HIDE DEF e
<1>8. v \in World /\ v.refs = e /\ Same(b, v, {"refs"})
  BY <1>5, <1>6, PutRefs
<1> HIDE DEF v
<1>9. /\ Same(w, v, {"refs", "listed", "checked"})
      /\ v.checked = ch /\ v.listed = li /\ v.refs = e
  BY <1>4, <1>5, <1>8 DEF Same, Fields
<1>10. /\ v.room = w.room /\ v.placed = w.placed /\ v.removed = w.removed /\ v.dying = w.dying
       /\ v.freed = w.freed /\ v.releases = w.releases /\ v.targets = w.targets
       /\ v.friends = w.friends /\ v.summons = w.summons /\ v.attacked = w.attacked
       /\ v.master = w.master
  BY <1>9 DEF Same, Fields
<1>11. Counts(v, Zero, x)
  <2> SUFFICES ASSUME NEW d \in Creature
               PROVE  v.refs[d] = Expected(v, d) + Zero[d] + Holds({x}, d)
    BY DEF Counts
  <2>1. w.refs[d] = Expected(w, d) + Zero[d] + Holds({x}, d) /\ Zero[d] = 0
    BY <1>1 DEF Sound, Counts, Zero
  <2>2. /\ Expected(w, d) = w.releases[d] + Holds(w.placed, d) + Holds(w.listed, d)
                              + Given(w, Creature, d)
        /\ Expected(v, d) = v.releases[d] + Holds(v.placed, d) + Holds(v.listed, d)
                              + Given(v, Creature, d)
        /\ Given(w, Creature, d) \in Nat /\ w.releases[d] \in Nat
    BY <1>1, <1>8, ExpectedNat
  <2>3. Given(v, Creature, d) = Given(w, Creature, d)
    BY <1>10 DEF Given
  <2>4. Holds(w.placed, d) \in Nat /\ Holds({x}, d) \in Nat /\ Holds(w.listed, d) \in Nat
    BY HoldsNat
  <2>5. CASE d = c /\ c \notin w.listed
    <3>1. Holds(w.listed, d) = 0 /\ Holds(v.listed, d) = 1 /\ v.refs[d] = w.refs[d] + 1
      BY <1>7, <1>9, <2>5 DEF Holds
    <3> QED BY <1>10, <2>1, <2>2, <2>3, <2>4, <3>1
  <2>6. CASE ~(d = c /\ c \notin w.listed)
    <3>1. Holds(w.listed, d) = Holds(v.listed, d) /\ v.refs[d] = w.refs[d]
      BY <1>7, <1>9, <2>6 DEF Holds
    <3> QED BY <1>10, <2>1, <2>2, <2>3, <2>4, <3>1
  <2> QED BY <2>5, <2>6
<1>12. ASSUME NEW d \in Creature
       PROVE  Lives(v, x, d)
  <2>1. Lives(w, x, d)
    BY <1>1 DEF Sound
  <2>2. v.refs[d] = 0 <=> w.refs[d] = 0
    <3>1. w.refs[c] \in Nat
      BY <1>1 DEF World
    <3> QED BY <1>7, <1>9, <3>1
  <2> QED BY <1>10, <2>1, <2>2 DEF Lives
<1>13. Sound(v, Zero, x)
  <2>1. Serve(v) /\ v.placed \cap v.removed = {} /\ v.checked \subseteq v.listed
    BY <1>1, <1>9, <1>10 DEF Sound, Serve
  <2> QED BY <1>8, <1>11, <1>12, <2>1 DEF Sound
<1>14. Watching(v, None) /\ c \in v.checked
  BY <1>1, <1>9, <1>10 DEF Watching
<1>15. Calmer(w, v)
  <2>1. Same(w, v, {"refs", "targets", "friends", "summons", "listed", "checked", "dying",
                     "attacked", "master"})
    BY <1>9 DEF Same
  <2> QED BY <1>1, <1>10, <2>1, CalmerSame
<1> QED
  BY <1>3, <1>13, <1>14, <1>15 DEF Good

LEMMA RemoveCreatureCheckGood ==
  ASSUME NEW w, NEW x \in Creature \cup {None}, NEW k, NEW c \in Creature, Good(w, k, x),
         k \in {None, c},
         c \in w.placed \cap Monsters => c \notin w.dying /\ w.targets[c] = {}
  PROVE  LET v == RemoveCreatureCheck(w, c) IN Good(v, None, x) /\ Calmer(w, v)
<1>1. w \in World /\ Sound(w, Zero, x) /\ Watching(w, k)
  BY DEF Good, Sound
<1> DEFINE ch == w.checked \ {c}
           v == [w EXCEPT !.checked = ch]
<1>2. ch \in SUBSET Creature
  BY <1>1 DEF World
<1>3. v = RemoveCreatureCheck(w, c)
  <2>1. w.checked \subseteq w.listed
    BY <1>1 DEF Sound
  <2>2. c \notin w.listed => ch = w.checked
    BY <2>1
  <2> QED BY <1>1, <2>2 DEF RemoveCreatureCheck, World
<1>4. v \in World /\ v.checked = ch /\ Same(w, v, {"checked"})
  BY <1>1, <1>2, PutChecked
<1> HIDE DEF v
<1>5. /\ v.room = w.room /\ v.placed = w.placed /\ v.removed = w.removed /\ v.dying = w.dying
      /\ v.freed = w.freed /\ v.releases = w.releases /\ v.targets = w.targets
      /\ v.friends = w.friends /\ v.summons = w.summons /\ v.attacked = w.attacked
      /\ v.master = w.master /\ v.refs = w.refs /\ v.listed = w.listed
  BY <1>4 DEF Same, Fields
<1>6. Sound(v, Zero, x)
  <2>1. \A d \in Creature : Expected(v, d) = Expected(w, d)
    BY <1>5 DEF Expected, Given
  <2>2. Counts(v, Zero, x) /\ Serve(v)
    BY <1>1, <1>5, <2>1 DEF Sound, Counts, Serve
  <2>3. \A d \in Creature : Lives(v, x, d)
    BY <1>1, <1>5 DEF Sound, Lives
  <2> QED BY <1>1, <1>4, <1>5, <2>2, <2>3 DEF Sound
<1>7. Watching(v, None)
  BY <1>1, <1>4, <1>5 DEF Watching, Creature
<1>8. Calmer(w, v)
  <2>1. Same(w, v, {"refs", "targets", "friends", "summons", "listed", "checked", "dying",
                     "attacked", "master"})
    BY <1>4 DEF Same
  <2> QED BY <1>1, <1>5, <2>1, CalmerSame
<1> QED
  BY <1>3, <1>6, <1>7, <1>8 DEF Good

-----------------------------------------------------------------------------
(* What a monster makes of those it finds and loses keeps the world good. *)
LEMMA CalmerSelf ==
  ASSUME NEW w, NEW back, NEW x, Sound(w, back, x)
  PROVE  Calmer(w, w)
BY CalmerSame DEF Same

LEMMA CalmerKept ==
  ASSUME NEW w, NEW v, Calmer(w, v)
  PROVE  Kept(v) = Kept(w)
BY DEF Calmer

LEMMA GoodTwice ==
  ASSUME NEW w, NEW v, NEW u, NEW x, NEW y, NEW z, NEW k, NEW l, NEW m,
         Good(w, k, x), Good(v, l, y), Good(u, m, z), Calmer(w, v), Calmer(v, u)
  PROVE  Calmer(w, u)
BY CalmerTwice DEF Good, Sound

LEMMA GoodOf ==
  ASSUME NEW w, NEW x, NEW m, Good(w, None, x)
  PROVE  Good(w, m, x)
BY Constants DEF Good, Watching, Creature

LEMMA SetIdleGood ==
  ASSUME NEW w, NEW x \in Creature \cup {None}, NEW m \in Creature, Good(w, m, x),
         NEW idle \in BOOLEAN, ~idle => w.refs[m] # 0
  PROVE  LET v == SetIdle(w, m, idle)
         IN /\ Good(v, None, x) /\ Calmer(w, v)
            /\ ~idle /\ m \notin w.removed \cup w.dying => m \in v.checked
<1>1. CASE m \in w.removed \cup w.dying
  <2>1. SetIdle(w, m, idle) = w
    BY <1>1 DEF SetIdle
  <2>2. Watching(w, None)
    BY <1>1 DEF Good, Sound, Watching
  <2>3. Good(w, None, x)
    BY <2>2 DEF Good
  <2>4. Calmer(w, w)
    BY CalmerSelf DEF Good
  <2> QED BY <1>1, <2>1, <2>3, <2>4
<1>2. CASE m \notin w.removed \cup w.dying /\ idle
  <2> DEFINE u == ClearLists(w, m)
             v == RemoveCreatureCheck(u, m)
  <2>1. Good(u, m, x) /\ Calmer(w, u) /\ u.targets[m] = {} /\ u.dying = w.dying
    BY ClearListsGood
  <2> HIDE DEF u
  <2>2. Good(v, None, x) /\ Calmer(u, v)
    BY <1>2, <2>1, RemoveCreatureCheckGood
  <2>3. Calmer(w, v)
    BY <2>1, <2>2, GoodTwice
  <2>4. SetIdle(w, m, idle) = v
    BY <1>2 DEF SetIdle, u
  <2> HIDE DEF v
  <2> QED BY <1>2, <2>2, <2>3, <2>4
<1>3. CASE m \notin w.removed \cup w.dying /\ ~idle
  <2>1. SetIdle(w, m, idle) = AddCreatureCheck(w, m)
    BY <1>3 DEF SetIdle
  <2>2. w.refs[m] # 0
    BY <1>3
  <2> DEFINE v == AddCreatureCheck(w, m)
  <2>3. Good(v, None, x) /\ Calmer(w, v) /\ m \in v.checked
    BY <2>2, AddCreatureCheckGood
  <2> HIDE DEF v
  <2> QED BY <2>1, <2>3 DEF v
<1> QED BY <1>1, <1>2, <1>3

LEMMA UpdateIdleStatusGood ==
  ASSUME NEW w, NEW x \in Creature \cup {None}, NEW m \in Creature, Good(w, m, x),
         w.refs[m] # 0
  PROVE  LET v == UpdateIdleStatus(w, m) IN Good(v, None, x) /\ Calmer(w, v)
<1> DEFINE idle == w.master[m] = None /\ w.targets[m] = {}
           v == SetIdle(w, m, idle)
<1>1. idle \in BOOLEAN
  OBVIOUS
<1>2. v = UpdateIdleStatus(w, m)
  BY DEF UpdateIdleStatus
<1> HIDE DEF idle
<1>3. Good(v, None, x) /\ Calmer(w, v)
  BY <1>1, SetIdleGood
<1> QED BY <1>2, <1>3

LEMMA OnCreatureFoundGood ==
  ASSUME NEW w, NEW x \in Creature \cup {None}, NEW m \in Kept(w), NEW c \in Kept(w),
         m \in Creature, c \in Creature, Good(w, None, x)
  PROVE  LET v == OnCreatureFound(w, m, c) IN Good(v, None, x) /\ Calmer(w, v)
<1> DEFINE a == FindFriend(w, m, c)
           b == FindOpponent(a, m, c)
           v == UpdateIdleStatus(b, m)
<1>1. Good(w, m, x) /\ w.refs[m] # 0 /\ w.refs[c] # 0
  BY GoodOf, KeptReferenced DEF Good
<1>2. Good(a, m, x) /\ Calmer(w, a)
  <2>1. Calmer(w, w)
    BY CalmerSelf DEF Good
  <2> QED BY <1>1, <2>1, AddFriendGood DEF FindFriend
<1> HIDE DEF a
<1>3. a.refs[m] # 0 /\ a.refs[c] # 0
  BY <1>2, CalmerKept, KeptReferenced DEF Good
<1>4. Good(b, m, x) /\ Calmer(a, b)
  <2>1. Calmer(a, a)
    BY <1>2, CalmerSelf DEF Good
  <2> QED BY <1>2, <1>3, <2>1, AddTargetGood DEF FindOpponent
<1> HIDE DEF b
<1>5. b.refs[m] # 0
  BY <1>2, <1>4, CalmerKept, KeptReferenced DEF Good
<1>6. Good(v, None, x) /\ Calmer(b, v)
  BY <1>4, <1>5, UpdateIdleStatusGood
<1>7. v = OnCreatureFound(w, m, c)
  BY DEF OnCreatureFound, a, b
<1> HIDE DEF v
<1>8. Calmer(w, b)
  BY <1>1, <1>2, <1>4, GoodTwice
<1>9. Calmer(w, v)
  BY <1>1, <1>4, <1>6, <1>8, GoodTwice
<1> QED BY <1>6, <1>7, <1>9

LEMMA OnCreatureLeaveGood ==
  ASSUME NEW w, NEW x \in Creature \cup {None}, NEW m \in Kept(w), NEW c \in Creature,
         m \in Creature, Good(w, None, x)
  PROVE  LET v == OnCreatureLeave(w, m, c) IN Good(v, None, x) /\ Calmer(w, v)
<1> DEFINE a == LoseFriend(w, m, c)
           b == RemoveTarget(a, m, c)
           d == CalmDown(b, m)
           v == LoseOpponent(a, m, c)
<1>1. Good(a, None, x) /\ Calmer(w, a)
  <2>1. Calmer(w, w)
    BY CalmerSelf DEF Good
  <2> QED BY <2>1, RemoveFriendGood DEF LoseFriend
<1> HIDE DEF a
<1>2. Good(b, None, x) /\ Calmer(a, b)
  BY <1>1, RemoveTargetGood
<1> HIDE DEF b
<1>3. b.refs[m] # 0
  BY <1>1, <1>2, CalmerKept, KeptReferenced DEF Good
<1>4. Good(d, None, x) /\ Calmer(b, d)
  <2>1. Good(b, m, x)
    BY <1>2, GoodOf
  <2>2. Calmer(b, b)
    BY <1>2, CalmerSelf DEF Good
  <2> QED BY <1>2, <1>3, <2>1, <2>2, UpdateIdleStatusGood DEF CalmDown
<1>5. v = IF IsOpponent(a, m, c) THEN d ELSE a
  BY DEF LoseOpponent, b
<1> HIDE DEF d, v
<1>6. Good(v, None, x) /\ Calmer(a, v)
  <2>1. Calmer(a, a)
    BY <1>1, CalmerSelf DEF Good
  <2>2. Calmer(a, d)
    BY <1>1, <1>2, <1>4, GoodTwice
  <2> QED BY <1>1, <1>4, <1>5, <2>1, <2>2
<1>7. Calmer(w, v)
  BY <1>1, <1>6, GoodTwice
<1>8. v = OnCreatureLeave(w, m, c)
  BY DEF OnCreatureLeave, v, a
<1> QED BY <1>6, <1>7, <1>8

-----------------------------------------------------------------------------
(* An attack ends; a master changes. *)
LEMMA StopGood ==
  ASSUME NEW w, NEW x \in Creature \cup {None}, NEW k, NEW s \in Creature, Good(w, k, x)
  PROVE  LET v == SetAttackedCreature(w, s, None)
         IN Good(v, k, x) /\ Calmer(w, v) /\ v.attacked[s] = None
<1>1. w \in World /\ Sound(w, Zero, x) /\ Watching(w, k)
  BY DEF Good, Sound
<1> DEFINE sees == {y \in Creature : None = None \/ Sees(w, y, None)}
           told == Told(w, {s}, sees)
           e == [y \in Creature |-> IF y \notin told THEN w.attacked[y]
                                    ELSE IF y \in sees THEN None ELSE None]
           v == [w EXCEPT !.attacked = e]
<1>2. v = SetAttackedCreature(w, s, None)
  BY DEF SetAttackedCreature
<1>3. s \in told
  BY <1>1, ToldAre
<1> HIDE DEF told
<1>4. e \in [Creature -> Creature \cup {None}]
  BY <1>1 DEF World
<1>5. e[s] = None /\ \A y \in Creature : e[y] \in {w.attacked[y], None}
  BY <1>3
<1> HIDE DEF e
<1>6. v \in World /\ v.attacked = e /\ Same(w, v, {"attacked"})
  BY <1>1, <1>4, PutAttacked
<1> HIDE DEF v
<1>7. /\ v.room = w.room /\ v.placed = w.placed /\ v.removed = w.removed /\ v.dying = w.dying
      /\ v.freed = w.freed /\ v.releases = w.releases /\ v.targets = w.targets
      /\ v.friends = w.friends /\ v.summons = w.summons /\ v.checked = w.checked
      /\ v.master = w.master /\ v.refs = w.refs /\ v.listed = w.listed
  BY <1>6 DEF Same, Fields
<1>8. Sound(v, Zero, x)
  <2>1. \A d \in Creature : Expected(v, d) = Expected(w, d)
    BY <1>7 DEF Expected, Given
  <2>2. Counts(v, Zero, x)
    BY <1>1, <1>7, <2>1 DEF Sound, Counts
  <2>4. Serve(v)
    BY <1>1, <1>7 DEF Sound, Serve
  <2>3. ASSUME NEW d \in Creature
        PROVE  Lives(v, x, d)
    <3>1. Lives(w, x, d)
      BY <1>1 DEF Sound
    <3>2. w.attacked[d] = None => v.attacked[d] = None
      BY <1>5, <1>6
    <3> QED BY <1>7, <3>1, <3>2 DEF Lives
  <2> QED BY <1>1, <1>6, <1>7, <2>2, <2>3, <2>4 DEF Sound
<1>9. Watching(v, k)
  BY <1>1, <1>7 DEF Watching, Creature
<1>10. Calmer(w, v)
  <2>1. Same(w, v, {"refs", "targets", "friends", "summons", "listed", "checked", "dying",
                     "attacked", "master"})
    BY <1>6 DEF Same
  <2> QED BY <1>1, <1>5, <1>6, <1>7, <2>1, CalmerSame
<1> QED
  BY <1>2, <1>5, <1>6, <1>8, <1>9, <1>10 DEF Good

LEMMA SetMasterGood ==
  ASSUME NEW w, NEW x \in Creature \cup {None}, NEW k, Good(w, k, x),
         NEW c \in Creature, NEW new \in Creature \cup {None}, new # w.master[c],
         new # None => w.refs[new] # 0 /\ w.refs[c] # 0
  PROVE  LET v == SetMaster(w, c, new)
         IN /\ Good(v, k, x) /\ Calmer([w EXCEPT !.master[c] = new], v)
            /\ new = None => Calmer(w, v)
<1>1. w \in World /\ Sound(w, Zero, x) /\ Watching(w, k)
  BY DEF Good, Sound
<1>2. w.master \in [Creature -> Creature \cup {None}] /\ w.summons \in Lists /\ None \notin Creature
  BY <1>1, Constants DEF World, Lists
<1> DEFINE old == w.master[c]
           one == IF new = None THEN w.summons ELSE [w.summons EXCEPT ![new] = @ \cup {c}]
           two == IF old = None THEN one ELSE [one EXCEPT ![old] = @ \ {c}]
           e == IF new = None THEN w.refs ELSE [w.refs EXCEPT ![c] = @ + 1]
           ms == [w.master EXCEPT ![c] = new]
           a == [w EXCEPT !.master = ms]
           b == [a EXCEPT !.summons = two]
           u == [b EXCEPT !.refs = e]
           given == IF old = None THEN {} ELSE {c}
           v == SetMaster(w, c, new)
<1>3. old \in Creature \cup {None} /\ \A n \in Creature : c \in w.summons[n] <=> n = old
  BY <1>1, <1>2 DEF Sound, Serve
<1>4. v = IF old = None THEN u ELSE GiveBack(u, One({c}))
  <2>1. CASE new = None
    <3>1. TakeSummon(w, c, new) = w
      BY <2>1 DEF TakeSummon
    <3>2. old # None
      BY <2>1
    <3>3. c \in w.summons[old] /\ c \in a.summons[old]
      BY <1>1, <1>3, <3>2 DEF World
    <3>4. DropSummon(a, c, old) = Dec([a EXCEPT !.summons[old] = @ \ {c}], c)
      BY <3>2, <3>3 DEF DropSummon
    <3>5. [a EXCEPT !.summons[old] = @ \ {c}] = u
      BY <1>1, <2>1, <3>2 DEF World
    <3>6. v = DropSummon(a, c, old)
      BY <3>1 DEF SetMaster
    <3> HIDE DEF u, a, v
    <3> QED BY <3>2, <3>4, <3>5, <3>6 DEF Dec, One
  <2>2. CASE new # None
    <3> DEFINE t == [TakeSummon(w, c, new) EXCEPT !.master[c] = new]
    <3>1. t = [w EXCEPT !.summons = one, !.refs = e, !.master = ms]
      BY <1>1, <2>2 DEF TakeSummon, Inc, World
    <3>2. v = DropSummon(t, c, old)
      BY DEF SetMaster
    <3> HIDE DEF t
    <3>3. CASE old = None
      <4>1. v = t
        BY <3>2, <3>3 DEF DropSummon
      <4>2. t = u
        BY <1>1, <3>1, <3>3 DEF World
      <4> QED BY <3>3, <4>1, <4>2
    <3>4. CASE old # None
      <4>1. c \in one[old] /\ t.summons = one
        BY <1>1, <1>2, <1>3, <2>2, <3>1, <3>4 DEF World, Lists
      <4>2. v = Dec([t EXCEPT !.summons[old] = @ \ {c}], c)
        BY <3>2, <3>4, <4>1 DEF DropSummon
      <4>3. [t EXCEPT !.summons[old] = @ \ {c}] = u
        BY <1>1, <3>1, <3>4 DEF World
      <4> HIDE DEF u, v
      <4> QED BY <3>4, <4>2, <4>3 DEF Dec, One
    <3> QED BY <3>3, <3>4
  <2> QED BY <2>1, <2>2
<1>5. /\ one \in Lists /\ two \in Lists /\ e \in [Creature -> Nat]
      /\ ms \in [Creature -> Creature \cup {None}]
  BY <1>1, <1>2 DEF World, Lists
<1>6. ASSUME NEW d \in Creature
      PROVE  /\ Pointers(one, Creature, d) = Pointers(w.summons, Creature, d)
                                               + IF new # None /\ d = c THEN 1 ELSE 0
             /\ Pointers(two, Creature, d) + Holds(given, d)
                  = Pointers(w.summons, Creature, d) + IF new # None /\ d = c THEN 1 ELSE 0
             /\ e[d] = w.refs[d] + IF new # None /\ d = c THEN 1 ELSE 0
  <2>1. Pointers(w.summons, Creature, d) \in Nat /\ Pointers(one, Creature, d) \in Nat
          /\ Pointers(two, Creature, d) \in Nat
    BY PointersNat
  <2>2. w.refs[d] \in Nat
    BY <1>1 DEF World
  <2>3. Pointers(one, Creature, d) = Pointers(w.summons, Creature, d)
                                               + IF new # None /\ d = c THEN 1 ELSE 0
    <3>1. CASE new = None
      <4>1. one = w.summons
        BY <3>1
      <4> HIDE DEF one
      <4> QED BY <2>1, <3>1, <4>1
    <3>2. CASE new # None
      <4> DEFINE T == w.summons[new] \cup {c}
      <4>1. one = [w.summons EXCEPT ![new] = T] /\ T \in SUBSET Creature /\ new \in Creature
        BY <1>2, <3>2 DEF Lists
      <4>2. c \notin w.summons[new]
        BY <1>3, <4>1
      <4>3. Holds(T, d) = Holds(w.summons[new], d) + (IF d = c THEN 1 ELSE 0)
        BY <4>2 DEF Holds
      <4> HIDE DEF T, one
      <4>4. Pointers(one, Creature, d) =
              Pointers(w.summons, Creature, d) - Holds(w.summons[new], d) + Holds(T, d)
        BY <1>2, <4>1, PointersChange
      <4>5. Holds(w.summons[new], d) \in Nat
        BY HoldsNat
      <4> QED BY <2>1, <3>2, <4>3, <4>4, <4>5
    <3> QED BY <3>1, <3>2
  <2>4. Pointers(two, Creature, d) + Holds(given, d) = Pointers(one, Creature, d)
    <3>1. CASE old = None
      <4>1. two = one /\ Holds(given, d) = 0
        BY <3>1 DEF Holds
      <4> HIDE DEF one, two
      <4> QED BY <2>1, <4>1
    <3>2. CASE old # None
      <4> DEFINE T == one[old] \ {c}
      <4>1. two = [one EXCEPT ![old] = T] /\ T \in SUBSET Creature /\ old \in Creature
        BY <1>3, <1>5, <3>2 DEF Lists
      <4>2. c \in one[old]
        BY <1>2, <1>3, <3>2 DEF Lists
      <4>3. Holds(one[old], d) = Holds(T, d) + Holds(given, d)
        BY <3>2, <4>2 DEF Holds
      <4> HIDE DEF T, one, two, given, old
      <4>4. Pointers(two, Creature, d) =
              Pointers(one, Creature, d) - Holds(one[old], d) + Holds(T, d)
        <5>1. one \in Lists
          BY <1>5
        <5>2. Pointers([one EXCEPT ![old] = T], Creature, d) =
                Pointers(one, Creature, d) - Holds(one[old], d) + Holds(T, d)
          BY <4>1, <5>1, PointersChange
        <5> QED BY <4>1, <5>2
      <4>5. Holds(T, d) \in Nat /\ Holds(given, d) \in Nat
        BY HoldsNat
      <4> QED BY <2>1, <4>3, <4>4, <4>5
    <3> QED BY <3>1, <3>2
  <2>5. e[d] = w.refs[d] + IF new # None /\ d = c THEN 1 ELSE 0
    BY <1>1, <2>2 DEF World
  <2> HIDE DEF one, two, e, given
  <2> QED BY <2>3, <2>4, <2>5
<1>7. ASSUME NEW n \in Creature
      PROVE  two[n] = IF n = new THEN w.summons[n] \cup {c}
                      ELSE w.summons[n] \ (IF n = old THEN {c} ELSE {})
  <2>1. one[n] = IF n = new THEN w.summons[n] \cup {c} ELSE w.summons[n]
    BY <1>2 DEF Lists
  <2>2. two[n] = IF n = old THEN one[n] \ {c} ELSE one[n]
    <3> HIDE DEF one
    <3> QED BY <1>2, <1>3, <1>5 DEF Lists
  <2> HIDE DEF one, two
  <2>3. new # old
    OBVIOUS
  <2>4. CASE n = new
    BY <2>1, <2>2, <2>3, <2>4
  <2>5. CASE n # new
    BY <2>1, <2>2, <2>5
  <2> QED BY <2>4, <2>5
<1> HIDE DEF one, two, e, ms, given
<1>8. /\ a \in World /\ a.master = ms /\ Same(w, a, {"master"})
  BY <1>1, <1>5, PutMaster
<1>9. a = [w EXCEPT !.master[c] = new]
  BY DEF ms
<1> HIDE DEF a
<1>10. b \in World /\ b.summons = two /\ Same(a, b, {"summons"})
  BY <1>5, <1>8, PutSummons DEF Lists
<1> HIDE DEF b
<1>11. u \in World /\ u.refs = e /\ Same(b, u, {"refs"})
  BY <1>5, <1>10, PutRefs
<1> HIDE DEF u
<1>12. /\ u.room = w.room /\ u.placed = w.placed /\ u.removed = w.removed /\ u.dying = w.dying
       /\ u.freed = w.freed /\ u.releases = w.releases /\ u.targets = w.targets
       /\ u.friends = w.friends /\ u.checked = w.checked /\ u.attacked = w.attacked
       /\ u.listed = w.listed /\ u.summons = two /\ u.master = ms
  BY <1>8, <1>10, <1>11 DEF Same, Fields
<1>13. One(given) \in [Creature -> Nat] /\ \A d \in Creature : One(given)[d] = Holds(given, d)
  BY HoldsNat DEF One
<1>14. Counts(u, One(given), x)
  <2> SUFFICES ASSUME NEW d \in Creature
               PROVE  u.refs[d] = Expected(u, d) + One(given)[d] + Holds({x}, d)
    BY DEF Counts
  <2> DEFINE i == IF new # None /\ d = c THEN 1 ELSE 0
             r == w.releases[d]  hp == Holds(w.placed, d)  hl == Holds(w.listed, d)
             pt == Pointers(w.targets, Creature, d)  pf == Pointers(w.friends, Creature, d)
             ps == Pointers(w.summons, Creature, d)  qs == Pointers(two, Creature, d)
             hg == Holds(given, d)  hx == Holds({x}, d)  n == w.refs[d]
  <2>1. r \in Nat /\ hp \in Nat /\ hl \in Nat /\ pt \in Nat /\ pf \in Nat /\ ps \in Nat
          /\ qs \in Nat /\ hg \in Nat /\ hx \in Nat /\ n \in Nat /\ i \in Nat
    <3>1. pt \in Nat /\ pf \in Nat /\ ps \in Nat /\ qs \in Nat
      BY PointersNat
    <3>2. hp \in Nat /\ hl \in Nat /\ hg \in Nat /\ hx \in Nat
      BY HoldsNat
    <3>3. r \in Nat /\ n \in Nat /\ i \in Nat
      BY <1>1 DEF World
    <3> QED BY <3>1, <3>2, <3>3, Zenon
  <2>2. qs + hg = ps + i /\ e[d] = n + i
    BY <1>6
  <2>3. n = r + hp + hl + (pt + pf + ps) + Zero[d] + hx
    BY <1>1, Zenon DEF Sound, Counts, Expected, Given
  <2>4. Zero[d] = 0
    BY DEF Zero
  <2>5. n + i = r + hp + hl + (pt + pf + qs) + hg + hx
    <3> DEFINE z == Zero[d]
    <3>1. n = r + hp + hl + (pt + pf + ps) + z + hx /\ z = 0
      BY <2>3, <2>4, Zenon
    <3> HIDE DEF i, r, hp, hl, pt, pf, ps, qs, hg, hx, n, z
    <3> QED BY <2>1, <2>2, <3>1
  <2>6. u.refs[d] = n + i
    BY <1>11, <2>2
  <2> HIDE DEF i
  <2> QED BY <1>12, <1>13, <2>5, <2>6, Zenon DEF Expected, Given
<1>15. Serve(u)
  <2> SUFFICES ASSUME NEW d \in Creature, NEW n \in Creature
               PROVE  d \in u.summons[n] <=> u.master[d] = n
    BY DEF Serve
  <2>1. d \in w.summons[n] <=> w.master[d] = n
    BY <1>1 DEF Sound, Serve
  <2>2. u.master[d] = IF d = c THEN new ELSE w.master[d]
    BY <1>2, <1>12 DEF ms
  <2>3. u.summons[n] = IF n = new THEN w.summons[n] \cup {c}
                      ELSE w.summons[n] \ (IF n = old THEN {c} ELSE {})
    BY <1>7, <1>12
  <2> QED BY <1>3, <2>1, <2>2, <2>3
<1>16. ASSUME NEW d \in Creature
       PROVE  Lives(u, x, d)
  <2>1. Lives(w, x, d) /\ w.refs[d] \in Nat /\ w.refs[c] \in Nat
    BY <1>1 DEF Sound, World
  <2>2. u.refs[d] = w.refs[d] + IF new # None /\ d = c THEN 1 ELSE 0
    BY <1>6, <1>11
  <2>3. u.refs[d] = 0 <=> w.refs[d] = 0
    BY <2>1, <2>2
  <2>4. u.summons[d] = IF d = new THEN w.summons[d] \cup {c}
                      ELSE w.summons[d] \ (IF d = old THEN {c} ELSE {})
    BY <1>7, <1>12
  <2>5. d = new => w.refs[d] # 0
    BY <1>2
  <2>6. u.refs[d] = 0 => u.summons[d] = {}
    BY <2>1, <2>3, <2>4, <2>5 DEF Lives
  <2> QED BY <1>12, <2>1, <2>3, <2>6 DEF Lives
<1>17. Sound(u, One(given), x)
  BY <1>1, <1>11, <1>12, <1>14, <1>15, <1>16 DEF Sound
<1>18. Watching(u, k)
  BY <1>1, <1>12 DEF Watching, Creature
<1>19. Calmer(a, u) /\ (new = None => Calmer(w, u))
  <2>1. Same(w, u, {"refs", "targets", "friends", "summons", "listed", "checked", "dying",
                     "attacked", "master"})
    BY <1>8, <1>10, <1>11 DEF Same
  <2>2. Same(a, u, {"refs", "targets", "friends", "summons", "listed", "checked", "dying",
                     "attacked", "master"})
    BY <1>10, <1>11 DEF Same
  <2>3. a.placed \cap a.freed = {} /\ a.attacked = w.attacked
    BY <1>1, <1>8, PlacedLive DEF Same, Fields
  <2>4. Calmer(a, u)
    BY <1>8, <1>12, <2>2, <2>3, CalmerChange
  <2>5. new = None => \A d \in Creature : u.master[d] \in {w.master[d], None}
    BY <1>2, <1>12 DEF ms
  <2> QED BY <1>1, <1>12, <2>1, <2>4, <2>5, CalmerSame
<1> HIDE DEF v
<1>20. CASE old = None
  <2>1. One(given) = Zero
    BY <1>20 DEF One, Zero, Holds, given
  <2> QED BY <1>4, <1>9, <1>17, <1>18, <1>19, <1>20, <2>1 DEF Good, v
<1>21. CASE old # None
  <2>1. v = GiveBack(u, One(given))
    BY <1>4, <1>21 DEF given
  <2>2. Good(v, k, x) /\ Calmer(u, v)
    BY <1>13, <1>17, <1>18, <2>1, GiveBackGood
  <2>3. v \in World
    BY <2>2 DEF Good, Sound
  <2>4. Calmer(a, v)
    BY <1>8, <1>11, <1>19, <2>2, <2>3, CalmerTwice
  <2>5. new = None => Calmer(w, v)
    BY <1>1, <1>11, <1>19, <2>2, <2>3, CalmerTwice
  <2> QED BY <1>9, <2>2, <2>4, <2>5 DEF v
<1> QED BY <1>20, <1>21

-----------------------------------------------------------------------------
(* What is done in turn *)
(* A set of numbers from the first on that is closed under the next holds all. *)
LEMMA AllTurns ==
  ASSUME NEW N \in Nat, NEW m \in 0 .. N, NEW T, m \in T,
         \A n \in m + 1 .. N : n - 1 \in T => n \in T
  PROVE  \A n \in m .. N : n \in T
<1> SUFFICES ASSUME NEW k \in m .. N, k \notin T
             PROVE  FALSE
  OBVIOUS
<1> DEFINE Bad == {n \in m .. N : n \notin T}
<1>1. Bad \in SUBSET Nat /\ Bad # {}
  OBVIOUS
<1>2. PICK n \in Bad : \A j \in Bad : n <= j
  <2> HIDE DEF Bad
  <2> QED BY <1>1, LeastOfSome
<1>3. n \in m .. N /\ n # m /\ n \notin T
  BY <1>2
<1>4. n - 1 \in m .. N /\ n \in m + 1 .. N
  BY <1>3
<1>5. n - 1 \in T
  BY <1>2, <1>4
<1> QED BY <1>3, <1>4, <1>5

LEMMA AllTurnsFromNone ==
  ASSUME NEW N \in Nat, NEW T, 0 \in T, \A n \in 1 .. N : n - 1 \in T => n \in T
  PROVE  (\A n \in 0 .. N : n \in T) /\ N \in T
<1>1. 0 \in 0 .. N /\ N \in 0 .. N /\ 0 + 1 = 1
  OBVIOUS
<1>2. \A n \in 0 + 1 .. N : n - 1 \in T => n \in T
  BY <1>1
<1>3. \A n \in 0 .. N : n \in T
  BY <1>1, <1>2, AllTurns, Zenon
<1> QED
  BY <1>1, <1>3

Turns(f, F, w, order, S, N) ==
  f = [i \in 0 .. N |-> IF i = 0 THEN w
                        ELSE IF order[i] \in S THEN F[order[i]][f[i - 1]] ELSE f[i - 1]]

LEMMA TurnsExist ==
  ASSUME NEW F, NEW w, NEW order, NEW S, NEW N \in Nat
  PROVE  \E f : Turns(f, F, w, order, S, N)
<1> DEFINE T == {n \in Nat : \E f : Turns(f, F, w, order, S, n)}
<1>1. 0 \in T
  <2>1. Turns([i \in 0 .. 0 |-> w], F, w, order, S, 0)
    BY DEF Turns
  <2> QED BY <2>1
<1>2. ASSUME NEW n \in 1 .. N, n - 1 \in T
      PROVE  n \in T
  <2>1. PICK f : Turns(f, F, w, order, S, n - 1)
    BY <1>2
  <2> DEFINE g == [i \in 0 .. n |-> IF i = n THEN IF order[n] \in S THEN F[order[n]][f[n - 1]]
                                                 ELSE f[n - 1]
                                    ELSE f[i]]
  <2>2. \A i \in 0 .. n - 1 : g[i] = f[i]
    OBVIOUS
  <2>3. \A i \in 0 .. n - 1 :
          f[i] = IF i = 0 THEN w
                 ELSE IF order[i] \in S THEN F[order[i]][f[i - 1]] ELSE f[i - 1]
    BY <2>1 DEF Turns
  <2>4. ASSUME NEW i \in 0 .. n
        PROVE  g[i] = IF i = 0 THEN w
                      ELSE IF order[i] \in S THEN F[order[i]][g[i - 1]] ELSE g[i - 1]
    <3>1. CASE i = n
      <4>1. g[i] = IF order[n] \in S THEN F[order[n]][f[n - 1]] ELSE f[n - 1]
        BY <3>1
      <4>2. g[n - 1] = f[n - 1] /\ n # 0
        BY <2>2
      <4> HIDE DEF g
      <4> QED BY <3>1, <4>1, <4>2
    <3>2. CASE i # n
      <4>1. i \in 0 .. n - 1 /\ (i # 0 => i - 1 \in 0 .. n - 1)
        BY <3>2
      <4> HIDE DEF g
      <4> QED BY <2>2, <2>3, <4>1
    <3> QED BY <3>1, <3>2
  <2>5. g = [i \in 0 .. n |-> g[i]]
    OBVIOUS
  <2> HIDE DEF g
  <2>6. Turns(g, F, w, order, S, n)
    BY <2>4, <2>5 DEF Turns
  <2> QED BY <2>6
<1> HIDE DEF T
<1>3. N \in T
  BY <1>1, <1>2, AllTurnsFromNone
<1> QED
  BY <1>3 DEF T

LEMMA InTurnSteps ==
  ASSUME NEW F, NEW w, NEW order, NEW S, Len(order) \in Nat
  PROVE  \E f : /\ InTurn(F, w, order, S) = f[Len(order)]
                /\ f[0] = w
                /\ \A i \in 1 .. Len(order) :
                     f[i] = IF order[i] \in S THEN F[order[i]][f[i - 1]] ELSE f[i - 1]
<1> DEFINE after == CHOOSE f : Turns(f, F, w, order, S, Len(order))
<1>1. Turns(after, F, w, order, S, Len(order))
  BY TurnsExist
<1>2. InTurn(F, w, order, S) = after[Len(order)]
  BY DEF InTurn, Turns
<1> HIDE DEF after
<1>3. /\ after[0] = w
      /\ \A i \in 1 .. Len(order) :
           after[i] = IF order[i] \in S THEN F[order[i]][after[i - 1]] ELSE after[i - 1]
  <2>1. \A i \in 0 .. Len(order) :
          after[i] = IF i = 0 THEN w
                     ELSE IF order[i] \in S THEN F[order[i]][after[i - 1]] ELSE after[i - 1]
    BY <1>1 DEF Turns
  <2>2. 0 \in 0 .. Len(order) /\ \A i \in 1 .. Len(order) : i \in 0 .. Len(order) /\ i # 0
    OBVIOUS
  <2> QED BY <2>1, <2>2
<1> QED
  BY <1>2, <1>3

LEMMA InTurnKeeps ==
  ASSUME NEW F, NEW order, NEW S, Len(order) \in Nat, NEW G, NEW w \in G,
         \A v \in G, s \in S : F[s][v] \in G
  PROVE  InTurn(F, w, order, S) \in G
<1>1. PICK f : /\ InTurn(F, w, order, S) = f[Len(order)]
               /\ f[0] = w
               /\ \A i \in 1 .. Len(order) :
                    f[i] = IF order[i] \in S THEN F[order[i]][f[i - 1]] ELSE f[i - 1]
  BY InTurnSteps
<1> DEFINE T == {i \in 0 .. Len(order) : f[i] \in G}
<1>2. 0 \in T
  BY <1>1
<1>3. \A n \in 1 .. Len(order) : n - 1 \in T => n \in T
  BY <1>1
<1> HIDE DEF T
<1>4. Len(order) \in T
  BY <1>2, <1>3, AllTurnsFromNone
<1> QED
  BY <1>1, <1>4 DEF T

LEMMA InTurnReaches ==
  ASSUME NEW F, NEW order, NEW S, Len(order) \in Nat, NEW G, NEW w \in G,
         \A v \in G, s \in S : F[s][v] \in G,
         NEW D, \A v \in G \cap D, s \in S : F[s][v] \in D,
         NEW s \in S, \A v \in G : F[s][v] \in D,
         NEW j \in 1 .. Len(order), order[j] = s
  PROVE  InTurn(F, w, order, S) \in D
<1>1. PICK f : /\ InTurn(F, w, order, S) = f[Len(order)]
               /\ f[0] = w
               /\ \A i \in 1 .. Len(order) :
                    f[i] = IF order[i] \in S THEN F[order[i]][f[i - 1]] ELSE f[i - 1]
  BY InTurnSteps
<1> DEFINE T == {i \in 0 .. Len(order) : f[i] \in G}
           U == {i \in 0 .. Len(order) : f[i] \in D}
<1>2. 0 \in T
  BY <1>1
<1>3. \A n \in 1 .. Len(order) : n - 1 \in T => n \in T
  BY <1>1
<1>4. \A i \in 0 .. Len(order) : i \in T
  <2> HIDE DEF T
  <2> QED BY <1>2, <1>3, AllTurnsFromNone
<1>5. j \in U
  <2>1. j - 1 \in 0 .. Len(order)
    OBVIOUS
  <2>2. f[j - 1] \in G /\ f[j] = F[s][f[j - 1]]
    BY <1>1, <1>4, <2>1
  <2> QED BY <2>2
<1>6. \A n \in j + 1 .. Len(order) : n - 1 \in U => n \in U
  <2> SUFFICES ASSUME NEW n \in j + 1 .. Len(order), n - 1 \in U
               PROVE  f[n] \in D
    OBVIOUS
  <2>1. n \in 1 .. Len(order) /\ n - 1 \in 0 .. Len(order)
    OBVIOUS
  <2>2. f[n - 1] \in G \cap D
    BY <1>4, <2>1
  <2>3. f[n] = IF order[n] \in S THEN F[order[n]][f[n - 1]] ELSE f[n - 1]
    BY <1>1, <2>1
  <2> QED BY <2>2, <2>3
<1> HIDE DEF U
<1>7. j \in 0 .. Len(order)
  OBVIOUS
<1>8. Len(order) \in U
  <2>1. \A n \in j .. Len(order) : n \in U
    BY <1>5, <1>6, <1>7, AllTurns
  <2>2. Len(order) \in j .. Len(order)
    OBVIOUS
  <2> QED BY <2>1, <2>2
<1> QED
  BY <1>1, <1>8 DEF U

-----------------------------------------------------------------------------
(* What is done in turn keeps the world good if each does. *)
Better(w, x) == {v \in World : Good(v, None, x) /\ Calmer(w, v)}

Does(F, S, w, x) == \A s \in S : \A v \in Better(w, x) : F[s][v] \in Better(v, x)

LEMMA BetterSelf ==
  ASSUME NEW w, NEW x, Good(w, None, x)
  PROVE  w \in Better(w, x)
BY CalmerSelf DEF Better, Good, Sound

LEMMA BetterTwice ==
  ASSUME NEW w \in World, NEW x, NEW v \in Better(w, x), NEW u \in Better(v, x)
  PROVE  u \in Better(w, x)
BY CalmerTwice DEF Better

LEMMA InTurnGood ==
  ASSUME NEW F, NEW order, NEW S, Len(order) \in Nat, NEW w, NEW x, Good(w, None, x),
         Does(F, S, w, x)
  PROVE  InTurn(F, w, order, S) \in Better(w, x)
<1>1. w \in Better(w, x) /\ w \in World
  BY BetterSelf DEF Better
<1>2. \A v \in Better(w, x), s \in S : F[s][v] \in Better(w, x)
  BY <1>1, BetterTwice DEF Does
<1> QED
  BY <1>1, <1>2, InTurnKeeps

LEMMA LookAroundGood ==
  ASSUME NEW w, NEW x \in Creature \cup {None}, NEW order, Len(order) \in Nat,
         NEW m \in Creature, m \in Kept(w), Good(w, None, x)
  PROVE  LookAround(w, order, m) \in Better(w, x)
<1> DEFINE F == [c \in Creature |-> [v \in World |-> OnCreatureFound(v, m, c)]]
           S == Spectators(w, {w.room[m]}) \ {m}
<1>1. S \subseteq Kept(w) /\ S \subseteq Creature
  BY DEF Spectators, Kept, Good, Sound, World
<1>2. ASSUME NEW s \in S, NEW v \in Better(w, x)
      PROVE  F[s][v] \in Better(v, x)
  <2>1. v \in World /\ Good(v, None, x) /\ Kept(v) = Kept(w)
    BY CalmerKept DEF Better
  <2>2. F[s][v] = OnCreatureFound(v, m, s)
    BY <1>1, <2>1
  <2>3. m \in Kept(v) /\ s \in Kept(v) /\ s \in Creature
    BY <1>1, <2>1
  <2> DEFINE u == OnCreatureFound(v, m, s)
  <2>4. Good(u, None, x) /\ Calmer(v, u)
    BY <2>1, <2>3, OnCreatureFoundGood
  <2> HIDE DEF F, u
  <2> QED BY <2>2, <2>4 DEF Better, Good, Sound, u
<1>3. LookAround(w, order, m) = InTurn(F, w, order, S)
  BY DEF LookAround
<1> HIDE DEF F, S
<1>4. Does(F, S, w, x)
  BY <1>2 DEF Does
<1> QED
  BY <1>3, <1>4, InTurnGood

LEMMA UpdateTargetListGood ==
  ASSUME NEW w, NEW x \in Creature \cup {None}, NEW order, Len(order) \in Nat,
         NEW m \in Creature, m \in Kept(w), Good(w, None, x)
  PROVE  UpdateTargetList(w, order, m) \in Better(w, x)
<1> DEFINE v == ForgetStale(w, m)
           u == LookAround(v, order, m)
<1>1. Good(v, None, x) /\ Calmer(w, v)
  BY ForgetStaleGood
<1> HIDE DEF v
<1>2. m \in Kept(v)
  BY <1>1, CalmerKept
<1>3. u \in Better(v, x)
  BY <1>1, <1>2, LookAroundGood
<1>4. u = UpdateTargetList(w, order, m)
  BY DEF UpdateTargetList, v
<1> HIDE DEF u
<1>5. w \in World /\ v \in Better(w, x)
  BY <1>1 DEF Better, Good, Sound
<1> QED
  BY <1>3, <1>4, <1>5, BetterTwice

LEMMA OnCreatureAppearGood ==
  ASSUME NEW w, NEW x \in Creature \cup {None}, NEW order, Len(order) \in Nat,
         NEW s \in Creature, s \in Kept(w), NEW c \in Creature, c \in Kept(w), Good(w, None, x)
  PROVE  OnCreatureAppear(w, order, s, c) \in Better(w, x)
<1>1. w \in Better(w, x) /\ w \in World
  BY BetterSelf DEF Better
<1> DEFINE v == UpdateTargetList(w, order, s)
           u == UpdateIdleStatus(v, s)
           t == OnCreatureFound(w, s, c)
<1>2. v \in Better(w, x)
  BY UpdateTargetListGood
<1> HIDE DEF v
<1>3. Good(v, s, x) /\ v.refs[s] # 0
  BY <1>2, GoodOf, CalmerKept, KeptReferenced DEF Better, Good
<1>4. Good(u, None, x) /\ Calmer(v, u)
  BY <1>3, UpdateIdleStatusGood
<1> HIDE DEF u
<1>5. u \in Better(w, x)
  <2>1. u \in Better(v, x)
    BY <1>4 DEF Better, Good, Sound
  <2> QED BY <1>1, <1>2, <2>1, BetterTwice
<1>6. Good(t, None, x) /\ Calmer(w, t)
  BY OnCreatureFoundGood
<1> HIDE DEF t
<1>7. t \in Better(w, x)
  BY <1>6 DEF Better, Good, Sound
<1> QED
  BY <1>1, <1>5, <1>7 DEF OnCreatureAppear, t, u, v

LEMMA TellAppearanceGood ==
  ASSUME NEW w, NEW x \in Creature \cup {None}, NEW order, Len(order) \in Nat,
         NEW c \in Creature, c \in Kept(w), Good(w, None, x)
  PROVE  TellAppearance(w, order, c) \in Better(w, x)
<1> DEFINE F == [s \in Creature |-> [v \in World |-> OnCreatureAppear(v, order, s, c)]]
           S == Spectators(w, {w.room[c]})
<1>1. S \subseteq Kept(w) /\ S \subseteq Creature
  BY DEF Spectators, Kept, Good, Sound, World
<1>2. ASSUME NEW s \in S, NEW v \in Better(w, x)
      PROVE  F[s][v] \in Better(v, x)
  <2>1. v \in World /\ Good(v, None, x) /\ Kept(v) = Kept(w)
    BY CalmerKept DEF Better
  <2>2. F[s][v] = OnCreatureAppear(v, order, s, c)
    BY <1>1, <2>1
  <2>3. c \in Kept(v) /\ s \in Kept(v) /\ s \in Creature
    BY <1>1, <2>1
  <2> HIDE DEF F
  <2> QED BY <2>1, <2>2, <2>3, OnCreatureAppearGood
<1>3. TellAppearance(w, order, c) = InTurn(F, w, order, S)
  BY DEF TellAppearance
<1> HIDE DEF F, S
<1>4. Does(F, S, w, x)
  BY <1>2 DEF Does
<1> QED
  BY <1>3, <1>4, InTurnGood

-----------------------------------------------------------------------------
(* Placing *)
Attacks(w) ==
  \A c \in w.placed : w.attacked[c] # None =>
    w.attacked[c] \in w.placed /\ Sees(w, c, w.attacked[c])

LEMMA AttacksKept ==
  ASSUME NEW w \in World, NEW v \in World, Attacks(w), Calmer(w, v)
  PROVE  Attacks(v)
<1> SUFFICES ASSUME NEW a \in v.placed, v.attacked[a] # None
             PROVE  v.attacked[a] \in v.placed /\ Sees(v, a, v.attacked[a])
  BY DEF Attacks
<1> DEFINE b == v.attacked[a]
<1>1. a \in Creature /\ a \in w.placed /\ w.attacked[a] = b
  BY DEF Calmer, World
<1>2. b \in w.placed /\ w.room[a] = w.room[b] /\ b \in Creature
  BY <1>1 DEF Attacks, Sees, World
<1>3. b \in v.placed
  BY <1>1, <1>2 DEF Calmer
<1>4. a \notin v.freed /\ b \notin v.freed
  BY <1>3 DEF Calmer
<1>5. v.room[a] = w.room[a] /\ v.room[b] = w.room[b]
  BY <1>1, <1>2, <1>4 DEF Calmer
<1> QED
  BY <1>2, <1>3, <1>5 DEF Sees

(* Only monsters have a master. *)
Tame(w) == \A c \in Creature : w.master[c] # None => c \in Monsters

Orderly(w) == Attacks(w) /\ Tame(w)

LEMMA OrderlyKept ==
  ASSUME NEW w \in World, NEW v \in World, Orderly(w), Calmer(w, v)
  PROVE  Orderly(v)
<1>1. Attacks(v)
  BY AttacksKept DEF Orderly
<1>2. Tame(v)
  BY DEF Orderly, Tame, Calmer
<1> QED
  BY <1>1, <1>2 DEF Orderly

LEMMA InternalPlaceGood ==
  ASSUME NEW w, Good(w, None, None), Orderly(w),
         NEW c \in Creature, c \notin w.placed \cup w.removed, NEW r \in Rooms
  PROVE  LET v == InternalPlaceCreature(w, c, r)
         IN /\ Good(v, None, None) /\ Orderly(v)
            /\ Kept(v) = Kept(w) \cup {c} /\ v.master = w.master /\ w.master[c] = None
<1>1. w \in World /\ Sound(w, Zero, None) /\ Watching(w, None)
  BY DEF Good, Sound
<1>2. Lives(w, None, c) /\ c # None /\ r # None /\ None \notin Creature
  BY <1>1, CreaturesAssumption, Constants DEF Sound
<1>3. /\ w.refs[c] = 0 /\ c \notin w.dying /\ w.attacked[c] = None /\ c \notin w.freed
      /\ w.targets[c] = {}
  BY <1>2 DEF Lives
<1> DEFINE pl == w.placed \cup {c}
           rm == [w.room EXCEPT ![c] = r]
           e == [w.refs EXCEPT ![c] = @ + 1]
           a == [w EXCEPT !.placed = pl]
           b == [a EXCEPT !.room = rm]
           v == [b EXCEPT !.refs = e]
<1>4. v = InternalPlaceCreature(w, c, r)
  BY <1>1 DEF InternalPlaceCreature, Inc, World
<1>5. /\ pl \in SUBSET Creature /\ rm \in [Creature -> Rooms \cup {None}]
      /\ e \in [Creature -> Nat]
  BY <1>1 DEF World
<1>6. \A d \in Creature : /\ e[d] = IF d = c THEN 1 ELSE w.refs[d]
                          /\ rm[d] = IF d = c THEN r ELSE w.room[d]
  BY <1>1, <1>3 DEF World
<1> HIDE DEF rm, e
<1>7. a \in World /\ a.placed = pl /\ Same(w, a, {"placed"})
  BY <1>1, <1>5, PutPlaced
<1> HIDE DEF a
<1>8. b \in World /\ b.room = rm /\ Same(a, b, {"room"})
  BY <1>5, <1>7, PutRoom
<1> HIDE DEF b
<1>9. v \in World /\ v.refs = e /\ Same(b, v, {"refs"})
  BY <1>5, <1>8, PutRefs
<1> HIDE DEF v
<1>10. /\ v.removed = w.removed /\ v.dying = w.dying
       /\ v.freed = w.freed /\ v.releases = w.releases /\ v.targets = w.targets
       /\ v.friends = w.friends /\ v.checked = w.checked /\ v.attacked = w.attacked
       /\ v.listed = w.listed /\ v.summons = w.summons /\ v.master = w.master
       /\ v.placed = pl /\ v.room = rm /\ v.refs = e
  BY <1>7, <1>8, <1>9 DEF Same, Fields
<1>11. Counts(v, Zero, None)
  <2> SUFFICES ASSUME NEW d \in Creature
               PROVE  v.refs[d] = Expected(v, d) + Zero[d] + Holds({None}, d)
    BY DEF Counts
  <2>1. w.refs[d] = Expected(w, d) + Zero[d] + Holds({None}, d) /\ Zero[d] = 0
    BY <1>1 DEF Sound, Counts, Zero
  <2>2. /\ Expected(w, d) = w.releases[d] + Holds(w.placed, d) + Holds(w.listed, d)
                              + Given(w, Creature, d)
        /\ Expected(v, d) = v.releases[d] + Holds(v.placed, d) + Holds(v.listed, d)
                              + Given(v, Creature, d)
        /\ Given(w, Creature, d) \in Nat /\ w.releases[d] \in Nat
    BY <1>1, <1>9, ExpectedNat
  <2>3. Given(v, Creature, d) = Given(w, Creature, d)
    BY <1>10 DEF Given
  <2>4. Holds(w.placed, d) \in Nat /\ Holds({None}, d) \in Nat /\ Holds(w.listed, d) \in Nat
    BY HoldsNat
  <2>5. CASE d = c
    <3>1. Holds(w.placed, d) = 0 /\ Holds(v.placed, d) = 1 /\ v.refs[d] = w.refs[d] + 1
      BY <1>3, <1>6, <1>10, <2>5 DEF Holds
    <3> QED BY <1>10, <2>1, <2>2, <2>3, <2>4, <3>1
  <2>6. CASE d # c
    <3>1. Holds(w.placed, d) = Holds(v.placed, d) /\ v.refs[d] = w.refs[d]
      BY <1>6, <1>10, <2>6 DEF Holds
    <3> QED BY <1>10, <2>1, <2>2, <2>3, <2>4, <3>1
  <2> QED BY <2>5, <2>6
<1>12. ASSUME NEW d \in Creature
       PROVE  Lives(v, None, d)
  <2>1. Lives(w, None, d)
    BY <1>1 DEF Sound
  <2>2. CASE d = c
    <3>1. v.refs[d] = 1 /\ v.room[d] = r /\ d \in v.placed
      BY <1>6, <1>10, <2>2
    <3> QED BY <1>2, <1>3, <1>10, <2>2, <3>1 DEF Lives
  <2>3. CASE d # c
    <3>1. v.refs[d] = w.refs[d] /\ v.room[d] = w.room[d] /\ (d \in v.placed <=> d \in w.placed)
      BY <1>6, <1>10, <2>3
    <3> QED BY <1>10, <2>1, <3>1 DEF Lives
  <2> QED BY <2>2, <2>3
<1>13. Sound(v, Zero, None)
  <2>1. Serve(v) /\ v.placed \cap v.removed = {} /\ v.checked \subseteq v.listed
    BY <1>1, <1>10 DEF Sound, Serve
  <2> QED BY <1>9, <1>11, <1>12, <2>1 DEF Sound
<1>14. Watching(v, None)
  BY <1>1, <1>3, <1>10 DEF Watching
<1>15. Attacks(v)
  <2> SUFFICES ASSUME NEW d \in v.placed, v.attacked[d] # None
               PROVE  v.attacked[d] \in v.placed /\ Sees(v, d, v.attacked[d])
    BY DEF Attacks
  <2>1. d \in w.placed /\ w.attacked[d] # None
    BY <1>3, <1>10
  <2>2. w.attacked[d] \in w.placed /\ w.room[d] = w.room[w.attacked[d]]
    BY <2>1 DEF Orderly, Attacks, Sees
  <2>3. d \in Creature /\ w.attacked[d] \in Creature /\ d # c /\ w.attacked[d] # c
    BY <1>1, <2>1, <2>2 DEF World
  <2> QED BY <1>6, <1>10, <2>2, <2>3 DEF Sees
<1>16. Kept(v) = Kept(w) \cup {c} /\ Tame(v)
  BY <1>10 DEF Kept, Orderly, Tame
<1>17. w.master[c] = None
  <2>1. Zero \in [Creature -> Nat]
    BY DEF Zero
  <2>2. \A n \in Creature : c \notin w.summons[n]
    <3> SUFFICES ASSUME NEW n \in Creature, c \in w.summons[n]
                 PROVE  FALSE
      OBVIOUS
    <3>1. w.refs[c] > 0
      BY <1>1, <2>1, Referenced
    <3> QED BY <1>3, <3>1
  <2>3. w.master[c] \in Creature \cup {None}
    BY <1>1 DEF World
  <2> QED BY <1>1, <2>2, <2>3 DEF Sound, Serve
<1> QED
  BY <1>4, <1>10, <1>13, <1>14, <1>15, <1>16, <1>17 DEF Good, Orderly

(* A master is chosen. *)
LEMMA ServeGood ==
  ASSUME NEW w, Good(w, None, None), Orderly(w),
         NEW c \in Creature, NEW new \in Creature \cup {None}, new # w.master[c],
         new # None => new \in Kept(w) /\ c \in Kept(w) /\ c \in Monsters
  PROVE  LET v == SetMaster(w, c, new)
         IN Good(v, None, None) /\ Orderly(v) /\ Kept(v) = Kept(w)
<1> DEFINE a == [w EXCEPT !.master[c] = new]
           ms == [w.master EXCEPT ![c] = new]
           v == SetMaster(w, c, new)
<1>1. w \in World /\ Sound(w, Zero, None)
  BY DEF Good, Sound
<1>2. ms \in [Creature -> Creature \cup {None}]
  BY <1>1 DEF World
<1>3. a = [w EXCEPT !.master = ms]
  OBVIOUS
<1> HIDE DEF ms, a
<1>4. a \in World /\ Same(w, a, {"master"})
  BY <1>1, <1>2, <1>3, PutMaster
<1>5. a.placed = w.placed /\ a.attacked = w.attacked /\ a.room = w.room /\ a.releases = w.releases
  BY <1>4 DEF Same, Fields
<1>6. Orderly(a) /\ Kept(a) = Kept(w)
  <2>1. Attacks(a) /\ Kept(a) = Kept(w)
    BY <1>5 DEF Orderly, Attacks, Sees, Kept
  <2>2. \A d \in Creature : a.master[d] = IF d = c THEN new ELSE w.master[d]
    BY <1>1, <1>2, <1>3, PutMaster DEF ms, World
  <2>3. Tame(a)
    BY <2>2 DEF Tame, Orderly
  <2> QED BY <2>1, <2>3 DEF Orderly
<1>7. new # None => w.refs[new] # 0 /\ w.refs[c] # 0
  BY <1>1, KeptReferenced
<1>8. Good(v, None, None) /\ Calmer(a, v)
  BY <1>7, SetMasterGood DEF a
<1> HIDE DEF v
<1>9. v \in World
  BY <1>8 DEF Good, Sound
<1>10. Orderly(v) /\ Kept(v) = Kept(w)
  BY <1>4, <1>6, <1>8, <1>9, OrderlyKept, CalmerKept
<1> QED
  BY <1>8, <1>10 DEF v

LEMMA PlaceCreatureGood ==
  ASSUME NEW w, Good(w, None, None), Orderly(w),
         NEW c \in Creature, c \notin w.placed \cup w.removed, NEW r \in Rooms,
         NEW order, Len(order) \in Nat,
         NEW master \in Creature \cup {None}, master # None => master \in Kept(w) /\ c \in Monsters
  PROVE  LET v == PlaceCreature(w, order, c, r, master)
         IN /\ Good(v, None, None) /\ Orderly(v) /\ Kept(w) \cup {c} = Kept(v)
            /\ master = None => v.master[c] = None
<1> DEFINE a == InternalPlaceCreature(w, c, r)
           b == IF master = None THEN a ELSE SetMaster(a, c, master)
           d == TellAppearance(b, order, c)
           v == AddCreatureCheck(d, c)
<1>1. /\ Good(a, None, None) /\ Orderly(a) /\ Kept(a) = Kept(w) \cup {c}
      /\ a.master[c] = None
  BY InternalPlaceGood
<1> HIDE DEF a
<1>2. Good(b, None, None) /\ Orderly(b) /\ Kept(b) = Kept(a) /\ (master = None => b.master[c] = None)
  <2>1. CASE master = None
    BY <1>1, <2>1
  <2>2. CASE master # None
    <3>1. master # a.master[c] /\ master \in Kept(a) /\ c \in Kept(a)
      BY <1>1, <2>2
    <3> QED BY <1>1, <2>2, <3>1, ServeGood
  <2> QED BY <2>1, <2>2
<1> HIDE DEF b
<1>3. d \in Better(b, None)
  <2>1. c \in Kept(b)
    BY <1>1, <1>2
  <2> QED BY <1>2, <2>1, TellAppearanceGood
<1> HIDE DEF d
<1>4. Good(d, c, None) /\ d.refs[c] # 0 /\ Good(d, None, None) /\ Calmer(b, d)
  <2>1. c \in Kept(d)
    BY <1>1, <1>2, <1>3, CalmerKept DEF Better
  <2> QED BY <1>3, <2>1, GoodOf, KeptReferenced DEF Better, Good
<1>5. Good(v, None, None) /\ Calmer(d, v)
  BY <1>4, AddCreatureCheckGood
<1>6. v = PlaceCreature(w, order, c, r, master)
  BY DEF PlaceCreature, d, b, a
<1> HIDE DEF v
<1>7. Calmer(b, v)
  BY <1>2, <1>4, <1>5, GoodTwice
<1>8. Orderly(v) /\ Kept(v) = Kept(w) \cup {c} /\ (master = None => v.master[c] = None)
  <2>1. b \in World /\ v \in World
    BY <1>2, <1>5 DEF Good, Sound
  <2>2. v.master[c] \in {b.master[c], None}
    BY <1>7 DEF Calmer
  <2> QED BY <1>1, <1>2, <1>7, <2>1, <2>2, OrderlyKept, CalmerKept
<1> QED
  BY <1>5, <1>6, <1>8

-----------------------------------------------------------------------------
(* Removing *)
Covers(order, w) ==
  /\ Len(order) \in Nat
  /\ \A c \in w.placed : \E i \in 1 .. Len(order) : order[i] = c

LEMMA CoversLess ==
  ASSUME NEW order, NEW w, NEW v, Covers(order, w), Calmer(w, v)
  PROVE  Covers(order, v)
BY DEF Covers, Calmer

LEMMA OnRemoveCreatureGood ==
  ASSUME NEW w, NEW c \in Creature, NEW s \in Creature, s # c => s \in Kept(w), Good(w, None, c)
  PROVE  LET v == OnRemoveCreature(w, s, c) IN v \in Better(w, c) /\ v.attacked[s] # c
<1> DEFINE a == OnCreatureDisappear(w, s, c)
           v == OnRemoveCreature(w, s, c)
<1>1. w \in World /\ None # c
  BY Constants DEF Good, Sound
<1>2. Good(a, None, c) /\ Calmer(w, a) /\ a.attacked[s] # c
  <2>1. CASE w.attacked[s] = c
    BY <1>1, <2>1, StopGood DEF OnCreatureDisappear
  <2>2. CASE w.attacked[s] # c
    <3>1. Calmer(w, w)
      BY CalmerSelf DEF Good
    <3> QED BY <2>2, <3>1 DEF OnCreatureDisappear
  <2> QED BY <2>1, <2>2
<1> HIDE DEF a
<1>3. CASE s \in Players
  <2>1. v = a
    BY <1>3 DEF OnRemoveCreature, a
  <2> HIDE DEF v
  <2>2. v \in Better(w, c)
    BY <1>2, <2>1 DEF Better, Good, Sound
  <2> QED BY <1>2, <2>1, <2>2 DEF v
<1>4. CASE s \notin Players /\ s = c
  <2> DEFINE b == LoseMaster(a, c)
             u == SetIdle(b, c, TRUE)
  <2>1. Good(b, None, c) /\ Calmer(a, b)
    <3>1. Calmer(a, a)
      BY <1>2, CalmerSelf DEF Good
    <3>2. a.master[c] # None => Good(SetMaster(a, c, None), None, c) /\ Calmer(a, SetMaster(a, c, None))
      BY <1>2, SetMasterGood
    <3> QED BY <1>2, <3>1, <3>2 DEF LoseMaster
  <2> HIDE DEF b
  <2>2. Good(b, c, c)
    BY <2>1, GoodOf
  <2>3. Good(u, None, c) /\ Calmer(b, u)
    BY <2>2, SetIdleGood
  <2> HIDE DEF u
  <2>4. v = u
    BY <1>4 DEF OnRemoveCreature, a, b, u
  <2> HIDE DEF v
  <2>5. Calmer(a, u)
    BY <1>2, <2>1, <2>3, GoodTwice
  <2>6. Calmer(w, u)
    BY <1>2, <2>3, <2>5, GoodTwice
  <2>7. u.attacked[s] # c
    BY <1>1, <1>2, <2>5 DEF Calmer
  <2> QED BY <2>3, <2>4, <2>6, <2>7 DEF Better, Good, Sound, v
<1>5. CASE s \notin Players /\ s # c
  <2> DEFINE u == OnCreatureLeave(a, s, c)
  <2>1. s \in Kept(a)
    BY <1>2, <1>5, CalmerKept
  <2>2. Good(u, None, c) /\ Calmer(a, u)
    BY <1>2, <2>1, OnCreatureLeaveGood
  <2> HIDE DEF u
  <2>3. v = u
    BY <1>5 DEF OnRemoveCreature, a, u
  <2> HIDE DEF v
  <2>4. Calmer(w, u)
    BY <1>2, <2>2, GoodTwice
  <2>5. u.attacked[s] # c
    BY <1>1, <1>2, <2>2 DEF Calmer
  <2> QED BY <2>2, <2>3, <2>4, <2>5 DEF Better, Good, Sound, v
<1> QED BY <1>3, <1>4, <1>5

(* Off the map *)
LEMMA UnplaceGood ==
  ASSUME NEW w, Good(w, None, None), NEW c \in w.placed
  PROVE  LET v == [w EXCEPT !.placed = @ \ {c}]
         IN /\ Good(v, None, c) /\ v \in World /\ v.placed = w.placed \ {c} /\ Same(w, v, {"placed"})
            /\ c \in Creature
<1>1. w \in World /\ Sound(w, Zero, None) /\ Watching(w, None) /\ c \in Creature /\ c # None
  BY Constants DEF Good, Sound, World
<1> DEFINE pl == w.placed \ {c}
           v == [w EXCEPT !.placed = pl]
<1>2. v = [w EXCEPT !.placed = @ \ {c}]
  BY <1>1 DEF World
<1>3. v \in World /\ v.placed = pl /\ Same(w, v, {"placed"})
  BY <1>1, PutPlaced DEF World
<1> HIDE DEF v
<1>4. /\ v.removed = w.removed /\ v.dying = w.dying
      /\ v.freed = w.freed /\ v.releases = w.releases /\ v.targets = w.targets
      /\ v.friends = w.friends /\ v.checked = w.checked /\ v.attacked = w.attacked
      /\ v.listed = w.listed /\ v.summons = w.summons /\ v.master = w.master
      /\ v.room = w.room /\ v.refs = w.refs
  BY <1>3 DEF Same, Fields
<1>5. Counts(v, Zero, c)
  <2> SUFFICES ASSUME NEW d \in Creature
               PROVE  v.refs[d] = Expected(v, d) + Zero[d] + Holds({c}, d)
    BY DEF Counts
  <2>1. w.refs[d] = Expected(w, d) + Zero[d] + Holds({None}, d) /\ Zero[d] = 0
    BY <1>1 DEF Sound, Counts, Zero
  <2>2. /\ Expected(w, d) = w.releases[d] + Holds(w.placed, d) + Holds(w.listed, d)
                              + Given(w, Creature, d)
        /\ Expected(v, d) = v.releases[d] + Holds(v.placed, d) + Holds(v.listed, d)
                              + Given(v, Creature, d)
        /\ Given(w, Creature, d) \in Nat /\ w.releases[d] \in Nat
    BY <1>1, <1>3, ExpectedNat
  <2>3. Given(v, Creature, d) = Given(w, Creature, d)
    BY <1>4 DEF Given
  <2>4. Holds(w.placed, d) \in Nat /\ Holds(w.listed, d) \in Nat /\ Holds(v.placed, d) \in Nat
          /\ Holds({c}, d) \in Nat /\ Holds({None}, d) = 0
    BY HoldsNat, Constants DEF Holds
  <2>5. Holds(w.placed, d) = Holds(v.placed, d) + Holds({c}, d)
    BY <1>3 DEF Holds
  <2> DEFINE n == w.refs[d]  e == Expected(w, d)  k == Expected(v, d)  r == w.releases[d]
             hp == Holds(w.placed, d)  np == Holds(v.placed, d)  hc == Holds({c}, d)
             hl == Holds(w.listed, d)  g == Given(w, Creature, d)  z == Zero[d]
             hx == Holds({None}, d)
  <2>6. /\ n = e + z + hx /\ z = 0 /\ hx = 0 /\ hp = np + hc
        /\ e = r + hp + hl + g /\ k = r + np + hl + g
        /\ hp \in Nat /\ np \in Nat /\ hc \in Nat /\ hl \in Nat /\ g \in Nat /\ r \in Nat
    BY <1>4, <2>1, <2>2, <2>3, <2>4, <2>5, Zenon
  <2>7. n = k + z + hc
    <3> HIDE DEF n, e, k, r, hp, np, hc, hl, g, z, hx
    <3> QED BY <2>6
  <2> QED BY <1>4, <2>7, Zenon
<1>6. ASSUME NEW d \in Creature
      PROVE  Lives(v, c, d)
  <2>1. Lives(w, None, d)
    BY <1>1 DEF Sound
  <2>2. d # None
    BY Constants
  <2> QED BY <1>3, <1>4, <2>1, <2>2 DEF Lives
<1>7. Sound(v, Zero, c)
  <2>1. Serve(v) /\ v.placed \cap v.removed = {} /\ v.checked \subseteq v.listed
    BY <1>1, <1>3, <1>4 DEF Sound, Serve
  <2> QED BY <1>3, <1>5, <1>6, <2>1 DEF Sound
<1>8. Watching(v, None)
  BY <1>1, <1>3, <1>4 DEF Watching
<1> QED
  BY <1>1, <1>2, <1>3, <1>7, <1>8 DEF Good

(* Removed, to be released *)
LEMMA RemovedGood ==
  ASSUME NEW w, NEW c \in Creature, Good(w, None, c), c \notin w.placed
  PROVE  LET v == Removed(w, c)
         IN /\ Good(v, None, None) /\ v.placed = w.placed /\ v.removed = w.removed \cup {c}
            /\ Kept(v) = Kept(w) \cup {c} /\ v.freed = w.freed /\ v.room = w.room
            /\ v.attacked = w.attacked /\ v.master = w.master
<1>1. w \in World /\ Sound(w, Zero, c) /\ Watching(w, None) /\ c # None
  BY Constants DEF Good, Sound
<1>2. w.releases[c] \in Nat
  BY <1>1 DEF World
<1> DEFINE rd == w.removed \cup {c}
           rl == [w.releases EXCEPT ![c] = @ + 1]
           a == [w EXCEPT !.removed = rd]
           b == [a EXCEPT !.releases = rl]
           v == RemoveCreatureCheck(b, c)
<1>3. v = Removed(w, c)
  BY <1>1 DEF Removed, World
<1>4. rd \in SUBSET Creature /\ rl \in [Creature -> Nat]
  BY <1>1 DEF World
<1>5. \A d \in Creature : rl[d] = IF d = c THEN w.releases[c] + 1 ELSE w.releases[d]
  BY <1>1 DEF World
<1> HIDE DEF rl
<1>6. a \in World /\ a.removed = rd /\ Same(w, a, {"removed"})
  BY <1>1, <1>4, PutRemoved
<1> HIDE DEF a
<1>7. b \in World /\ b.releases = rl /\ Same(a, b, {"releases"})
  BY <1>4, <1>6, PutReleases
<1> HIDE DEF b, v
<1>8. /\ b.placed = w.placed /\ b.dying = w.dying /\ b.removed = rd
      /\ b.freed = w.freed /\ b.releases = rl /\ b.targets = w.targets
      /\ b.friends = w.friends /\ b.checked = w.checked /\ b.attacked = w.attacked
      /\ b.listed = w.listed /\ b.summons = w.summons /\ b.master = w.master
      /\ b.room = w.room /\ b.refs = w.refs
  BY <1>6, <1>7 DEF Same, Fields
<1>9. Counts(b, Zero, None)
  <2> SUFFICES ASSUME NEW d \in Creature
               PROVE  b.refs[d] = Expected(b, d) + Zero[d] + Holds({None}, d)
    BY DEF Counts
  <2>1. w.refs[d] = Expected(w, d) + Zero[d] + Holds({c}, d) /\ Zero[d] = 0
    BY <1>1 DEF Sound, Counts, Zero
  <2>2. /\ Expected(w, d) = w.releases[d] + Holds(w.placed, d) + Holds(w.listed, d)
                              + Given(w, Creature, d)
        /\ Expected(b, d) = b.releases[d] + Holds(b.placed, d) + Holds(b.listed, d)
                              + Given(b, Creature, d)
        /\ Given(w, Creature, d) \in Nat /\ w.releases[d] \in Nat
    BY <1>1, <1>7, ExpectedNat
  <2>3. Given(b, Creature, d) = Given(w, Creature, d)
    BY <1>8 DEF Given
  <2>4. Holds(w.placed, d) \in Nat /\ Holds(w.listed, d) \in Nat
          /\ Holds({c}, d) \in Nat /\ Holds({None}, d) = 0
    BY HoldsNat, Constants DEF Holds
  <2>5. rl[d] = w.releases[d] + Holds({c}, d)
    BY <1>5, <2>2 DEF Holds
  <2> DEFINE n == w.refs[d]  e == Expected(w, d)  k == Expected(b, d)  r == w.releases[d]
             hp == Holds(w.placed, d)  q == rl[d]  hc == Holds({c}, d)
             hl == Holds(w.listed, d)  g == Given(w, Creature, d)  z == Zero[d]
             hx == Holds({None}, d)
  <2>6. /\ n = e + z + hc /\ z = 0 /\ hx = 0 /\ q = r + hc
        /\ e = r + hp + hl + g /\ k = q + hp + hl + g
        /\ hp \in Nat /\ hc \in Nat /\ hl \in Nat /\ g \in Nat /\ r \in Nat
    BY <1>8, <2>1, <2>2, <2>3, <2>4, <2>5, Zenon
  <2>7. n = k + z + hx
    <3> HIDE DEF n, e, k, r, hp, q, hc, hl, g, z, hx
    <3> QED BY <2>6
  <2> QED BY <1>8, <2>7, Zenon
<1>10. ASSUME NEW d \in Creature
       PROVE  Lives(b, None, d)
  <2>1. Lives(w, c, d)
    BY <1>1 DEF Sound
  <2>2. d # None
    BY Constants
  <2>3. w.refs[c] # 0 /\ c \notin w.freed
    <3>1. Zero \in [Creature -> Nat]
      BY DEF Zero
    <3>2. w.refs[c] > 0 /\ w.refs[c] \in Nat /\ (w.refs[c] > 0 => c \notin w.freed)
      BY <1>1, <3>1, Referenced
    <3> QED BY <3>2
  <2> QED BY <1>8, <2>1, <2>2, <2>3 DEF Lives
<1>11. Good(b, None, None)
  <2>1. Serve(b) /\ b.placed \cap b.removed = {} /\ b.checked \subseteq b.listed
    BY <1>1, <1>8 DEF Sound, Serve
  <2>2. Sound(b, Zero, None)
    BY <1>7, <1>9, <1>10, <2>1 DEF Sound
  <2>3. Watching(b, None)
    BY <1>1, <1>8 DEF Watching
  <2> QED BY <2>2, <2>3 DEF Good
<1>12. Good(v, None, None) /\ Calmer(b, v)
  BY <1>8, <1>11, RemoveCreatureCheckGood DEF v
<1>13. Same(b, v, {"checked"})
  BY <1>7 DEF v, RemoveCreatureCheck, Same, Fields, World
<1>14. Kept(b) = Kept(w) \cup {c}
  <2>1. \A d \in Creature : w.releases[d] \in Nat
    BY <1>1 DEF World
  <2>2. \A d \in Creature : b.releases[d] > 0 <=> w.releases[d] > 0 \/ d = c
    BY <1>5, <1>8, <2>1
  <2> QED BY <1>8, <2>2 DEF Kept
<1> QED
  BY <1>3, <1>8, <1>12, <1>13, <1>14, CalmerKept DEF Same, Fields

LEMMA TellRemovalGood ==
  ASSUME NEW w, Good(w, None, None), NEW c \in w.placed, NEW order, Covers(order, w)
  PROVE  LET u == [w EXCEPT !.placed = @ \ {c}]
             v == TellRemoval(w, order, c)
         IN v \in Better(u, c) /\ \A s \in Spectators(w, {w.room[c]}) : v.attacked[s] # c
<1> DEFINE u == [w EXCEPT !.placed = @ \ {c}]
           F == [s \in Creature |-> [v \in World |-> OnRemoveCreature(v, s, c)]]
           S == Spectators(w, {w.room[c]})
           v == TellRemoval(w, order, c)
<1>1. /\ Good(u, None, c) /\ u \in World /\ u.placed = w.placed \ {c} /\ Same(w, u, {"placed"})
      /\ c \in Creature /\ c # None
  BY UnplaceGood, Constants
<1> HIDE DEF u
<1>2. S \subseteq w.placed /\ S \subseteq Creature /\ \A s \in S : s # c => s \in Kept(u)
  BY <1>1 DEF Spectators, Kept, Good, Sound, World
<1>3. ASSUME NEW s \in S, NEW t \in Better(u, c)
      PROVE  F[s][t] \in Better(t, c) /\ F[s][t].attacked[s] # c
  <2>1. t \in World /\ Good(t, None, c) /\ Kept(t) = Kept(u)
    BY CalmerKept DEF Better
  <2>2. F[s][t] = OnRemoveCreature(t, s, c)
    BY <1>2, <2>1
  <2>3. s \in Creature /\ (s # c => s \in Kept(t))
    BY <1>2, <2>1
  <2> HIDE DEF F, S
  <2> QED BY <1>1, <2>1, <2>2, <2>3, OnRemoveCreatureGood
<1>4. v = InTurn(F, u, order, S)
  BY DEF TellRemoval, u
<1> HIDE DEF F, S, v
<1>5. Does(F, S, u, c)
  BY <1>3 DEF Does
<1>6. Len(order) \in Nat
  BY DEF Covers
<1>7. v \in Better(u, c)
  BY <1>1, <1>4, <1>5, <1>6, InTurnGood
<1>8. ASSUME NEW s \in S
      PROVE  v.attacked[s] # c
  <2> DEFINE G == Better(u, c)
             D == {t \in World : t.attacked[s] # c}
  <2>1. PICK j \in 1 .. Len(order) : order[j] = s
    BY <1>2 DEF Covers
  <2>2. u \in G
    BY <1>1, BetterSelf
  <2>3. \A t \in G, r \in S : F[r][t] \in G
    BY <1>1, <1>3, BetterTwice
  <2>4. ASSUME NEW t \in G \cap D, NEW r \in S
        PROVE  F[r][t] \in D
    <3>1. F[r][t] \in Better(t, c)
      BY <1>3
    <3>2. F[r][t] \in World /\ F[r][t].attacked[s] \in {t.attacked[s], None}
      BY <1>2, <3>1 DEF Better, Calmer
    <3> QED BY <1>1, <3>2
  <2>5. ASSUME NEW t \in G
        PROVE  F[s][t] \in D
    BY <1>3 DEF Better
  <2> HIDE DEF G, D
  <2>6. v \in D
    BY <1>4, <1>6, <2>1, <2>2, <2>3, <2>4, <2>5, InTurnReaches
  <2> QED BY <2>6 DEF D
<1> QED
  BY <1>7, <1>8 DEF u, v, S

LEMMA RemoveAloneGood ==
  ASSUME NEW w, Good(w, None, None), NEW c \in w.placed, NEW order, Covers(order, w)
  PROVE  RemoveAlone(w, order, c) \in Better(w, None)
<1> DEFINE u == [w EXCEPT !.placed = @ \ {c}]
           v == TellRemoval(w, order, c)
           r == RemoveAlone(w, order, c)
<1>1. /\ v \in Better(u, c)
      /\ \A s \in Spectators(w, {w.room[c]}) : v.attacked[s] # c
  BY TellRemovalGood
<1>2. /\ Good(u, None, c) /\ u \in World /\ u.placed = w.placed \ {c} /\ Same(w, u, {"placed"})
      /\ c \in Creature /\ c # None
  BY UnplaceGood, Constants
<1>3. r = Removed(v, c)
  BY DEF RemoveAlone
<1> HIDE DEF u, v, r
<1>4. Good(v, None, c) /\ Calmer(u, v) /\ v \in World /\ w \in World
  BY <1>1 DEF Better, Good, Sound
<1>5. c \notin v.placed
  BY <1>2, <1>4 DEF Calmer
<1>6. /\ Good(r, None, None) /\ r.placed = v.placed /\ r.removed = v.removed \cup {c}
      /\ Kept(r) = Kept(v) \cup {c} /\ r.freed = v.freed /\ r.room = v.room
      /\ r.attacked = v.attacked /\ r.master = v.master
  BY <1>2, <1>3, <1>4, <1>5, RemovedGood
<1>7. /\ u.removed = w.removed /\ u.releases = w.releases /\ u.freed = w.freed /\ u.room = w.room
      /\ u.attacked = w.attacked /\ u.master = w.master
  BY <1>2 DEF Same, Fields
<1>8. Kept(r) = Kept(w)
  <2>1. Kept(w) = Kept(u) \cup {c}
    BY <1>2, <1>7 DEF Kept
  <2> QED BY <1>4, <1>6, <2>1, CalmerKept
<1>9. /\ r.placed \subseteq w.placed
      /\ r.placed \cup r.removed = w.placed \cup w.removed
      /\ w.freed \subseteq r.freed
      /\ r.placed \cap r.freed = {}
      /\ \A d \in Creature \ r.freed : r.room[d] = w.room[d]
      /\ \A d \in Creature : r.attacked[d] \in {w.attacked[d], None}
      /\ \A d \in Creature : r.master[d] \in {w.master[d], None}
  BY <1>2, <1>4, <1>6, <1>7 DEF Calmer
<1>10. ASSUME NEW a \in r.placed, NEW b \in w.placed \ r.placed, r.attacked[a] = b
       PROVE  w.room[a] # w.room[b]
  <2>1. a \in v.placed /\ v.attacked[a] = b /\ a \in w.placed
    BY <1>6, <1>9, <1>10
  <2>2. CASE b = c
    <3>1. a \notin Spectators(w, {w.room[c]})
      BY <1>1, <2>1, <2>2
    <3> QED BY <2>1, <2>2, <3>1 DEF Spectators
  <2>3. CASE b # c
    <3>1. b \in u.placed \ v.placed
      BY <1>2, <1>6, <2>3
    <3>2. u.room[a] # u.room[b]
      BY <1>4, <2>1, <3>1 DEF Calmer
    <3> QED BY <1>7, <3>2
  <2> QED BY <2>2, <2>3
<1>11. Calmer(w, r)
  BY <1>8, <1>9, <1>10 DEF Calmer
<1>12. r \in World
  BY <1>6 DEF Good, Sound
<1> QED
  BY <1>6, <1>11, <1>12 DEF Better, r

(* The recursion of RemoveCreature *)
Removals(f, order, N) ==
  f = [n \in 0 .. N |->
         [c \in Creature |-> [v \in World |->
            IF c \in v.removed THEN v
            ELSE LET u == RemoveAlone(v, order, c)
                 IN IF n = 0 THEN u ELSE InTurn(f[n - 1], u, order, u.summons[c])]]]

LEMMA RemovalsExist ==
  ASSUME NEW order, NEW N \in Nat
  PROVE  \E f : Removals(f, order, N)
<1> DEFINE First == [c \in Creature |-> [v \in World |->
                       IF c \in v.removed THEN v ELSE RemoveAlone(v, order, c)]]
           After(g) == [c \in Creature |-> [v \in World |->
                          IF c \in v.removed THEN v
                          ELSE LET u == RemoveAlone(v, order, c)
                               IN InTurn(g, u, order, u.summons[c])]]
           Row(f, n) == IF n = 0 THEN First ELSE After(f[n - 1])
           Steps(f, n) == f = [i \in 0 .. n |-> Row(f, i)]
           T == {n \in Nat : \E f : Steps(f, n)}
<1>1. 0 \in T
  <2> DEFINE f == [i \in 0 .. 0 |-> First]
  <2> HIDE DEF First, After
  <2>1. \A i \in 0 .. 0 : f[i] = Row(f, i)
    OBVIOUS
  <2>2. Steps(f, 0)
    BY <2>1
  <2> QED BY <2>2
<1>2. ASSUME NEW n \in 1 .. N, n - 1 \in T
      PROVE  n \in T
  <2> HIDE DEF First, After
  <2>1. PICK f : Steps(f, n - 1)
    BY <1>2
  <2> DEFINE g == [i \in 0 .. n |-> IF i = n THEN Row(f, n) ELSE f[i]]
  <2>2. \A i \in 0 .. n - 1 : g[i] = f[i] /\ f[i] = Row(f, i)
    BY <2>1
  <2>3. g[n] = Row(f, n) /\ n # 0 /\ n - 1 \in 0 .. n - 1
    OBVIOUS
  <2>4. ASSUME NEW i \in 0 .. n
        PROVE  g[i] = Row(g, i)
    <3>1. CASE i = n
      <4>1. g[n - 1] = f[n - 1]
        BY <2>2, <2>3
      <4> HIDE DEF g
      <4> QED BY <2>3, <3>1, <4>1
    <3>2. CASE i # n
      <4>1. i \in 0 .. n - 1 /\ (i # 0 => i - 1 \in 0 .. n - 1)
        BY <3>2
      <4> HIDE DEF g
      <4> QED BY <2>2, <4>1
    <3> QED BY <3>1, <3>2
  <2>5. g = [i \in 0 .. n |-> g[i]]
    OBVIOUS
  <2> HIDE DEF g, Row
  <2>6. Steps(g, n)
    BY <2>4, <2>5
  <2> QED BY <2>6
<1> HIDE DEF T
<1>3. N \in T
  BY <1>1, <1>2, AllTurnsFromNone
<1>4. PICK f : Steps(f, N)
  BY <1>3 DEF T
<1>5. \A n \in 0 .. N : Row(f, n) =
        [c \in Creature |-> [v \in World |->
            IF c \in v.removed THEN v
            ELSE LET u == RemoveAlone(v, order, c)
                 IN IF n = 0 THEN u ELSE InTurn(f[n - 1], u, order, u.summons[c])]]
  <2> TAKE n \in 0 .. N
  <2>1. CASE n = 0
    BY <2>1
  <2>2. CASE n # 0
    BY <2>2
  <2> QED BY <2>1, <2>2
<1>6. Removals(f, order, N)
  <2> HIDE DEF Row
  <2> QED BY <1>4, <1>5 DEF Removals
<1> QED
  BY <1>6

LEMMA RemoveCreatureGood ==
  ASSUME NEW w, Good(w, None, None), NEW c \in w.placed \cup w.removed,
         NEW order, Covers(order, w)
  PROVE  Removal(order)[c][w] \in Better(w, None)
<1> DEFINE N == Cardinality(Creature)
           f == CHOOSE f : Removals(f, order, N)
           Fits(F) == \A v \in World : \A d \in v.placed \cup v.removed :
                        Good(v, None, None) /\ Covers(order, v) => F[d][v] \in Better(v, None)
           T == {n \in 0 .. N : Fits(f[n])}
<1>1. N \in Nat
  BY Constants, FS_CardinalityType
<1> HIDE DEF N
<1>2. Removals(f, order, N)
  BY <1>1, RemovalsExist
<1>3. Removal(order) = f[N]
  BY DEF Removal, Removals, N
<1> HIDE DEF f
<1>4. ASSUME NEW n \in 0 .. N, NEW d \in Creature, NEW v \in World
      PROVE  f[n][d][v] =
               IF d \in v.removed THEN v
               ELSE LET u == RemoveAlone(v, order, d)
                    IN IF n = 0 THEN u ELSE InTurn(f[n - 1], u, order, u.summons[d])
  <2> DEFINE Row(i) == [e \in Creature |-> [t \in World |->
                         IF e \in t.removed THEN t
                         ELSE LET u == RemoveAlone(t, order, e)
                              IN IF i = 0 THEN u ELSE InTurn(f[i - 1], u, order, u.summons[e])]]
  <2>1. f = [i \in 0 .. N |-> Row(i)]
    BY <1>2 DEF Removals
  <2>2. f[n] = Row(n)
    <3> HIDE DEF Row
    <3> QED BY <2>1
  <2>3. Row(n)[d][v] = IF d \in v.removed THEN v
                       ELSE LET u == RemoveAlone(v, order, d)
                            IN IF n = 0 THEN u ELSE InTurn(f[n - 1], u, order, u.summons[d])
    OBVIOUS
  <2> HIDE DEF Row
  <2> QED BY <2>2, <2>3
<1>5. ASSUME NEW n \in 0 .. N, n # 0 => Fits(f[n - 1]),
             NEW v \in World, NEW d \in v.placed \cup v.removed, Good(v, None, None),
             Covers(order, v)
      PROVE  f[n][d][v] \in Better(v, None)
  <2>1. d \in Creature
    BY DEF World
  <2>2. CASE d \in v.removed
    BY <1>4, <1>5, <2>1, <2>2, BetterSelf
  <2>3. CASE d \notin v.removed
    <3> DEFINE u == RemoveAlone(v, order, d)
               S == u.summons[d]
    <3>1. u \in Better(v, None)
      BY <1>5, <2>3, RemoveAloneGood
    <3>2. f[n][d][v] = IF n = 0 THEN u ELSE InTurn(f[n - 1], u, order, S)
      BY <1>4, <2>1, <2>3
    <3> HIDE DEF u
    <3>3. CASE n = 0
      BY <3>1, <3>2, <3>3
    <3>4. CASE n # 0
      <4>1. Good(u, None, None) /\ Calmer(v, u) /\ u \in World
        BY <3>1 DEF Better
      <4>2. ASSUME NEW s \in S
            PROVE  s \in u.placed \cup u.removed
        <5>1. Zero \in [Creature -> Nat] /\ s \in Creature
          BY <2>1, <4>1 DEF Zero, World
        <5>2. u.refs[s] > 0 => s \in u.placed \cup u.removed \cup {None}
          BY <4>1, <5>1, Referenced DEF Good
        <5>3. u.refs[s] > 0
          BY <2>1, <4>1, <5>1, Referenced DEF Good
        <5> QED BY <5>1, <5>2, <5>3, Constants
      <4>3. ASSUME NEW s \in S, NEW t \in Better(u, None)
            PROVE  f[n - 1][s][t] \in Better(t, None)
        <5>1. t \in World /\ Good(t, None, None) /\ Calmer(u, t)
          BY DEF Better
        <5>2. s \in t.placed \cup t.removed
          BY <4>2, <5>1 DEF Calmer
        <5>3. Covers(order, t)
          BY <1>5, <4>1, <5>1, CoversLess
        <5> QED BY <1>5, <3>4, <5>1, <5>2, <5>3
      <4>4. Does(f[n - 1], S, u, None)
        BY <4>3 DEF Does
      <4>5. InTurn(f[n - 1], u, order, S) \in Better(u, None)
        BY <1>5, <4>1, <4>4, InTurnGood DEF Covers
      <4> QED BY <3>1, <3>2, <3>4, <4>5, BetterTwice
    <3> QED BY <3>3, <3>4
  <2> QED BY <2>2, <2>3
<1>6. 0 \in T
  BY <1>1, <1>5
<1>7. \A n \in 1 .. N : n - 1 \in T => n \in T
  BY <1>1, <1>5
<1> HIDE DEF T
<1>8. N \in T
  BY <1>1, <1>6, <1>7, AllTurnsFromNone
<1>9. w \in World
  BY DEF Good, Sound
<1> QED
  BY <1>3, <1>8, <1>9 DEF T

-----------------------------------------------------------------------------
(* Moving *)
LEMMA LeaveSummonsGood ==
  ASSUME NEW w, Good(w, None, None), NEW s, NEW c \in Creature, NEW order, Covers(order, w)
  PROVE  LeaveSummons(w, order, s, c) \in Better(w, None)
<1> DEFINE S == {m \in w.summons[c] : ~Sees(w, c, m)}
<1>1. w \in World /\ Sound(w, Zero, None) /\ Zero \in [Creature -> Nat]
  BY DEF Good, Sound, Zero
<1>2. ASSUME NEW m \in S
      PROVE  m \in w.placed \cup w.removed
  <2>1. m \in Creature /\ m # None /\ m \in w.summons[c]
    BY <1>1, Constants DEF World
  <2>2. w.refs[m] > 0
    BY <1>1, <2>1, Referenced
  <2>3. m \in w.placed \cup w.removed \cup {None}
    BY <1>1, <2>1, <2>2, Referenced
  <2> QED BY <2>1, <2>3
<1>3. ASSUME NEW m \in S, NEW v \in Better(w, None)
      PROVE  Removal(order)[m][v] \in Better(v, None)
  <2>1. v \in World /\ Good(v, None, None) /\ Calmer(w, v)
    BY DEF Better
  <2>2. m \in v.placed \cup v.removed
    BY <1>2, <2>1 DEF Calmer
  <2>3. Covers(order, v)
    BY <2>1, CoversLess
  <2> QED BY <2>1, <2>2, <2>3, RemoveCreatureGood
<1> HIDE DEF S
<1>4. Does(Removal(order), S, w, None) /\ Len(order) \in Nat
  BY <1>3 DEF Does, Covers
<1>5. InTurn(Removal(order), w, order, S) \in Better(w, None)
  BY <1>4, InTurnGood
<1>6. w \in Better(w, None)
  BY BetterSelf
<1> QED
  BY <1>5, <1>6 DEF LeaveSummons, S

LEMMA MeetOrLeaveGood ==
  ASSUME NEW w, Good(w, None, None), NEW s \in Creature, s \in Kept(w),
         NEW c \in Creature, c \in Kept(w), NEW order, Len(order) \in Nat
  PROVE  MeetOrLeave(w, order, s, c) \in Better(w, None)
<1> DEFINE v == IF s = c THEN UpdateTargetList(w, order, s)
                ELSE IF Sees(w, s, c) THEN OnCreatureFound(w, s, c)
                ELSE OnCreatureLeave(w, s, c)
           u == UpdateIdleStatus(v, s)
<1>1. w \in World /\ w \in Better(w, None)
  BY BetterSelf DEF Better
<1>2. v \in Better(w, None)
  <2>1. UpdateTargetList(w, order, s) \in Better(w, None)
    BY UpdateTargetListGood
  <2>2. OnCreatureFound(w, s, c) \in Better(w, None)
    BY OnCreatureFoundGood DEF Better, Good, Sound
  <2>3. OnCreatureLeave(w, s, c) \in Better(w, None)
    BY OnCreatureLeaveGood DEF Better, Good, Sound
  <2> QED BY <2>1, <2>2, <2>3
<1>3. MeetOrLeave(w, order, s, c) = IF s \in Players THEN w ELSE u
  BY DEF MeetOrLeave
<1> HIDE DEF v
<1>4. Good(v, s, None) /\ v.refs[s] # 0
  BY <1>2, GoodOf, CalmerKept, KeptReferenced DEF Better, Good
<1>5. Good(u, None, None) /\ Calmer(v, u)
  BY <1>4, UpdateIdleStatusGood
<1> HIDE DEF u
<1>6. u \in Better(w, None)
  <2>1. u \in Better(v, None)
    BY <1>5 DEF Better, Good, Sound
  <2> QED BY <1>1, <1>2, <2>1, BetterTwice
<1> QED
  BY <1>1, <1>3, <1>6

(* Who moves, or attacks who does, sees whom it attacks in m. *)
Keeps(v, m, s, c) ==
  s \in v.placed /\ v.attacked[s] # None /\ c \in {s, v.attacked[s]}
    => m.room[s] = m.room[v.attacked[s]]

LEMMA OnCreatureMoveGood ==
  ASSUME NEW m \in World, NEW w \in Better(m, None), NEW s \in Creature, s \in Kept(w),
         NEW c \in Creature, c \in Kept(w), NEW order, Covers(order, w)
  PROVE  LET v == OnCreatureMove(w, order, s, c)
         IN v \in Better(w, None) /\ Keeps(v, m, s, c)
<1> DEFINE a == LeaveSummons(w, order, s, c)
           b == LoseSight(a, s, c)
           v == MeetOrLeave(b, order, s, c)
<1>1. w \in World /\ Good(w, None, None) /\ Calmer(m, w) /\ Len(order) \in Nat
  BY DEF Better, Covers
<1>2. a \in Better(w, None)
  BY <1>1, LeaveSummonsGood
<1> HIDE DEF a
<1>3. a \in World /\ Good(a, None, None) /\ Calmer(w, a) /\ Sound(a, Zero, None)
  BY <1>2 DEF Better, Good
<1>4. Good(b, None, None) /\ Calmer(a, b)
        /\ b.attacked[s] = IF LosesSight(a, s, c) THEN None ELSE a.attacked[s]
  <2>1. CASE LosesSight(a, s, c)
    BY <1>3, <2>1, StopGood DEF LoseSight
  <2>2. CASE ~LosesSight(a, s, c)
    <3>1. Calmer(a, a)
      BY <1>3, CalmerSelf
    <3> QED BY <1>3, <2>2, <3>1 DEF LoseSight
  <2> QED BY <2>1, <2>2
<1> HIDE DEF b
<1>5. b \in Better(w, None) /\ s \in Kept(b) /\ c \in Kept(b)
  <2>1. b \in Better(a, None)
    BY <1>4 DEF Better, Good, Sound
  <2>2. Kept(b) = Kept(w)
    BY <1>3, <1>4, CalmerKept
  <2> QED BY <1>1, <1>2, <2>1, <2>2, BetterTwice
<1>6. v \in Better(b, None)
  BY <1>1, <1>4, <1>5, MeetOrLeaveGood
<1>7. v = OnCreatureMove(w, order, s, c)
  BY DEF OnCreatureMove, b, a
<1> HIDE DEF v
<1>8. v \in Better(w, None)
  BY <1>1, <1>5, <1>6, BetterTwice
<1>9. Keeps(v, m, s, c)
  <2> SUFFICES ASSUME s \in v.placed, v.attacked[s] # None, c \in {s, v.attacked[s]}
               PROVE  m.room[s] = m.room[v.attacked[s]]
    BY DEF Keeps
  <2> DEFINE d == v.attacked[s]
  <2>1. Calmer(b, v) /\ v \in World
    BY <1>6 DEF Better
  <2>2. d \in Creature /\ b.attacked[s] = d
    BY <2>1 DEF Calmer, World
  <2>3. a.attacked[s] = d /\ ~LosesSight(a, s, c)
    BY <1>4, <2>2
  <2>4. a.room[s] = a.room[d]
    BY <2>3 DEF LosesSight, Sees
  <2>5. s \in a.placed
    BY <1>4, <2>1 DEF Calmer
  <2>6. Lives(a, None, s) /\ Lives(a, None, d)
    BY <1>3, <2>2 DEF Sound
  <2>7. a.room[s] # None /\ d \notin a.freed /\ s \notin a.freed
    BY <1>3, <2>4, <2>5, <2>6 DEF Lives, Calmer
  <2>8. Calmer(m, a)
    BY <1>1, <1>3, CalmerTwice
  <2> QED BY <2>2, <2>4, <2>7, <2>8 DEF Calmer
<1> QED
  BY <1>7, <1>8, <1>9

LEMMA MovedGood ==
  ASSUME NEW w, Good(w, None, None), NEW c \in w.placed, NEW r \in Rooms
  PROVE  LET m == [w EXCEPT !.room[c] = r]
         IN /\ m \in World /\ Good(m, None, None) /\ Same(w, m, {"room"}) /\ c \in Creature
            /\ \A d \in Creature : m.room[d] = IF d = c THEN r ELSE w.room[d]
<1>1. w \in World /\ Sound(w, Zero, None) /\ Watching(w, None) /\ c \in Creature /\ r # None
  BY CreaturesAssumption DEF Good, Sound, World
<1> DEFINE rm == [w.room EXCEPT ![c] = r]
           m == [w EXCEPT !.room = rm]
<1>2. rm \in [Creature -> Rooms \cup {None}]
  BY <1>1 DEF World
<1>3. \A d \in Creature : rm[d] = IF d = c THEN r ELSE w.room[d]
  BY <1>1 DEF World
<1>4. m = [w EXCEPT !.room[c] = r]
  OBVIOUS
<1> HIDE DEF rm
<1>5. m \in World /\ m.room = rm /\ Same(w, m, {"room"})
  BY <1>1, <1>2, PutRoom
<1> HIDE DEF m
<1>6. /\ m.placed = w.placed /\ m.removed = w.removed /\ m.dying = w.dying
      /\ m.freed = w.freed /\ m.releases = w.releases /\ m.targets = w.targets
      /\ m.friends = w.friends /\ m.summons = w.summons /\ m.checked = w.checked
      /\ m.master = w.master /\ m.refs = w.refs /\ m.listed = w.listed /\ m.attacked = w.attacked
  BY <1>5 DEF Same, Fields
<1>7. Sound(m, Zero, None)
  <2>1. \A d \in Creature : Expected(m, d) = Expected(w, d)
    BY <1>6 DEF Expected, Given
  <2>2. Counts(m, Zero, None)
    BY <1>1, <1>6, <2>1 DEF Sound, Counts
  <2>3. Serve(m)
    BY <1>1, <1>6 DEF Sound, Serve
  <2>4. ASSUME NEW d \in Creature
        PROVE  Lives(m, None, d)
    <3>1. Lives(w, None, d) /\ c \notin w.freed
      BY <1>1, PlacedLive DEF Sound
    <3> QED BY <1>1, <1>3, <1>5, <1>6, <3>1 DEF Lives
  <2> QED BY <1>1, <1>5, <1>6, <2>2, <2>3, <2>4 DEF Sound
<1>8. Watching(m, None)
  BY <1>1, <1>6 DEF Watching
<1> QED
  BY <1>1, <1>3, <1>4, <1>5, <1>7, <1>8 DEF Good

LEMMA MoveCreatureGood ==
  ASSUME NEW w, Good(w, None, None), Orderly(w), NEW c \in w.placed, NEW r \in Rooms,
         NEW order, Covers(order, w)
  PROVE  LET v == MoveCreature(w, order, c, r) IN Good(v, None, None) /\ Orderly(v)
<1> DEFINE m == [w EXCEPT !.room[c] = r]
           F == [s \in Creature |-> [u \in World |-> OnCreatureMove(u, order, s, c)]]
           S == Spectators(m, {w.room[c], r})
           v == MoveCreature(w, order, c, r)
<1>1. /\ m \in World /\ Good(m, None, None) /\ Same(w, m, {"room"}) /\ c \in Creature
      /\ \A d \in Creature : m.room[d] = IF d = c THEN r ELSE w.room[d]
  BY MovedGood
<1>2. w \in World
  BY DEF Good, Sound
<1>3. v = InTurn(F, m, order, S)
  BY DEF MoveCreature
<1> HIDE DEF m, v
<1>4. m.placed = w.placed /\ m.attacked = w.attacked /\ m.master = w.master
  BY <1>1 DEF Same, Fields
<1>5. Covers(order, m) /\ c \in Kept(m)
  BY <1>4 DEF Covers, Kept
<1>6. S \subseteq Kept(m) /\ S \subseteq Creature /\ S \subseteq m.placed
  BY <1>1 DEF Spectators, Kept, World
<1>7. ASSUME NEW s \in S, NEW t \in Better(m, None)
      PROVE  F[s][t] \in Better(t, None) /\ Keeps(F[s][t], m, s, c)
  <2>1. t \in World /\ Calmer(m, t)
    BY DEF Better
  <2>2. F[s][t] = OnCreatureMove(t, order, s, c)
    BY <1>6, <2>1
  <2>3. Covers(order, t) /\ s \in Kept(t) /\ c \in Kept(t) /\ s \in Creature
    BY <1>5, <1>6, <2>1, CalmerKept, CoversLess
  <2> HIDE DEF F, S
  <2> QED BY <1>1, <2>2, <2>3, OnCreatureMoveGood
<1> HIDE DEF F
<1>8. Len(order) \in Nat
  BY DEF Covers
<1>9. v \in Better(m, None)
  <2>1. Does(F, S, m, None)
    BY <1>7 DEF Does
  <2> HIDE DEF S
  <2> QED BY <1>1, <1>3, <1>8, <2>1, InTurnGood
<1>10. ASSUME NEW s \in S
       PROVE  Keeps(v, m, s, c)
  <2> DEFINE G == Better(m, None)
             D == {t \in World : Keeps(t, m, s, c)}
  <2>1. PICK j \in 1 .. Len(order) : order[j] = s
    BY <1>5, <1>6 DEF Covers
  <2>2. m \in G
    BY <1>1, BetterSelf
  <2> HIDE DEF S
  <2>3. \A t \in G, p \in S : F[p][t] \in G
    BY <1>1, <1>7, BetterTwice
  <2>4. ASSUME NEW t \in G \cap D, NEW p \in S
        PROVE  F[p][t] \in D
    <3>1. F[p][t] \in World /\ Calmer(t, F[p][t])
      BY <1>7 DEF Better
    <3>2. s \in Creature
      BY <1>6
    <3>3. Keeps(F[p][t], m, s, c)
      BY <3>1, <3>2 DEF Keeps, Calmer
    <3> QED BY <3>1, <3>3
  <2>5. ASSUME NEW t \in G
        PROVE  F[s][t] \in D
    BY <1>7 DEF Better
  <2> HIDE DEF G, D
  <2>6. v \in D
    BY <1>3, <1>8, <2>1, <2>2, <2>3, <2>4, <2>5, InTurnReaches
  <2> QED BY <2>6 DEF D
<1>11. Calmer(m, v) /\ v \in World /\ Good(v, None, None)
  BY <1>9 DEF Better
<1>12. Attacks(v)
  <2> SUFFICES ASSUME NEW a \in v.placed, v.attacked[a] # None
               PROVE  v.attacked[a] \in v.placed /\ Sees(v, a, v.attacked[a])
    BY DEF Attacks
  <2> DEFINE b == v.attacked[a]
  <2>1. a \in Creature /\ a \in w.placed /\ w.attacked[a] = b
    BY <1>4, <1>11 DEF Calmer, World
  <2>2. b \in w.placed /\ w.room[a] = w.room[b] /\ b \in Creature
    BY <1>2, <2>1 DEF Orderly, Attacks, Sees, World
  <2>3. m.room[a] = m.room[b]
    <3>1. CASE c \notin {a, b}
      BY <1>1, <2>1, <2>2, <3>1
    <3>2. CASE c \in {a, b}
      <4>1. a \in S
        BY <1>1, <1>4, <2>1, <2>2, <3>2 DEF Spectators
      <4> HIDE DEF S
      <4> QED BY <1>10, <3>2, <4>1 DEF Keeps
    <3> QED BY <3>1, <3>2
  <2>4. b \in v.placed
    BY <1>4, <1>11, <2>2, <2>3 DEF Calmer
  <2>5. a \notin v.freed /\ b \notin v.freed
    BY <1>11, <2>4 DEF Calmer
  <2>6. v.room[a] = m.room[a] /\ v.room[b] = m.room[b]
    BY <1>11, <2>1, <2>2, <2>5 DEF Calmer
  <2> QED BY <2>3, <2>4, <2>6 DEF Sees
<1>13. Tame(v)
  BY <1>4, <1>11 DEF Calmer, Tame, Orderly
<1> QED
  BY <1>11, <1>12, <1>13 DEF v, Orderly

-----------------------------------------------------------------------------
(* Health and death *)
LEMMA ChangeHealthGood ==
  ASSUME NEW w, Good(w, None, None), NEW m \in Monsters, m \in w.placed \ w.dying,
         NEW lethal \in BOOLEAN
  PROVE  LET v == ChangeHealth(w, m, lethal) IN Good(v, None, None) /\ Calmer(w, v)
<1> DEFINE u == SetIdle(w, m, FALSE)
           e == IF lethal THEN u.dying \cup {m} ELSE u.dying
           v == [u EXCEPT !.dying = e]
<1>1. m \in Creature /\ m \notin w.removed /\ m \in Kept(w)
  BY DEF Creature, Good, Sound, Kept
<1>2. Good(w, m, None) /\ w.refs[m] # 0
  BY <1>1, GoodOf, KeptReferenced DEF Good
<1>3. Good(u, None, None) /\ Calmer(w, u) /\ m \in u.checked
  BY <1>1, <1>2, SetIdleGood
<1>4. u \in World /\ Sound(u, Zero, None) /\ Watching(u, None)
  BY <1>3 DEF Good, Sound
<1>5. v = ChangeHealth(w, m, lethal)
  <2>1. ChangeHealth(w, m, lethal) = [u EXCEPT !.dying = IF lethal THEN @ \cup {m} ELSE @]
    BY DEF ChangeHealth
  <2> HIDE DEF u
  <2> QED BY <1>4, <2>1 DEF World
<1> HIDE DEF u
<1>6. e \in SUBSET Monsters
  BY <1>4 DEF World
<1>7. v \in World /\ v.dying = e /\ Same(u, v, {"dying"})
  BY <1>4, <1>6, PutDying
<1> HIDE DEF v
<1>8. /\ v.room = u.room /\ v.placed = u.placed /\ v.removed = u.removed
      /\ v.freed = u.freed /\ v.releases = u.releases /\ v.targets = u.targets
      /\ v.friends = u.friends /\ v.checked = u.checked /\ v.attacked = u.attacked
      /\ v.listed = u.listed /\ v.summons = u.summons /\ v.master = u.master
      /\ v.refs = u.refs
  BY <1>7 DEF Same, Fields
<1>9. Counts(v, Zero, None) /\ Serve(v)
  <2>1. \A c \in Creature : Expected(v, c) = Expected(u, c)
    BY <1>8 DEF Expected, Given
  <2>2. \A c \in Creature : u.refs[c] = Expected(u, c) + Zero[c] + Holds({None}, c)
    BY <1>4 DEF Sound, Counts
  <2>3. Counts(v, Zero, None)
    BY <1>8, <2>1, <2>2, Zenon DEF Counts
  <2>4. Serve(v)
    BY <1>4, <1>8 DEF Sound, Serve
  <2> QED BY <2>3, <2>4
<1>10. ASSUME NEW c \in Creature
       PROVE  Lives(v, None, c)
  <2>1. Lives(u, None, c)
    BY <1>4 DEF Sound
  <2>2. m \in u.placed \cup u.removed
    BY <1>3 DEF Calmer
  <2> QED BY <1>7, <1>8, <2>1, <2>2 DEF Lives
<1>11. Sound(v, Zero, None)
  BY <1>4, <1>7, <1>8, <1>9, <1>10 DEF Sound
<1>12. Watching(v, None)
  BY <1>3, <1>4, <1>7, <1>8 DEF Watching
<1>13. Calmer(u, v)
  <2>1. Same(u, v, {"refs", "targets", "friends", "summons", "listed", "checked", "dying",
                     "attacked", "master"})
    BY <1>7 DEF Same
  <2> QED BY <1>4, <1>8, <2>1, CalmerSame
<1>14. Good(v, None, None)
  BY <1>11, <1>12 DEF Good
<1>15. Calmer(w, v)
  BY <1>3, <1>13, <1>14, GoodTwice
<1> QED
  BY <1>5, <1>14, <1>15

LEMMA KillSummonsGood ==
  ASSUME NEW w, Good(w, None, None), Tame(w), NEW m \in Creature
  PROVE  LET v == KillSummons(w, m) IN Good(v, None, None) /\ Calmer(w, v)
<1> DEFINE S == w.summons[m]
           K == S \ (w.removed \cup w.dying)
           refs == [c \in Creature |-> w.refs[c] + Holds(K \ w.listed, c)]
           checked == w.checked \cup K
           listed == w.listed \cup K
           dying == w.dying \cup S
           summons == [w.summons EXCEPT ![m] = {}]
           master == [c \in Creature |-> IF c \in S THEN None ELSE w.master[c]]
           u == [w EXCEPT !.refs = refs, !.checked = checked, !.listed = listed,
                          !.dying = dying, !.summons = summons, !.master = master]
           back == [c \in Creature |-> Holds(S, c)]
           v == KillSummons(w, m)
<1>1. w \in World /\ Sound(w, Zero, None) /\ Watching(w, None) /\ Zero \in [Creature -> Nat]
  BY DEF Good, Sound, Zero
<1>2. /\ S \in SUBSET Creature /\ w.summons \in Lists /\ w.refs \in [Creature -> Nat]
      /\ w.checked \in SUBSET Creature /\ w.listed \in SUBSET Creature
      /\ w.dying \in SUBSET Monsters /\ w.master \in [Creature -> Creature \cup {None}]
      /\ None \notin Creature
  BY <1>1, Constants DEF World, Lists
<1>3. \A c \in S : w.master[c] = m /\ c \in Monsters
  BY <1>1, <1>2 DEF Sound, Serve, Tame
<1>4. \A c \in S : w.refs[c] > 0 /\ c \in w.placed \cup w.removed
  <2> SUFFICES ASSUME NEW c \in S
               PROVE  w.refs[c] > 0 /\ c \in w.placed \cup w.removed \cup {None}
    BY <1>2
  <2>1. w.refs[c] > 0
    BY <1>1, <1>2, Referenced
  <2> QED BY <1>1, <1>2, <2>1, Referenced
<1>5. v = GiveBack(u, back)
  <2>1. v = GiveBack([Wake(w, K) EXCEPT !.dying = @ \cup S, !.summons[m] = {},
                        !.master = [c \in Creature |-> IF c \in S THEN None ELSE @[c]]], back)
    BY DEF KillSummons
  <2>2. Wake(w, K) = [w EXCEPT !.refs = refs, !.checked = checked, !.listed = listed]
    BY DEF Wake
  <2> HIDE DEF refs, checked, listed, v, back, K, S
  <2>3. [Wake(w, K) EXCEPT !.dying = @ \cup S, !.summons[m] = {},
           !.master = [c \in Creature |-> IF c \in S THEN None ELSE @[c]]] = u
    BY <1>1, <2>2 DEF World
  <2> QED BY <2>1, <2>3
<1>6. K \in SUBSET Creature /\ \A c \in Creature : Holds(K \ w.listed, c) \in Nat
  BY <1>2, HoldsNat
<1>7. /\ refs \in [Creature -> Nat] /\ checked \in SUBSET Creature /\ listed \in SUBSET Creature
      /\ dying \in SUBSET Monsters /\ summons \in Lists
      /\ master \in [Creature -> Creature \cup {None}] /\ back \in [Creature -> Nat]
  <2>1. refs \in [Creature -> Nat]
    <3>1. \A c \in Creature : w.refs[c] \in Nat /\ Holds(K \ w.listed, c) \in Nat
      BY <1>2, <1>6
    <3> HIDE DEF K
    <3> QED BY <3>1
  <2>2. back \in [Creature -> Nat]
    BY HoldsNat
  <2>3. dying \in SUBSET Monsters /\ summons \in Lists
    BY <1>2, <1>3 DEF Lists
  <2>4. master \in [Creature -> Creature \cup {None}]
    BY <1>2
  <2> QED BY <1>2, <1>6, <2>1, <2>2, <2>3, <2>4
<1>8. /\ \A c \in Creature : refs[c] = w.refs[c] + Holds(K \ w.listed, c)
      /\ \A c \in Creature : back[c] = Holds(S, c)
      /\ \A c \in Creature : summons[c] = IF c = m THEN {} ELSE w.summons[c]
      /\ \A c \in Creature : master[c] = IF c \in S THEN None ELSE w.master[c]
  BY <1>2 DEF Lists
<1> HIDE DEF refs, summons, master, back
<1>9. u \in World
  BY <1>1, <1>7 DEF World, Lists
<1>10. /\ u.room = w.room /\ u.placed = w.placed /\ u.removed = w.removed
       /\ u.freed = w.freed /\ u.releases = w.releases /\ u.targets = w.targets
       /\ u.friends = w.friends /\ u.attacked = w.attacked
       /\ u.refs = refs /\ u.checked = checked /\ u.listed = listed
       /\ u.dying = dying /\ u.summons = summons /\ u.master = master
  BY <1>1 DEF World
<1>11. Same(w, u, {"refs", "checked", "listed", "dying", "summons", "master"})
  BY <1>10 DEF Same, Fields
<1> HIDE DEF u, v
<1>12. Counts(u, back, None)
  <2> SUFFICES ASSUME NEW c \in Creature
               PROVE  u.refs[c] = Expected(u, c) + back[c] + Holds({None}, c)
    BY DEF Counts
  <2>1. Pointers(u.summons, Creature, c)
          = Pointers(w.summons, Creature, c) - Holds(S, c) + Holds({}, c)
    <3> DEFINE T == {}
    <3>1. T \in SUBSET Creature /\ u.summons = [w.summons EXCEPT ![m] = T]
      BY <1>10 DEF summons
    <3> HIDE DEF T
    <3>2. Pointers([w.summons EXCEPT ![m] = T], Creature, c)
            = Pointers(w.summons, Creature, c) - Holds(w.summons[m], c) + Holds(T, c)
      BY <1>2, <3>1, PointersChange
    <3> QED BY <3>1, <3>2 DEF T
  <2>2. Holds(u.listed, c) = Holds(w.listed, c) + Holds(K \ w.listed, c) /\ Holds({}, c) = 0
    BY <1>10 DEF Holds
  <2>3. /\ Pointers(w.targets, Creature, c) \in Nat /\ Pointers(w.friends, Creature, c) \in Nat
        /\ Pointers(w.summons, Creature, c) \in Nat
    BY PointersNat
  <2>4. /\ Holds(w.placed, c) \in Nat /\ Holds(w.listed, c) \in Nat /\ Holds({None}, c) \in Nat
        /\ Holds(S, c) \in Nat /\ Holds(K \ w.listed, c) \in Nat
    BY HoldsNat
  <2>5. w.refs[c] = Expected(w, c) + Zero[c] + Holds({None}, c) /\ Zero[c] = 0
    BY <1>1 DEF Sound, Counts, Zero
  <2>6. w.releases[c] \in Nat /\ w.refs[c] \in Nat
    BY <1>1 DEF World
  <2> DEFINE r == w.releases[c]  hp == Holds(w.placed, c)  hl == Holds(w.listed, c)
             hn == Holds({None}, c)  hs == Holds(S, c)  hk == Holds(K \ w.listed, c)
             pt == Pointers(w.targets, Creature, c)  pf == Pointers(w.friends, Creature, c)
             ps == Pointers(w.summons, Creature, c)  qs == Pointers(u.summons, Creature, c)
             n == w.refs[c]  k == u.refs[c]  nl == Holds(u.listed, c)  z == Zero[c]
             he == Holds({}, c)
  <2>7. /\ n = r + hp + hl + (pt + pf + ps) + z + hn /\ qs = ps - hs + he /\ nl = hl + hk
        /\ k = n + hk /\ z = 0 /\ he = 0
    BY <1>8, <1>10, <2>1, <2>2, <2>5, Zenon DEF Expected, Given
  <2>8. k = r + hp + nl + (pt + pf + qs) + hs + hn
    <3>1. /\ n \in Nat /\ r \in Nat /\ hp \in Nat /\ hl \in Nat /\ hn \in Nat /\ hs \in Nat
          /\ hk \in Nat /\ pt \in Nat /\ pf \in Nat /\ ps \in Nat
      BY <2>3, <2>4, <2>6
    <3> HIDE DEF n, k, r, hp, hl, hn, hs, hk, pt, pf, ps, qs, nl, z, he
    <3> QED BY <2>7, <3>1
  <2> QED BY <1>8, <1>10, <2>8, Zenon DEF Expected, Given
<1>13. Serve(u)
  <2> SUFFICES ASSUME NEW c \in Creature, NEW n \in Creature
               PROVE  c \in u.summons[n] <=> u.master[c] = n
    BY DEF Serve
  <2>1. c \in w.summons[n] <=> w.master[c] = n
    BY <1>1 DEF Sound, Serve
  <2> HIDE DEF S
  <2>2. c \in S <=> c \in w.summons[m]
    BY DEF S
  <2>3. CASE c \in S
    BY <1>2, <1>3, <1>8, <1>10, <2>1, <2>3
  <2>4. CASE c \notin S
    BY <1>8, <1>10, <2>1, <2>2, <2>4
  <2> QED BY <2>3, <2>4
<1>14. ASSUME NEW c \in Creature
       PROVE  Lives(u, None, c)
  <2>1. Lives(w, None, c)
    BY <1>1 DEF Sound
  <2>2. u.refs[c] = 0 <=> w.refs[c] = 0
    <3>1. c \in K => w.refs[c] > 0
      BY <1>4
    <3>2. Holds(K \ w.listed, c) \in Nat /\ (c \notin K => Holds(K \ w.listed, c) = 0)
      BY DEF Holds
    <3>3. w.refs[c] \in Nat /\ u.refs[c] = w.refs[c] + Holds(K \ w.listed, c)
      BY <1>2, <1>8, <1>10
    <3> HIDE DEF K
    <3> QED BY <3>1, <3>2, <3>3
  <2>3. u.summons[c] \subseteq w.summons[c]
    BY <1>8, <1>10
  <2>4. c \in u.dying => c \in w.dying \/ c \in w.placed \cup w.removed
    BY <1>4, <1>10
  <2> HIDE DEF S, K
  <2> QED BY <1>10, <2>1, <2>2, <2>3, <2>4 DEF Lives
<1>15. Sound(u, back, None)
  <2>1. u.placed \cap u.removed = {} /\ u.checked \subseteq u.listed
    BY <1>1, <1>10 DEF Sound
  <2> QED BY <1>9, <1>12, <1>13, <1>14, <2>1 DEF Sound
<1>16. Watching(u, None)
  <2> SUFFICES ASSUME NEW n \in Monsters \cap u.placed,
                      n \in u.dying \/ (n # None /\ u.targets[n] # {})
               PROVE  n \in u.checked
    BY DEF Watching
  <2>1. n \in w.placed /\ n \notin w.removed
    BY <1>1, <1>10 DEF Sound
  <2>2. CASE n \in w.dying \/ w.targets[n] # {}
    <3>1. n # None
      BY <1>2 DEF Creature
    <3>2. n \in w.checked
      BY <1>1, <2>1, <2>2, <3>1 DEF Watching
    <3> QED BY <1>10, <3>2
  <2>3. CASE n \notin w.dying /\ w.targets[n] = {}
    <3>1. n \in S
      BY <1>10, <2>3
    <3> QED BY <1>10, <2>1, <2>3, <3>1
  <2> QED BY <2>2, <2>3
<1>17. Calmer(w, u)
  <2>1. Same(w, u, {"refs", "targets", "friends", "summons", "listed", "checked", "dying",
                     "attacked", "master"})
    BY <1>11 DEF Same
  <2>2. \A c \in Creature : u.master[c] \in {w.master[c], None}
    BY <1>8, <1>10
  <2>3. \A c \in Creature : u.attacked[c] \in {w.attacked[c], None}
    BY <1>10
  <2> QED BY <1>1, <2>1, <2>2, <2>3, CalmerSame
<1>18. Good(v, None, None) /\ Calmer(u, v)
  BY <1>5, <1>7, <1>15, <1>16, GiveBackGood
<1>19. Calmer(w, v)
  BY <1>1, <1>9, <1>17, <1>18, CalmerTwice DEF Good, Sound
<1> QED
  BY <1>18, <1>19 DEF v

LEMMA LeaveMasterGood ==
  ASSUME NEW w, Good(w, None, None), NEW m \in Creature
  PROVE  LET v == LeaveMaster(w, m) IN Good(v, None, None) /\ Calmer(w, v)
<1>1. Calmer(w, w)
  BY CalmerSelf DEF Good
<1>2. w.master[m] # None =>
        Good(SetMaster(w, m, None), None, None) /\ Calmer(w, SetMaster(w, m, None))
  BY SetMasterGood
<1> QED
  BY <1>1, <1>2 DEF LeaveMaster

LEMMA OnDeathGood ==
  ASSUME NEW w, Good(w, None, None), Orderly(w), NEW m \in w.placed \cup w.removed,
         NEW order, Covers(order, w)
  PROVE  LET v == OnDeath(w, order, m) IN Good(v, None, None) /\ Orderly(v)
<1> DEFINE a == SetAttackedCreature(w, m, None)
           b == KillSummons(a, m)
           d == ClearLists(b, m)
           e == LeaveMaster(d, m)
           v == RemoveCreature(e, order, m)
<1>1. w \in World /\ m \in Creature
  BY DEF Good, Sound, World
<1>2. Good(a, None, None) /\ Calmer(w, a)
  BY <1>1, StopGood
<1> HIDE DEF a
<1>3. a \in World /\ Tame(a)
  BY <1>1, <1>2, OrderlyKept DEF Good, Sound, Orderly
<1>4. Good(b, None, None) /\ Calmer(a, b)
  BY <1>1, <1>2, <1>3, KillSummonsGood
<1> HIDE DEF b
<1>5. Good(d, None, None) /\ Calmer(b, d)
  BY <1>1, <1>4, ClearListsGood
<1> HIDE DEF d
<1>6. Good(e, None, None) /\ Calmer(d, e)
  BY <1>1, <1>5, LeaveMasterGood
<1> HIDE DEF e
<1>7. Calmer(w, b)
  BY <1>2, <1>4, GoodTwice
<1>8. Calmer(w, d)
  BY <1>4, <1>5, <1>7, GoodTwice
<1>9. Calmer(w, e)
  BY <1>5, <1>6, <1>8, GoodTwice
<1>10. m \in e.placed \cup e.removed /\ Covers(order, e)
  <2>1. m \in e.placed \cup e.removed
    BY <1>9 DEF Calmer
  <2> QED BY <1>9, <2>1, CoversLess
<1>11. v \in Better(e, None)
  BY <1>6, <1>10, RemoveCreatureGood DEF RemoveCreature
<1>12. v = OnDeath(w, order, m)
  BY DEF OnDeath, e, d, b, a
<1> HIDE DEF v
<1>13. Good(v, None, None) /\ v \in World /\ Calmer(e, v)
  BY <1>11 DEF Better
<1>14. Calmer(w, v)
  BY <1>6, <1>9, <1>13, GoodTwice
<1> QED
  BY <1>1, <1>12, <1>13, <1>14, OrderlyKept

LEMMA ThinkGood ==
  ASSUME NEW w, Good(w, None, None), NEW c \in w.listed
  PROVE  LET v == Think(w, c) IN Good(v, None, None) /\ Calmer(w, v)
<1>1. c \in Creature /\ Sound(w, Zero, None) /\ Zero \in [Creature -> Nat]
  BY DEF Good, Sound, World, Zero
<1>2. w.refs[c] # 0
  <2>1. w.refs[c] > 0 /\ w.refs[c] \in Nat
    BY <1>1, Referenced
  <2> QED BY <2>1
<1>3. Good(w, c, None) /\ Calmer(w, w)
  BY <1>1, GoodOf, CalmerSelf
<1>4. LET v == UpdateIdleStatus(w, c) IN Good(v, None, None) /\ Calmer(w, v)
  BY <1>1, <1>2, <1>3, UpdateIdleStatusGood
<1> QED
  BY <1>3, <1>4 DEF Think

(* A list drops c, which waits for the cleanup with the reference of the list. *)
LEMMA DroppedGood ==
  ASSUME NEW w, Good(w, None, None), Orderly(w), NEW c \in w.listed \ w.checked
  PROVE  LET v == [w EXCEPT !.listed = @ \ {c}, !.releases[c] = @ + 1]
         IN Good(v, None, None) /\ Orderly(v)
<1> DEFINE li == w.listed \ {c}
           rl == [w.releases EXCEPT ![c] = @ + 1]
           v == [w EXCEPT !.listed = li, !.releases = rl]
<1>1. w \in World /\ Sound(w, Zero, None) /\ Watching(w, None) /\ c \in Creature
  BY DEF Good, Sound, World
<1>2. v = [w EXCEPT !.listed = @ \ {c}, !.releases[c] = @ + 1]
  OBVIOUS
<1>3. /\ li \in SUBSET Creature /\ rl \in [Creature -> Nat]
      /\ \A d \in Creature : rl[d] = w.releases[d] + Holds({c}, d)
  BY <1>1 DEF World, Holds
<1> HIDE DEF rl
<1>4. v \in World
  BY <1>1, <1>3 DEF World
<1>5. /\ v.room = w.room /\ v.placed = w.placed /\ v.removed = w.removed /\ v.dying = w.dying
      /\ v.freed = w.freed /\ v.releases = rl /\ v.targets = w.targets
      /\ v.friends = w.friends /\ v.checked = w.checked /\ v.attacked = w.attacked
      /\ v.listed = li /\ v.summons = w.summons /\ v.master = w.master
      /\ v.refs = w.refs
  BY <1>1 DEF World
<1> HIDE DEF v
<1>6. Counts(v, Zero, None)
  <2> SUFFICES ASSUME NEW d \in Creature
               PROVE  v.refs[d] = Expected(v, d) + Zero[d] + Holds({None}, d)
    BY DEF Counts
  <2>1. Holds(w.listed, d) = Holds(v.listed, d) + Holds({c}, d)
    BY <1>5 DEF Holds
  <2>2. w.refs[d] = Expected(w, d) + Zero[d] + Holds({None}, d)
    BY <1>1 DEF Sound, Counts
  <2>3. /\ Holds({c}, d) \in Nat /\ Holds(v.listed, d) \in Nat /\ Holds(w.placed, d) \in Nat
        /\ Holds({None}, d) \in Nat /\ Zero[d] \in Nat
    BY HoldsNat DEF Zero
  <2>4. /\ Expected(w, d) = w.releases[d] + Holds(w.placed, d) + Holds(w.listed, d)
                              + Given(w, Creature, d)
        /\ Expected(v, d) = v.releases[d] + Holds(v.placed, d) + Holds(v.listed, d)
                              + Given(v, Creature, d)
        /\ Given(w, Creature, d) \in Nat /\ w.releases[d] \in Nat
    BY <1>1, <1>4, ExpectedNat
  <2>5. Given(v, Creature, d) = Given(w, Creature, d) /\ v.refs[d] = w.refs[d]
          /\ v.releases[d] = w.releases[d] + Holds({c}, d) /\ v.placed = w.placed
    BY <1>3, <1>5 DEF Given
  <2> DEFINE r == w.releases[d]  s == v.releases[d]  hp == Holds(w.placed, d)
             hl == Holds(w.listed, d)  nl == Holds(v.listed, d)  hc == Holds({c}, d)
             g == Given(w, Creature, d)  ew == Expected(w, d)  ev == Expected(v, d)
  <2>6. ew = r + hp + hl + g /\ ev = s + hp + nl + g /\ hl = nl + hc /\ s = r + hc
    BY <2>1, <2>4, <2>5, Zenon
  <2>7. r \in Nat /\ hp \in Nat /\ nl \in Nat /\ hc \in Nat /\ g \in Nat
    BY <2>3, <2>4
  <2>8. ew = ev
    <3> HIDE DEF r, s, hp, hl, nl, hc, g, ew, ev
    <3> QED BY <2>6, <2>7
  <2> QED BY <2>2, <2>5, <2>8, Zenon
<1>7. Serve(v) /\ v.placed \cap v.removed = {} /\ v.checked \subseteq v.listed
  BY <1>1, <1>5 DEF Sound, Serve
<1>8. \A d \in Creature : Lives(v, None, d)
  BY <1>1, <1>5 DEF Sound, Lives
<1>9. Watching(v, None)
  BY <1>1, <1>5 DEF Watching
<1>10. Orderly(v)
  BY <1>5 DEF Orderly, Attacks, Sees, Tame
<1>11. Good(v, None, None)
  BY <1>4, <1>6, <1>7, <1>8, <1>9 DEF Good, Sound
<1> QED
  BY <1>2, <1>10, <1>11

(* What waited for the cleanup is given back. *)
LEMMA CleanupGood ==
  ASSUME NEW w, Good(w, None, None), Orderly(w)
  PROVE  LET v == Cleanup(w) IN Good(v, None, None) /\ Orderly(v)
<1> DEFINE back == w.releases
           rl == [c \in Creature |-> 0]
           u == [w EXCEPT !.releases = rl]
           v == GiveBack(u, back)
<1>1. w \in World /\ Sound(w, Zero, None) /\ Watching(w, None) /\ back \in [Creature -> Nat]
  BY DEF Good, Sound, World
<1>2. v = Cleanup(w)
  BY DEF Cleanup
<1>3. rl \in [Creature -> Nat] /\ \A c \in Creature : rl[c] = 0
  OBVIOUS
<1> HIDE DEF rl
<1>4. u \in World /\ u.releases = rl /\ Same(w, u, {"releases"})
  BY <1>1, <1>3, PutReleases
<1> HIDE DEF u
<1>5. /\ u.room = w.room /\ u.placed = w.placed /\ u.removed = w.removed /\ u.dying = w.dying
      /\ u.freed = w.freed /\ u.targets = w.targets
      /\ u.friends = w.friends /\ u.checked = w.checked /\ u.attacked = w.attacked
      /\ u.listed = w.listed /\ u.summons = w.summons /\ u.master = w.master
      /\ u.refs = w.refs
  BY <1>4 DEF Same, Fields
<1>6. Counts(u, back, None)
  <2> SUFFICES ASSUME NEW d \in Creature
               PROVE  u.refs[d] = Expected(u, d) + back[d] + Holds({None}, d)
    BY DEF Counts
  <2>1. w.refs[d] = Expected(w, d) + Zero[d] + Holds({None}, d) /\ Zero[d] = 0
    BY <1>1 DEF Sound, Counts, Zero
  <2>2. /\ Expected(w, d) = w.releases[d] + Holds(w.placed, d) + Holds(w.listed, d)
                              + Given(w, Creature, d)
        /\ Expected(u, d) = u.releases[d] + Holds(u.placed, d) + Holds(u.listed, d)
                              + Given(u, Creature, d)
        /\ Given(w, Creature, d) \in Nat /\ w.releases[d] \in Nat
    BY <1>1, <1>4, ExpectedNat
  <2>3. Given(u, Creature, d) = Given(w, Creature, d) /\ u.releases[d] = 0
    BY <1>3, <1>4, <1>5 DEF Given
  <2>4. Holds(w.placed, d) \in Nat /\ Holds({None}, d) \in Nat /\ Holds(w.listed, d) \in Nat
    BY HoldsNat
  <2> DEFINE r == w.releases[d]  hp == Holds(w.placed, d)  hl == Holds(w.listed, d)
             hn == Holds({None}, d)  g == Given(w, Creature, d)  ew == Expected(w, d)
             eu == Expected(u, d)  n == w.refs[d]  s == u.releases[d]  z == Zero[d]
  <2>5. ew = r + hp + hl + g /\ eu = s + hp + hl + g /\ n = ew + z + hn /\ s = 0 /\ z = 0
    BY <1>5, <2>1, <2>2, <2>3, Zenon
  <2>6. n = eu + r + hn
    <3>1. r \in Nat /\ hp \in Nat /\ hl \in Nat /\ hn \in Nat /\ g \in Nat
      BY <2>2, <2>4
    <3> HIDE DEF r, hp, hl, hn, g, ew, eu, n, s, z
    <3> QED BY <2>5, <3>1
  <2> QED BY <1>5, <2>6, Zenon
<1>7. Sound(u, back, None)
  <2>1. Serve(u) /\ u.placed \cap u.removed = {} /\ u.checked \subseteq u.listed
    BY <1>1, <1>5 DEF Sound, Serve
  <2>2. \A d \in Creature : Lives(u, None, d)
    BY <1>1, <1>5 DEF Sound, Lives
  <2> QED BY <1>4, <1>6, <2>1, <2>2 DEF Sound
<1>8. Watching(u, None)
  BY <1>1, <1>5 DEF Watching
<1>9. Orderly(u)
  BY <1>5 DEF Orderly, Attacks, Sees, Tame
<1>10. Good(v, None, None) /\ Calmer(u, v)
  BY <1>1, <1>7, <1>8, GiveBackGood
<1> HIDE DEF v
<1>11. Orderly(v)
  BY <1>4, <1>9, <1>10, OrderlyKept DEF Good, Sound
<1> QED
  BY <1>2, <1>10, <1>11

(* An attack begins. *)
LEMMA AttackGood ==
  ASSUME NEW w, Good(w, None, None), Orderly(w), NEW s \in w.placed, NEW c \in w.placed
  PROVE  LET v == SetAttackedCreature(w, s, c) IN Good(v, None, None) /\ Orderly(v)
<1>1. w \in World /\ Sound(w, Zero, None) /\ Watching(w, None) /\ Zero \in [Creature -> Nat]
  BY DEF Good, Sound, Zero
<1>2. s \in Creature /\ c \in Creature /\ c # None
  BY <1>1, Constants DEF World
<1> DEFINE sees == {y \in Creature : c = None \/ Sees(w, y, c)}
           told == Told(w, {s}, sees)
           e == [y \in Creature |-> IF y \notin told THEN w.attacked[y]
                                    ELSE IF y \in sees THEN c ELSE None]
           v == [w EXCEPT !.attacked = e]
<1>3. v = SetAttackedCreature(w, s, c)
  BY DEF SetAttackedCreature
<1>4. \A y \in told : y \in Creature /\ y \in w.placed \cup w.removed
  <2> SUFFICES ASSUME NEW y \in told
               PROVE  y \in Creature /\ y \in w.placed \cup w.removed
    OBVIOUS
  <2> HIDE DEF sees
  <2>1. y \in Creature /\ (y = s \/ \E n \in Creature : y \in w.summons[n])
    BY <1>1, <1>2, ToldAre
  <2>2. CASE y = s
    BY <2>1, <2>2
  <2>3. CASE \E n \in Creature : y \in w.summons[n]
    <3>1. w.refs[y] > 0
      BY <1>1, <2>1, <2>3, Referenced
    <3>2. y \in w.placed \cup w.removed \cup {None}
      BY <1>1, <2>1, <3>1, Referenced
    <3> QED BY <2>1, <3>2, Constants
  <2> QED BY <2>1, <2>2, <2>3
<1>5. \A y \in sees : Sees(w, y, c)
  BY <1>2
<1> HIDE DEF told, sees
<1>6. e \in [Creature -> Creature \cup {None}]
  BY <1>1, <1>2 DEF World
<1>7. \A y \in Creature : e[y] = IF y \notin told THEN w.attacked[y]
                                 ELSE IF y \in sees THEN c ELSE None
  OBVIOUS
<1> HIDE DEF e
<1>8. v \in World /\ v.attacked = e /\ Same(w, v, {"attacked"})
  BY <1>1, <1>6, PutAttacked
<1> HIDE DEF v
<1>9. /\ v.room = w.room /\ v.placed = w.placed /\ v.removed = w.removed /\ v.dying = w.dying
      /\ v.freed = w.freed /\ v.releases = w.releases /\ v.targets = w.targets
      /\ v.friends = w.friends /\ v.summons = w.summons /\ v.checked = w.checked
      /\ v.master = w.master /\ v.refs = w.refs /\ v.listed = w.listed
  BY <1>8 DEF Same, Fields
<1>10. Counts(v, Zero, None) /\ Serve(v)
  <2>1. \A d \in Creature : Expected(v, d) = Expected(w, d)
    BY <1>9 DEF Expected, Given
  <2>2. Counts(v, Zero, None)
    BY <1>1, <1>9, <2>1 DEF Sound, Counts
  <2>3. Serve(v)
    BY <1>1, <1>9 DEF Sound, Serve
  <2> QED BY <2>2, <2>3
<1>11. ASSUME NEW d \in Creature
       PROVE  Lives(v, None, d)
  <2>1. Lives(w, None, d)
    BY <1>1 DEF Sound
  <2>2. d \notin w.placed \cup w.removed => v.attacked[d] = w.attacked[d]
    BY <1>4, <1>7, <1>8
  <2> QED BY <1>9, <2>1, <2>2 DEF Lives
<1>12. Good(v, None, None)
  <2>1. Watching(v, None)
    BY <1>1, <1>9 DEF Watching
  <2> QED BY <1>1, <1>8, <1>9, <1>10, <1>11, <2>1 DEF Good, Sound
<1>13. Attacks(v)
  <2> SUFFICES ASSUME NEW a \in v.placed, v.attacked[a] # None
               PROVE  v.attacked[a] \in v.placed /\ Sees(v, a, v.attacked[a])
    BY DEF Attacks
  <2>1. a \in Creature /\ a \in w.placed
    BY <1>1, <1>9 DEF World
  <2>2. CASE a \in told
    <3>1. a \in sees /\ v.attacked[a] = c
      BY <1>7, <1>8, <2>1, <2>2
    <3> QED BY <1>5, <1>9, <3>1 DEF Sees
  <2>3. CASE a \notin told
    <3>1. v.attacked[a] = w.attacked[a]
      BY <1>7, <1>8, <2>1, <2>3
    <3> QED BY <1>9, <2>1, <3>1 DEF Orderly, Attacks, Sees
  <2> QED BY <2>2, <2>3
<1>14. Orderly(v)
  BY <1>9, <1>13 DEF Orderly, Tame
<1> QED
  BY <1>3, <1>12, <1>14

-----------------------------------------------------------------------------
(* The orders in which spectators are called reach all of them. *)
LEMMA OrdersReachAll ==
  ASSUME NEW S \in SUBSET Creature, NEW order \in Orders[S]
  PROVE  Len(order) \in Nat /\ \A c \in S : \E i \in 1 .. Len(order) : order[i] = c
<1> DEFINE n == Cardinality(S)
           D == 1 .. n
<1>1. IsFiniteSet(S) /\ n \in Nat /\ n = Cardinality(S)
  BY Constants, FS_Subset, FS_CardinalityType
<1>2. order \in [D -> S] /\ \A i, j \in D : i # j => order[i] # order[j]
  BY DEF Orders, SetToSeqs
<1> HIDE DEF n
<1>3. order \in Seq(S)
  BY <1>1, <1>2, SeqDef
<1>4. Len(order) = n
  <2>1. Len(order) \in Nat /\ DOMAIN order = 1 .. Len(order)
    BY <1>3, LenProperties
  <2>2. 1 .. Len(order) = 1 .. n
    BY <1>2, <2>1
  <2> QED BY <1>1, <2>1, <2>2
<1>5. order \in Injection(D, S)
  BY <1>2, Fun_IsInj
<1>6. Cardinality(D) = n
  <2>1. 1 \in Int /\ n \in Int
    BY <1>1
  <2>2. Cardinality(1 .. n) = IF 1 > n THEN 0 ELSE n - 1 + 1
    BY <2>1, FS_Interval, Zenon
  <2> QED BY <1>1, <2>2
<1>7. order \in Surjection(D, S)
  <2>1. Cardinality(D) = Cardinality(S)
    BY <1>1, <1>6
  <2> HIDE DEF D
  <2> QED BY <1>1, <1>5, <2>1, FS_Injection, Zenon
<1>8. \A c \in S : \E i \in D : order[i] = c
  <2> HIDE DEF D
  <2> QED BY <1>7, Fun_SurjectionProperties, Zenon
<1> QED
  BY <1>1, <1>4, <1>8

LEMMA OrdersCover ==
  ASSUME NEW w, w.placed \in SUBSET Creature, NEW order \in Orders[w.placed]
  PROVE  Covers(order, w)
BY OrdersReachAll DEF Covers

-----------------------------------------------------------------------------
(* The invariant: nothing is being given back, nobody is being removed. *)
CreaturesAreSound == Good(world, None, None) /\ Orderly(world)

LEMMA InitIsSound == CreaturesInit => CreaturesAreSound
<1> SUFFICES ASSUME CreaturesInit
             PROVE  CreaturesAreSound
  OBVIOUS
<1> DEFINE none == [c \in Creature |-> None]
           zero == [c \in Creature |-> 0]
           empty == [c \in Creature |-> {}]
<1>1. /\ none \in [Creature -> Rooms \cup {None}] /\ none \in [Creature -> Creature \cup {None}]
      /\ zero \in [Creature -> Nat] /\ empty \in Lists
      /\ \A c \in Creature : none[c] = None /\ zero[c] = 0 /\ empty[c] = {}
  BY DEF Lists
<1> HIDE DEF none, zero, empty
<1>2. world = [room |-> none, placed |-> {}, removed |-> {}, dying |-> {}, freed |-> {},
               refs |-> zero, listed |-> {}, checked |-> {}, releases |-> zero,
               targets |-> empty, friends |-> empty, attacked |-> none, master |-> none,
               summons |-> empty]
  BY DEF CreaturesInit, none, zero, empty
<1>3. world \in World
  BY <1>1, <1>2 DEF World, Lists
<1>4. /\ world.room = none /\ world.placed = {} /\ world.removed = {} /\ world.dying = {}
      /\ world.freed = {} /\ world.refs = zero /\ world.listed = {} /\ world.checked = {}
      /\ world.releases = zero /\ world.targets = empty /\ world.friends = empty
      /\ world.attacked = none /\ world.master = none /\ world.summons = empty
  BY <1>2
<1>5. Counts(world, Zero, None)
  <2> SUFFICES ASSUME NEW c \in Creature
               PROVE  world.refs[c] = Expected(world, c) + Zero[c] + Holds({None}, c)
    BY DEF Counts
  <2>1. /\ Pointers(world.targets, Creature, c) = 0 /\ Pointers(world.friends, Creature, c) = 0
        /\ Pointers(world.summons, Creature, c) = 0
    BY <1>1, <1>4, PointersNat
  <2>2. Given(world, Creature, c) = 0
    BY <2>1 DEF Given
  <2>3. /\ Holds(world.placed, c) = 0 /\ Holds(world.listed, c) = 0 /\ Holds({None}, c) = 0
        /\ world.releases[c] = 0 /\ world.refs[c] = 0 /\ Zero[c] = 0
    BY <1>1, <1>4, Constants DEF Holds, Zero
  <2>4. Expected(world, c) = 0
    BY <2>2, <2>3 DEF Expected
  <2> QED BY <2>3, <2>4
<1>6. Serve(world)
  BY <1>1, <1>4, Constants DEF Serve
<1>7. \A c \in Creature : Lives(world, None, c)
  BY <1>1, <1>4 DEF Lives
<1>8. Good(world, None, None)
  <2>1. Watching(world, None)
    BY <1>4 DEF Watching
  <2> QED BY <1>3, <1>4, <1>5, <1>6, <1>7, <2>1 DEF Good, Sound
<1>9. Orderly(world)
  BY <1>1, <1>4 DEF Orderly, Attacks, Tame
<1> QED
  BY <1>8, <1>9 DEF CreaturesAreSound

LEMMA LeaveIsSound ==
  ASSUME CreaturesAreSound, NEW order \in Orders[world.placed], NEW c, Leave(order, c)
  PROVE  CreaturesAreSound'
<1> DEFINE v == RemoveCreature(world, order, c)
<1>1. /\ Good(world, None, None) /\ Orderly(world) /\ c \in world.placed
      /\ world \in World /\ Covers(order, world) /\ world' = v
  BY OrdersCover DEF CreaturesAreSound, Good, Sound, World, Leave
<1>2. v \in Better(world, None)
  BY <1>1, RemoveCreatureGood DEF RemoveCreature
<1> HIDE DEF v
<1>3. Good(v, None, None) /\ Orderly(v)
  BY <1>1, <1>2, OrderlyKept DEF Better
<1> QED
  BY <1>1, <1>3 DEF CreaturesAreSound

LEMMA MoveIsSound ==
  ASSUME CreaturesAreSound, NEW order \in Orders[world.placed], NEW c, NEW r \in Rooms,
         Move(order, c, r)
  PROVE  CreaturesAreSound'
<1> DEFINE v == MoveCreature(world, order, c, r)
           u == Cleanup(v)
<1>1. /\ Good(world, None, None) /\ Orderly(world) /\ c \in world.placed
      /\ Covers(order, world) /\ world' = u
  BY OrdersCover DEF CreaturesAreSound, Good, Sound, World, Move
<1>2. Good(v, None, None) /\ Orderly(v)
  BY <1>1, MoveCreatureGood
<1> HIDE DEF v
<1>3. Good(u, None, None) /\ Orderly(u)
  BY <1>2, CleanupGood
<1> HIDE DEF u
<1> QED
  BY <1>1, <1>3 DEF CreaturesAreSound

LEMMA ListedAreAround ==
  ASSUME NEW w, Good(w, None, None), NEW c \in Creature, c \in w.listed
  PROVE  c \in w.placed \cup w.removed
<1>1. Sound(w, Zero, None) /\ Zero \in [Creature -> Nat] /\ c # None
  BY Constants DEF Good, Zero
<1>2. w.refs[c] > 0
  BY <1>1, Referenced
<1>3. c \in w.placed \cup w.removed \cup {None}
  BY <1>1, <1>2, Referenced
<1> QED
  BY <1>1, <1>3

LEMMA DieIsSound ==
  ASSUME CreaturesAreSound, NEW order \in Orders[world.placed], NEW c \in Creature,
         Die(order, c)
  PROVE  CreaturesAreSound'
<1> DEFINE v == OnDeath(world, order, c)
           u == Cleanup(v)
<1>1. /\ Good(world, None, None) /\ Orderly(world) /\ c \in world.listed
      /\ Covers(order, world) /\ world' = u
  BY OrdersCover DEF CreaturesAreSound, Good, Sound, World, Die
<1>2. c \in world.placed \cup world.removed
  BY <1>1, ListedAreAround
<1>3. Good(v, None, None) /\ Orderly(v)
  BY <1>1, <1>2, OnDeathGood
<1> HIDE DEF v
<1>4. Good(u, None, None) /\ Orderly(u)
  BY <1>3, CleanupGood
<1> HIDE DEF u
<1> QED
  BY <1>1, <1>4 DEF CreaturesAreSound

LEMMA CheckCreatureIsSound ==
  ASSUME CreaturesAreSound, NEW c \in Creature, CheckCreature(c)
  PROVE  CreaturesAreSound'
<1> DEFINE a == Think(world, c)
           b == [world EXCEPT !.listed = @ \ {c}, !.releases[c] = @ + 1]
           v == IF c \in world.checked THEN a ELSE b
           u == Cleanup(v)
<1>1. /\ Good(world, None, None) /\ Orderly(world) /\ c \in world.listed
      /\ world \in World /\ world' = u
  BY DEF CreaturesAreSound, Good, Sound, CheckCreature
<1>2. CASE c \in world.checked
  <2>1. Good(a, None, None) /\ Calmer(world, a)
    BY <1>1, ThinkGood
  <2> HIDE DEF a
  <2>2. Orderly(a)
    BY <1>1, <2>1, OrderlyKept DEF Good, Sound
  <2>3. Good(u, None, None) /\ Orderly(u)
    BY <1>2, <2>1, <2>2, CleanupGood
  <2> HIDE DEF u
  <2> QED BY <1>1, <2>3 DEF CreaturesAreSound
<1>3. CASE c \notin world.checked
  <2>1. Good(b, None, None) /\ Orderly(b)
    BY <1>1, <1>3, DroppedGood
  <2> HIDE DEF b
  <2>2. Good(u, None, None) /\ Orderly(u)
    BY <1>3, <2>1, CleanupGood
  <2> HIDE DEF u
  <2> QED BY <1>1, <2>2 DEF CreaturesAreSound
<1> QED BY <1>2, <1>3

LEMMA AppearIsSound ==
  ASSUME CreaturesAreSound, NEW c \in Creature, NEW r \in Rooms,
         NEW order \in Orders[In(r) \cup {c}], Appear(order, c, r)
  PROVE  CreaturesAreSound'
<1> DEFINE v == PlaceCreature(world, order, c, r, None)
<1>1. /\ Good(world, None, None) /\ Orderly(world) /\ c \notin world.placed \cup world.removed
      /\ world' = v
  BY DEF CreaturesAreSound, Appear, New
<1>2. Len(order) \in Nat
  <2>1. In(r) \cup {c} \in SUBSET Creature
    BY <1>1 DEF In, Good, Sound, World
  <2> QED BY <2>1, OrdersReachAll
<1>3. Good(v, None, None) /\ Orderly(v)
  BY <1>1, <1>2, PlaceCreatureGood
<1> HIDE DEF v
<1> QED
  BY <1>1, <1>3 DEF CreaturesAreSound

LEMMA SummonIsSound ==
  ASSUME CreaturesAreSound, NEW m \in Creature, NEW r \in Rooms, NEW c \in In(r),
         NEW order \in Orders[In(r) \cup {m}], Summon(order, m, c)
  PROVE  CreaturesAreSound'
<1> DEFINE a == PlaceCreature(world, order, m, r, c)
           b == PlaceCreature(world, order, m, r, None)
           v == SetMaster(b, m, c)
<1>1. /\ Good(world, None, None) /\ Orderly(world) /\ world \in World
      /\ m \notin world.placed \cup world.removed
      /\ m \in Monsters /\ c \in world.placed /\ world.room[c] = r
  BY DEF CreaturesAreSound, Good, Sound, Summon, New, In
<1>2. Len(order) \in Nat
  <2>1. In(r) \cup {m} \in SUBSET Creature
    BY <1>1 DEF In, World
  <2> QED BY <2>1, OrdersReachAll
<1>3. c \in Creature /\ c # None /\ c \in Kept(world)
  BY <1>1, Constants DEF World, Kept
<1>4. CASE world' = a
  <2>1. Good(a, None, None) /\ Orderly(a)
    BY <1>1, <1>2, <1>3, PlaceCreatureGood
  <2> HIDE DEF a
  <2> QED BY <1>4, <2>1 DEF CreaturesAreSound
<1>5. CASE world' = v
  <2>1. /\ Good(b, None, None) /\ Orderly(b) /\ Kept(world) \cup {m} = Kept(b)
        /\ b.master[m] = None
    BY <1>1, <1>2, PlaceCreatureGood
  <2> HIDE DEF b
  <2>2. c # b.master[m] /\ c \in Kept(b) /\ m \in Kept(b)
    BY <1>3, <2>1
  <2>3. Good(v, None, None) /\ Orderly(v)
    BY <1>1, <1>3, <2>1, <2>2, ServeGood
  <2> HIDE DEF v
  <2> QED BY <1>5, <2>3 DEF CreaturesAreSound
<1> QED
  BY <1>1, <1>4, <1>5 DEF Summon

LEMMA DamageIsSound ==
  ASSUME CreaturesAreSound, NEW m \in Monsters, NEW lethal \in BOOLEAN, Damage(m, lethal)
  PROVE  CreaturesAreSound'
<1> DEFINE v == ChangeHealth(world, m, lethal)
<1>1. /\ Good(world, None, None) /\ Orderly(world) /\ m \in world.placed \ world.dying
      /\ world \in World /\ world' = v
  BY DEF CreaturesAreSound, Good, Sound, Damage
<1>2. Good(v, None, None) /\ Calmer(world, v)
  BY <1>1, ChangeHealthGood
<1> HIDE DEF v
<1>3. Orderly(v)
  BY <1>1, <1>2, OrderlyKept DEF Good, Sound
<1> QED
  BY <1>1, <1>2, <1>3 DEF CreaturesAreSound

LEMMA ChangeMasterIsSound ==
  ASSUME CreaturesAreSound, NEW m \in Monsters, NEW new, ChangeMaster(m, new)
  PROVE  CreaturesAreSound'
<1> DEFINE v == SetMaster(world, m, new)
<1>1. /\ Good(world, None, None) /\ Orderly(world) /\ m \in world.placed
      /\ new # world.master[m] /\ new \in {None} \cup (world.placed \cap Players)
      /\ world' = v
  BY DEF CreaturesAreSound, ChangeMaster
<1>2. /\ m \in Creature /\ new \in Creature \cup {None}
      /\ new # None => new \in Kept(world) /\ m \in Kept(world)
  BY <1>1 DEF Creature, Kept
<1>3. Good(v, None, None) /\ Orderly(v)
  BY <1>1, <1>2, ServeGood
<1> HIDE DEF v
<1> QED
  BY <1>1, <1>3 DEF CreaturesAreSound

LEMMA AttackIsSound ==
  ASSUME CreaturesAreSound, NEW s \in Creature, NEW c, Attack(s, c)
  PROVE  CreaturesAreSound'
<1> DEFINE v == SetAttackedCreature(world, s, c)
<1>1. /\ Good(world, None, None) /\ Orderly(world) /\ s \in world.placed /\ world \in World
      /\ c # None => c \in world.placed
      /\ world' = v
  BY DEF CreaturesAreSound, Good, Sound, Attack
<1>2. CASE c = None
  <2>1. Good(v, None, None) /\ Calmer(world, v)
    BY <1>1, <1>2, StopGood
  <2> HIDE DEF v
  <2>2. Orderly(v)
    BY <1>1, <2>1, OrderlyKept DEF Good, Sound
  <2> QED BY <1>1, <2>1, <2>2 DEF CreaturesAreSound
<1>3. CASE c # None
  <2>1. Good(v, None, None) /\ Orderly(v)
    BY <1>1, <1>3, AttackGood
  <2> HIDE DEF v
  <2> QED BY <1>1, <2>1 DEF CreaturesAreSound
<1> QED BY <1>2, <1>3

LEMMA FollowIsSound ==
  ASSUME CreaturesAreSound, NEW m \in Monsters, NEW c \in Creature,
         OnFollowCreatureComplete(m, c)
  PROVE  CreaturesAreSound'
<1> DEFINE v == RemoveTarget(world, m, c)
<1>1. /\ Good(world, None, None) /\ Orderly(world) /\ world \in World
      /\ m \in Creature /\ world' = v
  BY DEF CreaturesAreSound, Good, Sound, OnFollowCreatureComplete, Creature
<1>2. Good(v, None, None) /\ Calmer(world, v)
  BY <1>1, RemoveTargetGood
<1> HIDE DEF v
<1>3. Orderly(v)
  BY <1>1, <1>2, OrderlyKept DEF Good, Sound
<1> QED
  BY <1>1, <1>2, <1>3 DEF CreaturesAreSound

LEMMA NextIsSound == CreaturesAreSound /\ [CreaturesNext]_world => CreaturesAreSound'
<1> SUFFICES ASSUME CreaturesAreSound, [CreaturesNext]_world
             PROVE  CreaturesAreSound'
  OBVIOUS
<1>1. CASE \E order \in Orders[world.placed], c \in Creature :
             \/ Leave(order, c) \/ Die(order, c)
             \/ \E r \in Rooms : Move(order, c, r)
  BY <1>1, LeaveIsSound, DieIsSound, MoveIsSound, Zenon
<1>2. CASE \E c \in Creature : CheckCreature(c)
  BY <1>2, CheckCreatureIsSound, Zenon
<1>3. CASE \E n \in Creature, r \in Rooms : \E order \in Orders[In(r) \cup {n}] :
             \/ Appear(order, n, r)
             \/ \E c \in In(r) : Summon(order, n, c)
  BY <1>3, AppearIsSound, SummonIsSound, Zenon
<1>4. CASE \E m \in Monsters, lethal \in BOOLEAN : Damage(m, lethal)
  BY <1>4, DamageIsSound, Zenon
<1>5. CASE \E m \in Monsters, c \in Players \cup {None} : ChangeMaster(m, c)
  BY <1>5, ChangeMasterIsSound, Zenon
<1>6. CASE \E s \in Creature, c \in Creature \cup {None} : Attack(s, c)
  BY <1>6, AttackIsSound, Zenon
<1>7. CASE \E m \in Monsters, c \in Creature : OnFollowCreatureComplete(m, c)
  BY <1>7, FollowIsSound, Zenon
<1>8. CASE UNCHANGED world
  BY <1>8, Zenon DEF CreaturesAreSound
<1> QED
  BY <1>1, <1>2, <1>3, <1>4, <1>5, <1>6, <1>7, <1>8, Zenon DEF CreaturesNext

(* Between two operations nothing is being given back and nobody is being    *)
(* removed, whatever creatures did before: the invariant that the three that  *)
(* follow are read from.                                                     *)
THEOREM CreaturesAreAlwaysSound == CreaturesSpec => []CreaturesAreSound
BY InitIsSound, NextIsSound, PTL DEF CreaturesSpec

(* Every reference to a creature is counted once, and it is deleted when and  *)
(* only when the last one is given back (Creature::decrementReferenceCounter), *)
(* with no target list and no summon left that points to it.                  *)
THEOREM CountsAreAlwaysExact == CreaturesSpec => []CountsAreExact
<1>1. CreaturesAreSound => CountsAreExact
  <2> SUFFICES ASSUME CreaturesAreSound
               PROVE  CountsAreExact
    OBVIOUS
  <2>1. /\ Sound(world, Zero, None) /\ world \in World /\ Zero \in [Creature -> Nat]
        /\ None \notin Creature
    BY Constants DEF CreaturesAreSound, Good, Sound, Zero
  <2>2. ASSUME NEW c \in Creature
        PROVE  world.refs[c] = Expected(world, c)
    <3>1. world.refs[c] = Expected(world, c) + Zero[c] + Holds({None}, c)
      BY <2>1 DEF Sound, Counts
    <3>2. Zero[c] = 0 /\ Holds({None}, c) = 0 /\ Expected(world, c) \in Nat
      BY <2>1, ExpectedNat DEF Zero, Holds
    <3> QED BY <3>1, <3>2
  <2>3. ASSUME NEW c \in Creature
        PROVE  c \in world.freed <=> ~New(c) /\ world.refs[c] = 0
    <3>1. Lives(world, None, c)
      BY <2>1 DEF Sound
    <3>2. c \in world.placed => world.refs[c] > 0 /\ world.refs[c] \in Nat
      BY <2>1, Referenced DEF Kept
    <3> QED BY <3>1, <3>2 DEF Lives, New
  <2>4. ASSUME NEW c \in Creature, NEW n \in Creature
        PROVE  c \in world.summons[n] <=> world.master[c] = n
    BY <2>1 DEF Sound, Serve
  <2>5. ASSUME NEW c \in world.freed, NEW d \in Creature
        PROVE  c \notin {world.master[d]} \cup world.targets[d]
    <3>1. c \in Creature
      BY <2>1 DEF World
    <3>2. Lives(world, None, c)
      BY <2>1, <3>1 DEF Sound
    <3>3. c \notin world.targets[d]
      <4>1. c \in world.targets[d] => world.refs[c] > 0
        BY <2>1, <3>1, Referenced
      <4> QED BY <3>2, <4>1 DEF Lives
    <3>4. c # world.master[d]
      <4>1. d \in world.summons[c] <=> world.master[d] = c
        BY <2>4, <3>1
      <4> QED BY <3>2, <4>1 DEF Lives
    <3> QED BY <3>3, <3>4
  <2> QED BY <2>1, <2>2, <2>3, <2>4, <2>5 DEF CountsAreExact, CreaturesTypeOK
<1> QED
  BY <1>1, CreaturesAreAlwaysSound, PTL

(* attackedCreature, a pointer without a reference, is on the map and in sight *)
(* as long as its owner is on the map, through moves, removals, deaths and      *)
(* attacks passed on to summons.                                              *)
THEOREM AttackedIsAlwaysHere == CreaturesSpec => []AttackedIsHere
<1>1. CreaturesAreSound => AttackedIsHere
  BY DEF CreaturesAreSound, Orderly, Attacks, AttackedIsHere
<1> QED
  BY <1>1, CreaturesAreAlwaysSound, PTL

(* A monster on the map that is dying, or has somebody to attack, is in a list *)
(* that checkCreatures goes through and has its flag: nothing puts it to sleep.*)
THEOREM NobodyIsEverForgotten == CreaturesSpec => []NobodyIsForgotten
<1>1. CreaturesAreSound => NobodyIsForgotten
  <2> SUFFICES ASSUME CreaturesAreSound,
                      NEW m \in Monsters \cap world.placed,
                      m \in world.dying \/ world.targets[m] # {}
               PROVE  m \in world.checked \cap world.listed
    BY DEF NobodyIsForgotten
  <2>1. Watching(world, None) /\ world.checked \subseteq world.listed /\ m # None
    BY Constants DEF CreaturesAreSound, Good, Sound, Creature
  <2> QED BY <2>1 DEF Watching
<1> QED
  BY <1>1, CreaturesAreAlwaysSound, PTL
==============================================================================
