SPECIFICATION Spec
CONSTANTS
  Player = {p1, p2, p3, p4}
  PartyId = {q1, q2, q3}
  NoPlayer = NoPlayer
  NoParty = NoParty
SYMMETRY MCSymmetry
INVARIANTS
  MembershipAgrees
  InvitationsAgree
  NoPartyIsIdle
