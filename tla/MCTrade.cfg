SPECIFICATION Spec
CONSTANTS
  Players = {p1, p2, p3}
  Items = {bag, gold1, gold2, gold3}
  Bags = {bag}
  Stacks = {gold1, gold2, gold3}
  Tiles = {0, 2, 3}
  Slots = 1
  BagSize <- MCBagSize
  NoPlayer = NoPlayer
  NoItem = NoItem
  Gone = Gone
SYMMETRY MCSymmetry
INVARIANTS
  PartnersAgree
  NothingIsOfferedTwice
  OfferIsWhatWasShown
PROPERTIES
  ExchangeIsFair
