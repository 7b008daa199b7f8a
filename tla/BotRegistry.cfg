CONSTANTS
  b1 = b1
  b2 = b2
  b3 = b3
  b4 = b4
  id1 = id1
  id2 = id2
  NoBot = NoBot
  NoIdentifier = NoIdentifier
  Bots <- MCBots
  Identifiers <- MCIdentifiers
  Identifier <- MCIdentifier
SPECIFICATION Spec
INVARIANTS
  LiveIsFound
  OnlyLiveRegistered
