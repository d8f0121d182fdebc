\* Two asyncio getters and two threads, two puts; two peers and numbers; three messages, the peers and sequence numbers scaled down, one number above its mask; two origins.
SPECIFICATION HSpec
CONSTANTS
  k1 = k1
  k2 = k2
  v1 = v1
  v2 = v2
  a1 = a1
  a2 = a2
  s1 = s1
  s2 = s2
  o1 = o1
  o2 = o2
  NoValue = NoValue
  NoKey = NoKey
  Keys = {k1, k2}
  Values = {v1, v2}
  Getters = {a1, a2, s1, s2}
  AsyncGetters = {a1, a2}
  Impatient = {a1, s1}
  Messages <- MessagesHere
  Peers = {1, 2}
  Numbers = {0, 3}
  Self = 3
  PeerSlot = 4
  SeqSlot = 4
  SeqMask = 2
  SceneMask = 4
  Origins = {o1, o2}
  Allowed = {o1}
  MaxBytes = 2
  MaxRedirects = 1
  TotalTimeout = 2
  MaxContent = 10
INVARIANTS
  MessageTypesOK
  SameConversation
  RecallHitsNamed
  WithinPolicy
  WholeAndBounded
  AnswerGoesBack
  QuoteResolves
PROPERTIES
  GettersEnd
CHECK_DEADLOCK FALSE
