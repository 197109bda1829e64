SPECIFICATION Spec
CONSTANTS
  yes = yes
  no = no
  Tokens <- MCTokens
  Subscribed <- MCSubscribed
  Announced <- MCAnnounced
  MaxPrice = 1
  MaxQuantity = 1
  MaxChanges = 3
  MaxPayloads = 2
  MaxArray = 2
INVARIANTS
  CopyIsTheServersBook
  NoPartialBook
