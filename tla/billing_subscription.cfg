\* Three requests of every kind, four events, an abort and a lost request.
SPECIFICATION FairSpec
CONSTANTS
  Req = {r1, r2, r3}
  Kinds <- AllKinds
  Checkout = {c1, c2}
  Event = {1, 3, 4, 5}
  Payload <- Sent
  Plan = {basic, retired}
  Catalog = {basic}
  c1 = c1  c2 = c2  basic = basic  retired = retired
  NoPlan = NoPlan  NoCheckout = NoCheckout  NoEvent = NoEvent
  MaxAborts = 1
  MaxLost = 1
INVARIANTS TypeOK PaymentEvidence AnsweredIsAudited
PROPERTIES SettledEventsStay StoredEventsSettle
CHECK_DEADLOCK FALSE
