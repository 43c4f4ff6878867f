SPECIFICATION ReliableSpec
CONSTANTS
  Payments = {p1, p2}
  DeliveryLimit = 2
  WebhookAttempts = 3
  WithWebhook = {p1, p2}
  Expiring = {p1}
  Unreadable = {p2}
INVARIANTS TypeOK LiveIsOwner GivenUpAtLimit OneDeliveryPosts
PROPERTIES KeepsLifecycle
CHECK_DEADLOCK FALSE
