SPECIFICATION ReliableSpec
CONSTANTS
  Payments = {p1}
  DeliveryLimit = 3
  WebhookAttempts = 3
  WithWebhook = {p1}
  Expiring = {}
  Unreadable = {}
INVARIANTS DeadAfterThreeAttempts
CHECK_DEADLOCK FALSE
