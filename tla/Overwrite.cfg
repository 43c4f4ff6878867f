SPECIFICATION Spec
CONSTANTS
  Payments = {p1}
  DeliveryLimit = 1
  WebhookAttempts = 1
  WithWebhook = {p1}
  Expiring = {}
  Unreadable = {}
PROPERTIES DecidedIsLeftAlone
CHECK_DEADLOCK FALSE
