SPECIFICATION SystemSpec
CONSTANTS
  k1 = k1
  NoPayment = NoPayment
  Payments = {p1}
  Keys = {k1}
  KeyOf <- OneKey
  Invalid = {}
  Unreadable = {}
  DeliveryLimit = 1
  WebhookAttempts = 1
  WithWebhook = {p1}
  Expiring = {}

PROPERTIES CreatedIsDecided
CHECK_DEADLOCK FALSE
