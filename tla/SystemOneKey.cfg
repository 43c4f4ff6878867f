SPECIFICATION SystemSpec
CONSTANTS
  k1 = k1
  NoPayment = NoPayment
  Payments = {p1, p2}
  Keys = {k1}
  KeyOf <- OneKey
  Invalid = {}
  Unreadable = {}
  DeliveryLimit = 1
  WebhookAttempts = 1
  WithWebhook = {p1, p2}
  Expiring = {}
INVARIANTS OneChargePerKey OneSeriesPerKey ToldWhatWasAnswered
PROPERTIES RunsConsumer
CHECK_DEADLOCK FALSE
