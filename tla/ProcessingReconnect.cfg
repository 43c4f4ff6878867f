SPECIFICATION Spec
CONSTANTS
  Payments = {p1}
  DeliveryLimit = 1
  WebhookAttempts = 2
  WithWebhook = {p1}
  Expiring = {p1}
  Unreadable = {}
INVARIANTS AcknowledgedIsDecided UnackedIsServed FirstDeliveryTells
PROPERTIES NeverUndecided WorkIsBounded Settles OverdueNeverSucceeds
CHECK_DEADLOCK FALSE
