SPECIFICATION Spec
CONSTANTS
  r1 = r1
  r2 = r2
  r3 = r3
  r4 = r4
  k1 = k1
  k2 = k2
  NoPayment = NoPayment
  Requests = {r1, r2, r3, r4}
  Keys = {k1, k2}
  KeyOf <- TwoKeys
  Invalid = {r4}
  Unreadable = {r3}
INVARIANTS TypeOK OnePaymentPerKey AnswersAgree AnsweredIsReadable SentOnceStored RefusedIsUntouched
PROPERTIES KeepsPromise RequestsGoOn
CHECK_DEADLOCK FALSE
