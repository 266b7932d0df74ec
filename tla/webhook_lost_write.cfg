SPECIFICATION Spec
CONSTANTS
  Threads = {t1}
  Kinds = {"subscription", "checkout.session.completed", "invoice.paid"}
  Registered = TRUE
  Emails = {TRUE}
  DbFaults = TRUE
  MaxEvents = 1
  MaxFaults = 1
INVARIANTS RecordedHandled
CHECK_DEADLOCK FALSE
