SPECIFICATION FairSpec
CONSTANTS
  Threads = {t1, t2}
  Kinds = {"subscription", "checkout.session.completed", "invoice.paid", "invoice.payment_failed"}
  Registered = TRUE
  Emails = {TRUE}
  DbFaults = FALSE
  MaxEvents = 2
  MaxFaults = 2
INVARIANTS AckedHandled
PROPERTIES ReapplyIsSafe EveryEventHandled
CHECK_DEADLOCK FALSE
