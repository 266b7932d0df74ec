SPECIFICATION Spec
CONSTANTS
  Parts = {"usage", "csrf", "signin", "limits", "accounts", "portals", "client", "ai", "reader", "startup", "settings", "chapters", "codecs"}
  Threads = {t1, t2}
  Limit = 2
  UsageWindow = 1
  Null = Null
  MaxTime = 3
  Browsers = {b1, b2}
  Nobody = Nobody
  Ageing = TRUE
  MaxEvents = 3
  Keys = {k1, k2, k3}
  LockThreshold = 2
  LockDuration = 2
  GuessWindow = 2
  LockEntries = 2
  MaxLag = 1
  Clients <- MCClients
  Proxies <- MCProxies
  RateWindow = 3
  Second = 2
  RateLimit = 2
  RateEntries = 1
  MaxDelay = 1
  Emails <- MCEmails
  Normal <- MCNormal
  Passwords <- MCPasswords
  OldHashes <- MCOldHashes
  Customers <- MCCustomers
  MaxAccounts = 2
  Calls = {c1, c2, c3}
  MaxRetries = 1
  MaxRetryAfter = 1
  FailureThreshold = 2
  Cooldown = 1
  Jobs = {j1, j2}
  BreakerLimit = 3
  MaxAttempts = 4
  Probe = 2
  Words <- MCWords
  QuoteTokens <- MCQuoteTokens
  MaxWords = 4
  MaxQuotes = 2
  MaxQuote = 3
  Messages <- MCMessages
  MaxHeader = 5
  MaxBody = 2
  MaxSent = 2
  Procs = {p1, p2}
  Tables <- MCTables
  Columns <- MCColumns
  Indexed <- MCIndexed
  MaxFailures = 1
  Texts <- MCTexts
  JsonTexts <- MCJsonTexts
  MaxDepth = 1
  Bytes <- MCBytes
  Uploads <- MCUploads
  FileLengths = {0, 1, 2, 3, 4}
  RangeSpecs <- MCRangeSpecs
  Days <- MCDays
  Headers <- MCHeaders
  Clocks = {0, 1, 7}
  Tolerance = 1
  MaxInt = 7
INVARIANTS CountBounded GuessesBounded AdmissionsBounded NoHalfAccounts PasswordsKept PortalsOwn OneSession OpenAfterRun FailuresBounded QuotesPlaced OnlyWhatWasSent ServesWholeSchema ServesTrusted ReadBack DatesRight SignedRecently
PROPERTIES SignoutEnds LocksOutlive RetryAfterIsEnough StartsAtLast CallsEnd
CHECK_DEADLOCK FALSE
