\* One scrape of two collectors; bufCh fills up (BufCap < MaxMetrics).
CONSTANTS
  Collectors = {"cpu", "time"}
  BufCap = 1
  MaxMetrics <- Metrics
SPECIFICATION Spec
CHECK_DEADLOCK FALSE
INVARIANTS CompleteUnlessExpired LateSendOnlyAfterTimeout OneStatusPerCollector
PROPERTIES KeepsPromise ScrapeTerminates
