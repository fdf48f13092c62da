SPECIFICATION MCSpec
CONSTANTS
  web = web
  worker = worker
  Crawls = {web}
  Pages <- MCPages
  CardUrl <- MCCardUrl
  CardId <- MCCardId
  NoId = "none"
  States = {"cheap", "dear", "gone"}
  ValidStates = {"cheap", "dear"}
  DeadPercent = 50
  MaxChanges = 1
  MaxFaults = 1
INVARIANT
  FailedCrawlIsMarked
