SPECIFICATION FairSpec
CONSTANTS
  Keys <- MCKeys
  CronKeys <- MCCronKeys
  Slots <- MCSlots
  Nobody = Nobody
  MaxAttempts = 2
  LeaseTTL = 1
  MaxDefers = 1
  w1 = w1
  w2 = w2
  job = job
  cron = cron
INVARIANTS TypeOK AttemptsAreCounted CompletedMeansReturned LiveOwnerKeepsJob
PROPERTIES JobSettles CronKeepsRunning
