SPECIFICATION FairSpec
CONSTANTS
  h1 = h1
  h2 = h2
  Startup = Startup
  Job = Job
  Current = 1
  Prereleases = {3}
  Develop = FALSE
  Handlers = {h1, h2}
  OnAtFirst = {TRUE, FALSE}
  MaxRelease = 4
  MaxToggles = 2
  MaxRestarts = 1
INVARIANTS TypeOK NotifiedOnce
PROPERTIES ReleasesAreRecorded
