SPECIFICATION FairSpec
CONSTANTS
  Main = main
  HTTP = http
  h1 = h1
  p1 = p1
  Handlers = {h1}
  Pages = {p1}
  Goroutines <- Everybody
  QueueSize = 1
  ConnSize = 1
  MaxEntries = 2
  MaxJoins = 1
  MaxRequests = 1
INVARIANTS TypeOK PagesFollowTheStream RequestsFindTheDatabase
PROPERTIES SignalsEndTheProcess RequestsEnd PagesGetEveryLine
