SPECIFICATION FairSpec
CONSTANTS
  Pages = {p1, p2}
  Requests = {r1, r2, r3}
  NoPage = NoPage
INVARIANT NoLaterReveal
PROPERTY ClicksEnd
CHECK_DEADLOCK FALSE
