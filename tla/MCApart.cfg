\* Common funds, accounts, recurring expenses and the hub, one at a time.
CONSTANTS
  ana = ana
  bob = bob
  carl = carl
  c1 = c1
  c2 = c2
  c3 = c3
  g1 = g1
  g2 = g2
  f1 = f1
  p1 = p1
  p2 = p2
  r1 = r1
  r2 = r2
  e1 = e1
  s1 = s1
  s2 = s2
  s3 = s3
  n1 = n1
  Fund = {f1}
  Member = {ana, bob}
  Amount = {1, 2}
  FundCall = {g1, g2}
  MaxContributions = 3
  NoFund = NoFund
  User = {carl}
  Password = {p1, p2}
  AccountCall = {c1, c2, c3}
  MaxTokens = 2
  NoAccount = NoAccount
  MonthLength <- MCMonthLength
  StartDate = {28, 31}
  EndDate = {31}
  Recurrence = {"weekly", "monthly"}
  CheckDay = {31, 59}
  Horizon = 59
  Run = {r1, r2}
  MaxRuns = 3
  Editor = {e1}
  NoTemplate = NoTemplate
  Stream = {s1, s2, s3}
  Notifier = {n1}
  Buffer = 1
  MaxNotify = 2
  NoStream = NoStream
SPECIFICATION ApartSpec
SYMMETRY MCSymmetry
INVARIANT TypeOK
INVARIANT TotalIsSum
PROPERTY ClosedStaysClosed
PROPERTY PasswordKept
PROPERTY NoSessionAfterLeaving
INVARIANT NoneSkipped
INVARIANT BookedOnce
INVARIANT SubscribersMatch
INVARIANT BroadcastSound
\* Funds are deleted, and the bounds on runs, tokens and
\* notifications are reached.
CHECK_DEADLOCK FALSE
