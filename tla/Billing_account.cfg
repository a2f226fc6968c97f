\* One Alipay order, two games, one grant by an administrator, two handlers; one of them
\* is broken off, or a notification answered before comes again.
CONSTANTS
    o1 = o1  o2 = o2  g1 = g1  g2 = g2  h1 = h1  h2 = h2  q1 = q1
    Order = {o1}
    Alipay = {o1}
    Game = {g1, g2}
    Handler = {h1, h2}
    Request = {q1}
    NoGame = NoGame
    FreeQuota = 0
    PlanQuota = 1
    Amount = 1
    MaxSubs = 3
    MaxFaults = 1
SPECIFICATION Spec
INVARIANTS TypeOK OneActive WithinQuota UsageMatchesAccess PaymentHonoured
SYMMETRY Symmetry
