SPECIFICATION Spec
CONSTANTS
  w1 = w1
  w2 = w2
  w3 = w3
  t1 = t1
  t2 = t2
  k1 = k1
  k2 = k2
  NoWindow = NoWindow
  NoToken = NoToken
  Windows <- MCWindows
  Tabs <- MCTabs
  Tokens <- MCTokens
  Home <- MCHome
  MaxPending = 2
INVARIANT TypeOK
INVARIANT NoStrayCopy
INVARIANT OneOwner
PROPERTY KeepsTheTab
PROPERTY CopySettles
CHECK_DEADLOCK FALSE
