SPECIFICATION Spec
CONSTANTS
  b1 = b1
  t1 = t1
  User = {u1, u2}
  Browser = {b1}
  Tab = {t1, t2}
  Call = {c1, c2}
  BrowserOf <- MCBrowserOf
  TabOf <- MCTabOf
  None = None
  MaxTokens = 2
  MaxFaults = 1
SYMMETRY Symmetry
INVARIANT TypeOK
INVARIANT BusyScreenIsNotTheft
INVARIANT SessionsDoNotLinger
PROPERTY LiveSessionsAreServed
