SPECIFICATION FairSpec
CONSTANTS
  Requesters = {r1, r2}
  Committers = {c1, c2, c3}
  Watchers = {w1, w2}
  Signals = {int, term}
  NoSignal = NoSignal
INVARIANTS RequestWaitsForCommit SubscribersAreWoken
PROPERTIES ImplementsCommitOrder NobodyWaitsForEver
