SPECIFICATION MCSpec
CONSTANTS
  Sets = {s1, s2}
  Signals = {1, 2}
  SigFlags = {"none", "restart", "dont_care"}
  MaxPipe = 1
  MaxRaised = 2
  MaxSigWaits = 2
  MaxAdds = 2
  PoolThreads = {w1, w2}
  PoolKinds = {"posix", "win", "stream", "raf"}
  MaxPoolStarts = 2
  MaxOpens = 2
SYMMETRY MCSymmetry
INVARIANTS
  SignalsServed
  PoolLedger
  PoolAnswers
