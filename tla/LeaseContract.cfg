\* The contract on its own: progress of every submission.
SPECIFICATION LiveSpec
CONSTANTS
  Items = {i1, i2}
  Workers = {w1, w2}
  Least = 2
  Most = 2
  Last = 3
INVARIANT OneOwner
PROPERTY EverySubmissionSettles
