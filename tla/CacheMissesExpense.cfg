\* A fill overtaken by the invalidation of an expense.
CONSTANTS
  r1 = r1
  r2 = r2
  w1 = w1
  w2 = w2
  None = None
  Reader <- MCReader
  Writer <- MCWriter
  TTL = 2
  MaxQuery = 1
  MaxCommits = 2
SPECIFICATION Spec
INVARIANT ExpenseVisible
