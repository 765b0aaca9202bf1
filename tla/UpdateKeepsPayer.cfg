\* An update that names another payer.
CONSTANTS
  ana = ana
  bob = bob
  cleo = cleo
  e1 = e1
  e2 = e2
  c1 = c1
  c2 = c2
  None = None
  User <- MCUser
  Movers <- MCMovers
  Caller <- MCCaller
  Designated <- MCDesignated
  Paying <- MCPaying
  ExpenseId <- MCExpenseId
  Call <- MCCall
  NewExpense <- MCNewExpense
  Change <- MCChange
  MaxPaid = 1
  Parts = 2
SPECIFICATION Spec
SYMMETRY MCSymmetry
PROPERTY PayerOverridden
