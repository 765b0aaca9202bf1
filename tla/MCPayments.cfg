\* Exhaustive check of the payment handlers, two users, three calls at once.
CONSTANTS
  ana = ana
  bob = bob
  pay1 = pay1
  pay2 = pay2
  c1 = c1
  c2 = c2
  c3 = c3
  None = None
  User <- MCUser
  PaymentId <- MCPaymentId
  Call <- MCCall
SPECIFICATION Spec
SYMMETRY MCSymmetry
INVARIANT TypeOK
INVARIANT DecisionReadsBack
PROPERTY ConfirmedNeverCancelled
PROPERTY SettledStays
PROPERTY ImplementsLifecycle
\* A deleted colocation has nothing left to do.
CHECK_DEADLOCK FALSE
