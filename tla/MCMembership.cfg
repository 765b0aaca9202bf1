\* Joining, leaving, roles and deletion, three calls at once.
CONSTANTS
  ana = ana
  bob = bob
  eve = eve
  c1 = c1
  c2 = c2
  c3 = c3
  None = None
  User <- MCUser
  Call <- MCCall
SPECIFICATION Spec
SYMMETRY MCSymmetry
INVARIANT TypeOK
PROPERTY AdminStays
PROPERTY NoAdminIsForever
PROPERTY OnlyNamedDemotes
\* A deleted colocation has nothing left to do.
CHECK_DEADLOCK FALSE
