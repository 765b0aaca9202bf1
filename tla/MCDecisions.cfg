\* Votes, edits, closing and deletion of one decision, two calls at once.
CONSTANTS
  ana = ana
  bob = bob
  c1 = c1
  c2 = c2
  cinema = cinema
  picnic = picnic
  museum = museum
  None = None
  User <- MCUser
  Creator = ana
  Option <- MCOption
  OptionList <- MCOptionList
  Deadline <- MCDeadline
  Call <- MCCall
  MaxTime = 1
  MaxBallots = 3
SPECIFICATION Spec
SYMMETRY MCSymmetry
INVARIANT TypeOK
INVARIANT ResultsFit
PROPERTY NeverReopened
PROPERTY ResultStands
PROPERTY VotesKeepMeaning
PROPERTY VoterKeepsVote
\* A deleted decision has nothing left to do.
CHECK_DEADLOCK FALSE
