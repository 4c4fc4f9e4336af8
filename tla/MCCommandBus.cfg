SPECIFICATION Spec
CONSTANTS
  Ids = {i1}
  save = save
  other = other
  review = review
  NoRequest = NoRequest
  Requests <- MCRequests
  Referenced <- MCReferenced
  Locking <- MCLocking
  Executions = {x1, x2, x3}
SYMMETRY MCSymmetry
INVARIANTS
  TypeOK
PROPERTIES
  OnceRefined
  ResultStands
