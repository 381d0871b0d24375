SPECIFICATION Spec
CONSTANTS
  Emails = {a, b, c}
  OwnerEmail = a
  Requests = {r1, r2}
PROPERTY OwnerRemains
