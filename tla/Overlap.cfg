SPECIFICATION MCSpec
CONSTANTS
  Conns = {c1, c2}
  Lone = c1
  Requests = {r1, r2}
  MaxChanges = 2
  Replicas = {p1}
  AuthRequests = {q1, q2}
  MaxTokens = 2
INVARIANTS
    TypeOK
    NeverStale
    
    

    
CHECK_DEADLOCK FALSE
