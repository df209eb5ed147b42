CONSTANTS
  j1 = j1
  r1 = r1
  Clients = {c1, c2}
  Jobs = {j1}
  Runs = {r1}
  JobOf <- MCJobOf
  RunOf <- MCRunOf
  Last = 2
  MaxFollowers = 1
SPECIFICATION Spec
INVARIANTS HubKeepsTrack
PROPERTIES NeverBackwards FollowersCatchUp
CHECK_DEADLOCK FALSE
