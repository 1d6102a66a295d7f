SPECIFICATION FairSpec
CONSTANTS
  Clients = {h1, h2, b, x}
  Silent = {b}
  Faulty = {b}
  Crashing = {x}
  NoClient = none
  Backlog = 3
  MaxSetupErrors = 1
CHECK_DEADLOCK FALSE
INVARIANTS ErrorsAreContained
PROPERTIES QueuedAreServed
