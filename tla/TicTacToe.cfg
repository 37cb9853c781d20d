SPECIFICATION Spec
CONSTANTS
  Clients <- MCClients
  Works <- MCWorks
INVARIANTS
  NobodyStuck
PROPERTY
  PlaysXO
