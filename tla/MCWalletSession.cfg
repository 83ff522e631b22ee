SPECIFICATION FairSpec
CONSTANTS
  Accounts = {a1, a2}
  None = None
  MaxConnects = 3
INVARIANTS
  AuthStateMatchesToken
PROPERTIES
  ImplementsSignIn
  LoginEnds
