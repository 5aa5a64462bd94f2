CONSTANTS
    Users = {u1, u2}
    NoUser = NoUser
    MaxTokens = 2
    MaxCalls = 3
SPECIFICATION Spec
INVARIANTS
    OwnSession
PROPERTIES
    EndsForCause
    SignInSettles
