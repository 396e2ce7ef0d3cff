\* Every request key against every small configuration.
SPECIFICATION Spec
CONSTANTS
  Char <- MCChar
  Slash = "/"
  Default <- MCDefault
  Configured <- MCConfigured
  Requested <- MCRequested
  NoKey = NoKey
INVARIANTS
  SamePolicy
  FollowsRules
