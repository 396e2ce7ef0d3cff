\* Chains of providers, their programs and timeouts, and the credentials they
\* are built from.
SPECIFICATION FairSpec
CONSTANTS
  Key <- MCKey
  Args <- MCArgs
  Cases <- MCCases
INVARIANTS
  LocalCredentialSuffices
  SignatureMeansPassword
  ArgsNameRequest
  ResolvedOnce
PROPERTIES
  VerdictComes
