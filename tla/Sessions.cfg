\* A login, three refreshes of any of its tokens, two suspensions, logouts and the daily job;
\* or two codes and two verifies of one phone, with and without an old account.
SPECIFICATION AuthSpec
CONSTANTS
  Login = {l1}
  Refresh = {f1, f2, f3}
  GraceTicks = 0
  TokenTtl = 2
  MaxTime = 3
  MaxTokens = 4
  MaxSuspensions = 2
  None = None
  Code = {c1, c2}
  Verify = {v1, v2}
  Legacy = Legacy
  CooldownTicks = 0
  OtpTtl = 2
  LockoutTicks = 2
  MaxAttempts = 1
  MaxSends = 1
  OtpMaxTime = 2
  NoUser = NoUser
SYMMETRY Interchangeable
CHECK_DEADLOCK FALSE
INVARIANTS RefreshInv SweptFamiliesEnd SuspendedHasNoSession OtpInv GuessesAreLimited
