CONSTANTS
  r1 = r1
  r2 = r2
  r3 = r3
  u1 = u1
  a1 = a1
  a2 = a2
  m1 = m1
  m2 = m2
  m3 = m3
  s1 = s1
  NoSession = NoSession
  NoAccount = NoAccount
  Requests <- MCAdmissionRequests
  Users = {u1}
  Owner <- MCOwner
  Concurrency <- MCAdmissionConcurrency
  UserMaxWait <- MCUserMaxWait
  Accounts <- MCAdmissionAccounts
  AccountConcurrency <- MCAccountConcurrency
  AccountMaxWaiting <- MCAccountMaxWaiting
  Models <- MCAdmissionModels
  Supports <- MCAdmissionSupports
  Sessions <- MCAdmissionSessions
  MaxAccountSwitches = 1
  FailoverStatuses <- MCAdmissionStatuses
  PingEnabled = TRUE
SPECIFICATION Spec
SYMMETRY MCSymmetry
INVARIANTS
  ForwardsWithinLimits
