SPECIFICATION Spec
CONSTANTS
  ann = ann
  vic = vic
  nob = nob
  t1 = t1
  t2 = t2
  None = None
  Tabs = {t1, t2}
  People = {ann, vic, nob}
  RoleOf <- MCRoleOf
  MaxToken = 2
  MaxRequests <- MCMaxRequests
  MaxEvents = 0
INVARIANT
  LoginPageStands
CHECK_DEADLOCK FALSE
