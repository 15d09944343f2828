\* a team p whose member is created early (m1, a host without prompts) and on demand
\* (m2, from a prompt of p or a chat), under fairness
SPECIFICATION FairSpec
CONSTANTS
  p = p  m1 = m1  m2 = m2
  User = User
  Actor = {p, m1, m2}
  ParentOf <- MCParentOf
  NickOf <- MCNickOf
  Hosted = {p, m1, m2}
  Singleton = {}
  HasOnCreate = {p, m2}
  HasOnInit = {p, m2}
  HasOnCreated = {m2}
  Early = {m1}
  MaxRestarts = 1
CHECK_DEADLOCK FALSE
INVARIANTS
  TypeOK
  OneLifecycle
  ReadyAfterHooks
  FailedCreationIsSilent
  OneLifePerMember
PROPERTIES
  ImplementsPromise
  LifecycleSettles
  CreationAnswered
