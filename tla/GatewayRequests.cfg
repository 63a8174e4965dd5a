SPECIFICATION FairSpec
CONSTANTS
  reader = reader  admin = admin  None = None
  password = password  oldkey = oldkey  newkey = newkey
  Requests = {q1, q2}
  Clients = {reader, admin}
  Asked = {"manage", "start", "refresh", "login"}
  Secrets = {password, oldkey, newkey}
  Knows <- Given1
  Brings <- Given2
  Files <- Conf
  Environs <- Env
  Expiry = 1
  Leeway = 0
  Workers = 1
  MaxTime = 1
INVARIANTS TypeOK NoneRises
PROPERTIES RefusedForCause ExpiredStaysOut AnsweredUnlessBlocked
