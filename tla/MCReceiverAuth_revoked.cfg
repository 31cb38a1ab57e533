CONSTANTS
  Hosts = {h1}
  Clients = {c1}
  NoHost = NoHost
SPECIFICATION Spec
INVARIANTS RevokedPublishesNoPose
