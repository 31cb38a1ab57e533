CONSTANTS
  Hosts = {h1}
  Clients = {c1}
  NoHost = NoHost
SPECIFICATION FairSpec
INVARIANTS TypeOK PairingIsUnauthorized NothingOutlivesServer
PROPERTIES RevocationHolds ApprovalHolds Terminates
