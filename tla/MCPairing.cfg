CONSTANTS
  Hosts = {h1, h2}
  Ids = 2
  NoHost = NoHost
SPECIFICATION FairSpec
INVARIANTS TypeOK StreamsToApprover
PROPERTIES KeepsConsent PairingEnds
