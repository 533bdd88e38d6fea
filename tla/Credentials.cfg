\* One part at a time; model values are shared between parts that never meet.
SPECIFICATION CredentialSpec
CONSTANTS
  Browsers = {b1, b2}
  Requests = {h1, h2}
  Tokens = {x1, x2, x3}
  NoBrowser = None
  NoToken = None
  Grace = 1
  Codes = {x1, x2, x3}
  Handlers = {h1, h2}
  NoCode = None
  Ttl = 4
  Cooldown = 2
  Secrets = {b1, b2}
  NoSecret = None
  Calls = {h1, h2}
  Tolerance = 1
  MaxStep = 3
  Consoles = {b1, b2}
  Agents = {a1}
  Ids = {u1, u2}
  Passes = {p1}
  Opens = {h1, h2}
  NoConsole = None
  NoAgent = None
  NoPass = None
  Packets = {x1, x2, x3}
  Signers = {b1, b2}
  Window = 2
  MaxAhead = 1
  MaxClock = 6
  Uuids = {b1, b2}
  Keys = {x1, x2, x3}
  Registers = {h1, h2}
  NoUuid = None
  NoKey = None
  NoRegister = None
  PreSecrets = {x1, x2, x3}
  Verifications = {h1, h2}
  SecretTtl = 2
  NoPreSecret = None
SYMMETRY Symmetry
INVARIANTS CredentialTypes RefreshIsGranted WaitingHasCode CodeAcceptedOnce ActiveSecretWasConfirmed SessionHasBothEnds PacketHandledOnce SecretReachesAgent HolderIsAccepted OldSecretExpires
CHECK_DEADLOCK FALSE
