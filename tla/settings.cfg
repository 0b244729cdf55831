\* Two requests at a time, a server and a credential.
CONSTANTS
  ServerKeys = {k1}
  CredKeys = {c1}
  Editors = {e1, e2}
  Descriptions = {d1, d2}
  TRUSTED = TRUSTED
  OWN = OWN
  MaxDepth = 2
  TORN = TORN
  NONE = NONE
SPECIFICATION Spec
INVARIANTS TypeOK ServerSecrets CredentialsExist ListFollowsFile
PROPERTY TornKept
SYMMETRY Symmetry
