SPECIFICATION PeerSpec
CONSTANTS
  Publics = {p1}
  NoArtifact = NoArtifact
  GrantIds = {g1}
  NoGrant = NoGrant
  PageLimit = 1
  MaxChange = 3
  MaxEdition = 2
  MaxFaults = 1
INVARIANT SnapshotsAccepted
