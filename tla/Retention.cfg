\* One directory under one lock, two locks of one key, or two keys that expire.
SPECIFICATION Spec
CONSTANTS
  u1 = u1
  u2 = u2
  u3 = u3
  Uploads <- ThreeUploads
  Urls <- AllUrls
  Clean <- CleanUrl
  Cases <- SafetyCases
  MaxTime = 4
  MaxFaults = 2
INVARIANTS
  BackupAvailable
PROPERTIES
  AcceptedIsStored
  RotationBoundsCount
  KeepsNewest
  RemovesOnlyExpired
