\* README.ko.md:15 against the rotation of the whole directory.
SPECIFICATION Spec
CONSTANTS
  u1 = u1
  u2 = u2
  u3 = u3
  Uploads <- ThreeUploads
  Urls <- AllUrls
  Clean <- CleanUrl
  Cases <- ContendedCases
  MaxTime = 3
  MaxFaults = 0
PROPERTIES
  RotationIsPerKey
