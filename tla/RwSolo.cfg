\* One handle at a time on the image, which crashes and reopens at will.
SPECIFICATION Spec
CONSTANTS
  Handles = {h1}
  Writers = {h1}
  Turners = {}
  Creators = {}
  Paths = {p1, p2}
  Data = {d1, d2}
  Stamps = {s1}
  MaxOps = 3
  MaxImages = 3
  NoData = NoData
  NoManifest = NoManifest
  NoWal = NoWal
SYMMETRY Interchangeable
INVARIANTS
  CrashRecovers
PROPERTIES
  ImplementsAtomicImage
