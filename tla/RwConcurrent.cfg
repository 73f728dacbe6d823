\* Two writers, one of which also turns the image over and one of which may
\* create it.
SPECIFICATION Spec
CONSTANTS
  Handles = {h1, h2}
  Writers = {h1, h2}
  Turners = {h1}
  Creators = {h2}
  Paths = {p1}
  Data = {d1}
  Stamps = {s1}
  MaxOps = 2
  MaxImages = 4
  NoData = NoData
  NoManifest = NoManifest
  NoWal = NoWal
INVARIANTS
  TypeOK
  NeverTorn
  ReadsAreUsers
  BuiltTreeIsView
