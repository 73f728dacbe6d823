\* One handle that commits and then turns the image over.
SPECIFICATION Spec
CONSTANTS
  Handles = {h1}
  Writers = {h1}
  Turners = {h1}
  Creators = {}
  Paths = {p1}
  Data = {d1}
  Stamps = {s1}
  MaxOps = 1
  MaxImages = 4
  NoData = NoData
  NoManifest = NoManifest
  NoWal = NoWal
PROPERTY
  TurnoverKeepsTree
