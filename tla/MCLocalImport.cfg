SPECIFICATION Spec
CONSTANTS
  Hosts = {h1, h2}
  Ports = {3306, 5432}
  Servers <- Known
  Installations <- Installed
  Blank = Blank
  Nowhere = Nowhere
  MaxChanges = 2
  Dirs <- Tree
  Parent <- Parents
  Name <- Names
  Ignored = {"/archive"}
  Roots <- RootDirs
  MaxDepth = 1
  Files <- Paths
  Services <- Described
  Disks <- Starts
  Edits <- Changes
  Uris <- Given
  Missing = Missing
  Unreadable = Unreadable
  Bad = Bad
  h1 = h1
  h2 = h2
  user = user
  db = db
INVARIANTS
  TypeOK
  NothingLeftOpen
  JudgedRight
  ScanFindsAll
PROPERTY
  ScanEnds
