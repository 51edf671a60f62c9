CONSTANTS
  Root = Root
  Folder = Folder
  A = A
  N = N
  C1 = C1
  C2 = C2
  Texts <- MCTexts
  Tags <- MCTags
  Contents <- MCContents
  Empty = C1
  Delivered <- MCDelivered
  Broken = Broken
  Disk0 <- MCDisk0
  Permissions = {"write", "delete"}
  Absent = Absent
  Directory = Directory
  None = None
  MaxInputs = 4
  MaxFails = 1
  MaxOthers = 1
SPECIFICATION Spec
 
PROPERTIES NoLostUpdate TypedKept
CHECK_DEADLOCK FALSE
