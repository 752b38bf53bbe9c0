SPECIFICATION Spec
CONSTANTS
  Tools = {t1, t2}
  Service = Service
  Inodes = {1, 2, 3, 4, 5}
  None = None
  MaxServiceKills = 0
  MaxToolKills = 1
INVARIANT
  InstalledIsWhole
