SPECIFICATION FairSpec
CONSTANTS
  north = north
  south = south
  Names = {north, south}
  Channels = {1, 2, 3}
  Gids = {1, 2, 3}
  MaxEdits = 3
  MaxImports = 1
  MaxFaults = 1
INVARIANTS
  GroupsSound
PROPERTIES
  GroupsConverge
