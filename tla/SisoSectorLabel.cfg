\* One antenna pair; one or two AWVs per sector, up to three sectors.
CONSTANTS
  AntennaPairs = {p1}
  TrnNs = {1, 2}
  SectorCounts = {1, 2, 3}

SPECIFICATION Spec

INVARIANT SectorLabelsFollowBlocks
