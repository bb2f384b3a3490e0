SPECIFICATION Spec
CONSTANTS
  Threads = {t1, t2}
  FilePaths <- SomePaths
  MaxWrites = 3
INVARIANTS
  
  LastWriteStands
SYMMETRY Symmetry
