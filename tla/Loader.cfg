\* A game with libraries, an archive it changes, and a mounted host directory.
SPECIFICATION Spec
CONSTANTS
  Lo = 1
  Hi = 9
  Runtime = {"kernel", "advapi"}
  Preloaded = {"kernel"}
  Known = {"f"}
  Strict = {TRUE, FALSE}
  Executables <- Programs
  VirtualFiles <- Archive
  Unpacked <- Deleted
  HostFiles <- Host
  Directories = {"game", "sub"}
  Asked <- Wanted
  Symbols = {"f", "#2", "h"}
INVARIANTS
  ImagesWhole
  AttachRunsAll
 
CHECK_DEADLOCK FALSE
