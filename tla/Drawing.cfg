\* Every drawing call on small pictures; bands, strokes and encodings a few calls long.
SPECIFICATION Spec
CONSTANTS
  Scenes <- DrawingScenes
CHECK_DEADLOCK FALSE
INVARIANTS
  PixelsExact
  BandsCompose
  DecodesAsEncoded
