\* Two files of one repository, every interruption.
SPECIFICATION Spec
CONSTANTS
  TrackedFiles <- DistinctPaths
  Slots = {1, 2, 3}
  Revs = {1, 2}
  SlotsOf <- Chunking
  DocSlotsOf <- DocChunking
INVARIANTS SettledFilesAgree MissingCollectionNoticed
PROPERTIES OnlyOwnFileChanges
