CONSTANTS
  main = main
  lib = lib
  core = core
  local = local
  mistyped = mistyped
  both = both
  exporting = exporting
  circular = circular
  choking = choking
  embedded = embedded
  Uri = {main, lib, core}
  Core = {core}
  Closed = Closed
  TextsOf <- MCTextsOf
  Imports <- MCImports
  Uses <- MCUses
  Broken = {}
  Unplaced = {}
  Unfinished = {circular}
  Untranslatable = {local}
  Mistyped = {mistyped}
  FatalToSave = {choking}
  FatalToIndex = {choking}
  Bare = {local}
  Disks <- MCDisks
  Opened = {{main, lib}}
  Concurrency = 3
  Buffer = 1
  MaxMessages = 4
  MaxRequests = 1

SPECIFICATION Spec

INVARIANTS
  TypeOK
  SeesEdits
  ServerCatchesUp
  DiagnosticsFollow
  CrashCauses
CHECK_DEADLOCK FALSE
PROPERTY
  HandlersEnd
