\* Every part with the bounds of MCParts; for the logs every memory and log of up
\* to three entries over two cells, and room for one conflict (two in
\* abuf_cmp_heap).
SPECIFICATION PartsSpec
CONSTANTS
  Cell = {1, 2}
  Byte = {0, 1}
  Accesses <- Overlapping
  MaxPushed = 3
  ABUF_MAX_CONFLICTS = 1
  NULL = NULL
INVARIANTS
  SwapResult CmpResult HeapSound ReplayedResults HeldOpen StashesSound LibcResults
  PiecesAgree UkvSound
