\* Every size up to the first frame of a third chunk of two frames; legacy files
\* of chunks that were twice or half as long.
SPECIFICATION DownloadSpec
CONSTANTS
  FrameSize = 2
  FrameOverhead = 1
  ChunkSize = 4
  Sizes = {1, 2, 3, 4, 5, 6, 7, 8, 9}
  ChunkOverhead = 2
  ChunkSizes = {2, 4, 8}
  SniffBytes = 3
INVARIANTS DownloadTypeOK ReceivedStays StoredFileOpens ObjectIsFull NeverShort BytesInPlace
  StoredIsServed NothingShort
CHECK_DEADLOCK FALSE
