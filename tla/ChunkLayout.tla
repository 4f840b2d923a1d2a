---------------------------- MODULE ChunkLayout ----------------------------
(***************************************************************************)
(* How a file of a declared size is cut into chunks and sealed frames, and *)
(* where each of them lies in the stored object.  Three places compute the *)
(* same geometry on their own and nothing on disk records it:              *)
(*   - the handlers, which size every chunk (handlers/chunks.go),          *)
(*   - the storage backend and the sealing reader, which place a chunk and *)
(*     number its frames (storage_filesystem.go, stream_crypto.go),        *)
(*   - the opening reader, which knows only the plaintext length.          *)
(***************************************************************************)
EXTENDS Integers

CONSTANTS FrameSize,      \* plaintext bytes sealed in one frame
          FrameOverhead,  \* nonce and tag bytes each frame adds
          ChunkSize       \* plaintext bytes of a full chunk

(* ChunkSize is a whole number of MiB and FrameSize, 256 KiB, divides it.  *)
ASSUME LayoutAssumption ==
  /\ FrameSize \in Nat \ {0}
  /\ FrameOverhead \in Nat
  /\ \E k \in 1..ChunkSize : ChunkSize = k * FrameSize

(* What a full frame takes in the object. *)
FrameStride == FrameSize + FrameOverhead

CeilDiv(a, b) == (a + b - 1) \div b

(***************************************************************************)
(* The handlers' side: how many chunks, and how many bytes each carries.   *)
(***************************************************************************)
TotalChunks(size) == CeilDiv(size, ChunkSize)

(* Mutant: the last chunk is as long as the others. *)
FullChunk(size, n) == ChunkSize

MaxChunkBytes(size, n) ==
  LET remaining == size - n * ChunkSize
  IN  IF remaining < 0 THEN 0
      ELSE IF remaining > ChunkSize THEN ChunkSize
      ELSE remaining

(* Where in the file chunk n ends. *)
ChunkEnd(size, n) == n * ChunkSize + MaxChunkBytes(size, n)

(***************************************************************************)
(* The writing side: a chunk's place in the object and in the frame grid.  *)
(***************************************************************************)
EncryptedSize(plain) ==
  IF plain <= 0 THEN 0
  ELSE plain + CeilDiv(plain, FrameSize) * FrameOverhead

FramesPerChunk == ChunkSize \div FrameSize

(* Mutant: what sealing adds is left out. *)
PlainOffset(n) == n * ChunkSize

ChunkOffset(n) == n * EncryptedSize(ChunkSize)

(* Mutant: the chunk number is taken for a frame number. *)
ChunkAsFrame(n) == n

FirstFrame(n) == n * FramesPerChunk

(* Mutant: every frame is a full one. *)
AlwaysFullFrame(remaining) == FrameSize

(* The plaintext sealed into the next frame when `remaining` bytes are left.*)
NextFrameBytes(remaining) == IF remaining < FrameSize THEN remaining ELSE FrameSize
=============================================================================
