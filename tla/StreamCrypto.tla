---------------------------- MODULE StreamCrypto ----------------------------
(***************************************************************************)
(* One file through the streaming encryption (pkg/utils/stream_crypto.go): *)
(* every chunk is sealed frame by frame by a reader of its own, in any     *)
(* order and again after a failure, each frame goes to the place in the    *)
(* object that the backend computes for it, and once every chunk has been  *)
(* received a reader that knows nothing but the plaintext length opens the *)
(* object.  In between, the object may be damaged where it is stored.      *)
(*                                                                         *)
(* A frame is put down whole here; that one of several writes can fail or  *)
(* mix with another's is the subject of FilesystemStorage.                 *)
(***************************************************************************)
EXTENDS ChunkLayout

CONSTANT Sizes  \* the file sizes that may be declared

ASSUME StreamAssumption == Sizes \subseteq Nat \ {0}

VARIABLES size,      \* the size the session was opened with
          left,      \* left[n]: encryptingReader.remaining of chunk n
          index,     \* index[n]: its frameIndex
          at,        \* at[n]: where in the object its next frame goes
          received,  \* the chunks stored at least once
          object,    \* the frames that lie whole in the object
          damaged,   \* has the object been tampered with or cut?
          outcome,   \* what has become of the upload and then the download
          rleft,     \* decryptingReader.remaining
          rindex,    \* its frameIndex
          rat,       \* how far into the object it has read
          right      \* was all it returned the file's own and in its place?

writeVars == <<left, index, at, received>>

readVars == <<outcome, rleft, rindex, rat, right>>

vars == <<size, writeVars, object, damaged, readVars>>

Numbers == 0..(TotalChunks(size) - 1)

SealedBytes(f) == FrameOverhead + f.bytes

(* What a frame holds beside its sealed bytes: the index authenticated with *)
(* it, the position of its plaintext in the file, and whose plaintext it is. *)
Frames ==
  [at : Nat, bytes : Nat, index : Nat, from : Nat, own : BOOLEAN]

TypeOK ==
  /\ size \in Sizes
  /\ left \in [Numbers -> Nat]
  /\ index \in [Numbers -> Nat]
  /\ at \in [Numbers -> Nat]
  /\ received \subseteq Numbers
  /\ object \subseteq Frames
  /\ damaged \in BOOLEAN
  /\ outcome \in {"none", "stored", "reading", "done", "failed"}
  /\ rleft \in Nat
  /\ rindex \in Nat
  /\ rat \in Nat
  /\ right \in BOOLEAN

Init ==
  /\ size \in Sizes
  /\ left = [n \in Numbers |-> 0]
  /\ index = [n \in Numbers |-> 0]
  /\ at = [n \in Numbers |-> 0]
  /\ received = {}
  /\ object = {}
  /\ damaged = FALSE
  /\ outcome = "none"
  /\ rleft = 0
  /\ rindex = 0
  /\ rat = 0
  /\ right = TRUE

(***************************************************************************)
(* Sealing.  A chunk whose body ends early stops short of the frame that   *)
(* is missing bytes; the client sends the chunk again from its start, also *)
(* one that had been stored but whose answer was lost.                     *)
(***************************************************************************)
NewEncryptingReader(n) ==
  /\ outcome = "none"
  /\ left' = [left EXCEPT ![n] = MaxChunkBytes(size, n)]
  /\ index' = [index EXCEPT ![n] = FirstFrame(n)]
  /\ at' = [at EXCEPT ![n] = ChunkOffset(n)]
  /\ UNCHANGED <<size, received, object, damaged, readVars>>

(* The bytes of the chunk that come before those still to be sealed. *)
Consumed(n) == ChunkEnd(size, n) - left[n]

Overlap(f, g) == f.at < g.at + SealedBytes(g) /\ g.at < f.at + SealedBytes(f)

SealNextFrame(n) ==
  /\ outcome = "none"
  /\ left[n] > 0
  /\ LET bytes == NextFrameBytes(left[n])
         f == [at |-> at[n], bytes |-> bytes, index |-> index[n],
               from |-> Consumed(n), own |-> TRUE]
     IN  /\ object' = {g \in object : ~Overlap(f, g)} \union {f}
         /\ at' = [at EXCEPT ![n] = @ + SealedBytes(f)]
         /\ left' = [left EXCEPT ![n] = @ - bytes]
         /\ received' = IF left[n] = bytes THEN received \union {n} ELSE received
  /\ index' = [index EXCEPT ![n] = @ + 1]
  /\ UNCHANGED <<size, damaged, readVars>>

(* Every chunk has been received: the object is published. *)
Finalize ==
  /\ outcome = "none"
  /\ received = Numbers
  /\ outcome' = "stored"
  /\ UNCHANGED <<size, writeVars, object, damaged, rleft, rindex, rat, right>>

(***************************************************************************)
(* Damage to a stored object before it is read: it is cut short, bytes in  *)
(* a frame change, two frames trade places, or a frame of another file     *)
(* that was sealed under the same index lies in place of its own.          *)
(***************************************************************************)
Suffers(frames) ==
  /\ outcome = "stored"
  /\ object' = frames
  /\ damaged' = TRUE
  /\ UNCHANGED <<size, writeVars, readVars>>

Truncated ==
  \E f \in object :
    Suffers({g \in object : g.at + SealedBytes(g) <= f.at})

Tampered == \E f \in object : Suffers(object \ {f})

Reordered ==
  \E f, g \in object :
    /\ f # g
    /\ f.bytes = g.bytes
    /\ Suffers((object \ {f, g}) \union
                 {[f EXCEPT !.at = g.at], [g EXCEPT !.at = f.at]})

Spliced ==
  \E f \in object : Suffers((object \ {f}) \union {[f EXCEPT !.own = FALSE]})

(***************************************************************************)
(* Opening.  All the reader is given is the key and the plaintext length.  *)
(***************************************************************************)
NewDecryptingReader ==
  /\ outcome = "stored"
  /\ outcome' = "reading"
  /\ rleft' = size
  /\ UNCHANGED <<size, writeVars, object, damaged, rindex, rat, right>>

(* Mutant: a frame opens under any index. *)
OpensAnywhere(f) == f.at = rat /\ f.bytes = NextFrameBytes(rleft)

(* gcm.Open: the next bytes are one frame, sealed under the index expected. *)
(* All files are sealed with the one key, and the index is all that is      *)
(* authenticated with a frame.                                              *)
Opens(f) ==
  /\ f.at = rat
  /\ f.bytes = NextFrameBytes(rleft)
  /\ f.index = rindex

OpenNextFrame ==
  /\ outcome = "reading"
  /\ rleft > 0
  /\ \E f \in object :
       /\ Opens(f)
       /\ rat' = rat + SealedBytes(f)
       /\ rleft' = rleft - f.bytes
       /\ right' = (right /\ f.own /\ f.from = size - rleft)
  /\ rindex' = rindex + 1
  /\ UNCHANGED <<size, writeVars, object, damaged, outcome>>

(* Mutant: an object that ends early ends the file. *)
FrameFailsQuietly ==
  /\ outcome = "reading"
  /\ rleft > 0
  /\ \A f \in object : ~Opens(f)
  /\ outcome' = "done"
  /\ UNCHANGED <<size, writeVars, object, damaged, rleft, rindex, rat, right>>

(* The object ends within the frame, or the frame does not authenticate. *)
FrameFails ==
  /\ outcome = "reading"
  /\ rleft > 0
  /\ \A f \in object : ~Opens(f)
  /\ outcome' = "failed"
  /\ UNCHANGED <<size, writeVars, object, damaged, rleft, rindex, rat, right>>

EndOfFile ==
  /\ outcome = "reading"
  /\ rleft = 0
  /\ outcome' = "done"
  /\ UNCHANGED <<size, writeVars, object, damaged, rleft, rindex, rat, right>>

Next ==
  \/ \E n \in Numbers : NewEncryptingReader(n) \/ SealNextFrame(n)
  \/ Finalize
  \/ Truncated
  \/ Tampered
  \/ Reordered
  \/ Spliced
  \/ NewDecryptingReader
  \/ OpenNextFrame
  \/ FrameFails
  \/ EndOfFile

Spec == Init /\ [][Next]_vars

(***************************************************************************)
(* Properties.                                                             *)
(***************************************************************************)

Covers(f, b) == f.from <= b /\ b < f.from + f.bytes

(* Once a chunk has been received all its bytes stay in the object: no     *)
(* other chunk is ever put down over part of it, though each computes its  *)
(* place from its own number alone.                                        *)
ReceivedStays ==
  ~damaged =>
    \A n \in received :
      \A b \in (n * ChunkSize)..(ChunkEnd(size, n) - 1) :
        \E f \in object : Covers(f, b)

(* A file stored chunk by chunk, in any order and with retries, opens to   *)
(* its end as one stream, whatever its size.                               *)
StoredFileOpens == ~damaged => outcome # "failed"

(* The object is as long as EncryptedSize says of the whole file: nothing  *)
(* is missing between chunks and nothing lies beyond the last.             *)
ObjectIsFull ==
  outcome = "stored" /\ ~damaged =>
    /\ \E f \in object : f.at + SealedBytes(f) = EncryptedSize(size)
    /\ \A f \in object : f.at + SealedBytes(f) <= EncryptedSize(size)

(* An object that was cut short or whose bytes changed fails instead of    *)
(* decoding short.                                                         *)
NeverShort ==
  outcome = "done" =>
    \A b \in 0..(size - 1) : \E f \in object : Covers(f, b)

(* Whatever was cut, changed or moved, what the reader returns is the      *)
(* file's own and each byte of it in the place it was uploaded at, as long *)
(* as no frame of another file has been put in.                            *)
BytesInPlace == (\A f \in object : f.own) => right

(* What the comment on the frame format and the one on the test of         *)
(* reordered frames say: a frame of another file does not open either.     *)
NoneSplicedIn == right

(***************************************************************************)
(* The inductive invariant: sealing readers, object and opening reader all *)
(* keep to one grid over the whole file.                                   *)
(***************************************************************************)
FrameNumbers == 0..(CeilDiv(size, FrameSize) - 1)

SealersOnGrid ==
  \A n \in Numbers : left[n] > 0 =>
    /\ FirstFrame(n) <= index[n]
    /\ index[n] * FrameSize + left[n] = ChunkEnd(size, n)
    /\ at[n] = index[n] * FrameStride

(* Damage moves frames; it does not change what is sealed in one. *)
ObjectOnGrid ==
  \A f \in object :
    /\ f.index \in FrameNumbers
    /\ f.from = f.index * FrameSize
    /\ f.bytes = NextFrameBytes(size - f.index * FrameSize)
    /\ ~damaged => f.own /\ f.at = f.index * FrameStride

Holds(i) == \E f \in object : f.index = i

(* What a sealing reader has put down stays, whoever else writes. *)
SealedStays ==
  ~damaged =>
    /\ \A n \in Numbers : left[n] > 0 =>
         \A i \in FirstFrame(n)..(index[n] - 1) : Holds(i)
    /\ \A n \in received :
         \A i \in FrameNumbers :
           FirstFrame(n) <= i /\ i * FrameSize < ChunkEnd(size, n) => Holds(i)

InOrder ==
  /\ outcome = "none" => ~damaged
  /\ outcome # "none" => received = Numbers
  /\ outcome \in {"none", "stored"} => rindex = 0 /\ rat = 0 /\ right

ReaderOnGrid ==
  outcome \in {"reading", "done", "failed"} =>
    /\ rleft > 0 => rindex * FrameSize + rleft = size
    /\ rleft = 0 => size <= rindex * FrameSize
    /\ outcome = "done" => rleft = 0
    /\ ~damaged /\ rleft > 0 => rat = rindex * FrameStride
    /\ \A i \in FrameNumbers : i < rindex => Holds(i)

StreamInv ==
  /\ TypeOK
  /\ SealersOnGrid
  /\ ObjectOnGrid
  /\ SealedStays
  /\ InOrder
  /\ ReaderOnGrid
  /\ BytesInPlace
  /\ StoredFileOpens
=============================================================================
