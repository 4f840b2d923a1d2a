------------------------------ MODULE Download ------------------------------
(***************************************************************************)
(* GET /f/:filePath (handlers/files.go, storage_decrypt.go): a reader is   *)
(* picked by what the row says of the file, a length is promised to the    *)
(* client, and the handler reads on, to find the MIME type and to catch an *)
(* error before it has answered; it puts what it has taken back in front   *)
(* of the reader and streams.                                              *)
(*                                                                         *)
(* The row need not fit the object: a single upload seals in frames too,   *)
(* but its row has neither a version nor a chunk count.                    *)
(*                                                                         *)
(* Files in frames are those of StreamCrypto, sealed and opened there.     *)
(* Files from before are in one of two formats: sealed whole, or by chunks *)
(* of the size configured at the time (file_encryption.go); their readers  *)
(* (streaming_decryption.go) are modelled here.  A legacy object is given  *)
(* by its length, for every piece of it has its place and length from the  *)
(* file's size, and by which of its pieces are spoiled.                    *)
(***************************************************************************)
EXTENDS StreamCrypto, Sequences

CONSTANTS ChunkOverhead,  \* chunk number, nonce and tag of a legacy chunk
          ChunkSizes,     \* values CHUNK_SIZE_MB has had
          SniffBytes      \* what is read to find a MIME type

ASSUME DownloadAssumption ==
  /\ ChunkOverhead \in Nat
  /\ ChunkSizes \subseteq Nat \ {0}
  /\ SniffBytes \in Nat \ {0}

VARIABLES format,    \* how the file was sealed
          written,   \* the chunk size it was sealed by, if by chunks
          length,    \* the length of a legacy object as it lies there
          spoiled,   \* the pieces of a legacy object with changed bytes
          reader,    \* the reader GetFile has got
          turn,      \* ChunkedDecryptionReader.currentChunk
          got,       \* the bytes a legacy reader has returned
          ending,    \* "open", or how a legacy reader has ended
          phase,     \* what GetFile is reading for, or how it has answered
          promised,  \* the Content-Length
          front,     \* what the handler has put back in front of the reader
          taken,     \* how many of the reader's bytes the handler has taken
          body       \* what has been sent

legacyVars == <<length, spoiled, turn, got, ending>>

takenVars == <<front, taken, body>>

getVars == <<reader, phase, promised, takenVars>>

allVars == <<vars, format, written, legacyVars, getVars>>

Formats == {"framed", "chunked", "whole"}

LegacyChunks == CeilDiv(size, written)

(* EncryptChunk and EncryptFile. *)
SealedLength ==
  CASE format = "chunked" -> size + LegacyChunks * ChunkOverhead
    [] format = "whole"   -> size + FrameOverhead
    [] format = "framed"  -> EncryptedSize(size)

DownloadTypeOK ==
  /\ TypeOK
  /\ format \in Formats
  /\ written \in ChunkSizes \union {ChunkSize}
  /\ length \in 0..SealedLength
  /\ spoiled \subseteq 0..(LegacyChunks - 1)
  /\ reader \in Formats \union {"none"}
  /\ turn \in 0..LegacyChunks
  /\ got \in 0..size
  /\ ending \in {"open", "eof", "failed"}
  /\ phase \in {"none", "sniffing", "testing", "sending", "complete", "broken", "error"}
  /\ promised \in Int
  /\ front \in Seq(Int)
  /\ taken \in 0..size
  /\ body \in Seq(Int)

DownloadInit ==
  /\ Init
  /\ format \in Formats
  /\ written \in IF format = "chunked" THEN ChunkSizes ELSE {ChunkSize}
  /\ length = SealedLength
  /\ spoiled = {}
  /\ reader = "none"
  /\ turn = 0
  /\ got = 0
  /\ ending = "open"
  /\ phase = "none"
  /\ promised = 0
  /\ front = <<>>
  /\ taken = 0
  /\ body = <<>>

(***************************************************************************)
(* The object before it is read: sealed in frames, or damaged where it is. *)
(***************************************************************************)
Framed ==
  /\ format = "framed"
  /\ phase = "none"
  /\ \/ \E n \in Numbers : NewEncryptingReader(n) \/ SealNextFrame(n)
     \/ Finalize
     \/ Truncated \/ Tampered \/ Reordered \/ Spliced
  /\ UNCHANGED <<format, written, legacyVars, getVars>>

LegacyCut ==
  /\ format # "framed"
  /\ phase = "none"
  /\ length' \in 0..(length - 1)
  /\ UNCHANGED <<vars, format, written, spoiled, turn, got, ending, getVars>>

LegacySpoiled ==
  /\ format # "framed"
  /\ phase = "none"
  /\ \E i \in 0..(LegacyChunks - 1) : spoiled' = spoiled \union {i}
  /\ UNCHANGED <<vars, format, written, length, turn, got, ending, getVars>>

(***************************************************************************)
(* decryptStream: the reader and the length to advertise.                  *)
(***************************************************************************)

(* Mutant: the nonce is not counted to a legacy chunk's overhead. *)
AdvertisedWithNonce(selected) ==
  CASE selected = "framed"  -> size
    [] selected = "chunked" -> length - LegacyChunks * (ChunkOverhead - 1)
    [] selected = "whole"   -> length

(* The length of an object in frames stays what it was sealed to, for the   *)
(* reader that is told it, the one of files sealed whole, opens none such.  *)
AdvertisedSize(selected) ==
  CASE selected = "framed"  -> size
    [] selected = "chunked" -> length - LegacyChunks * ChunkOverhead
    [] selected = "whole"   -> length

(* The row a file has, if any.  It is that of a chunked upload with the     *)
(* version and chunk count of its format, or it has neither; a single       *)
(* upload, which is sealed as one chunk would be and lies as chunks do, has *)
(* left an object in frames only since there are frames.                    *)
Rows ==
  CASE format = "framed"  -> {"none", "single", "chunks"}
    [] format = "chunked" -> {"none", "chunks"}
    [] format = "whole"   -> {"none", "single"}

Selected(row) == IF row = "chunks" THEN format ELSE "whole"

(* Without a MIME type in its row, or a row, the type is found from the    *)
(* first bytes.                                                            *)
GetFile(row, typed) ==
  /\ typed => row # "none"
  /\ phase = "none"
  /\ format = "framed" => outcome = "stored"
  /\ reader' = Selected(row)
  /\ promised' = AdvertisedSize(reader')
  /\ phase' = IF typed THEN "testing" ELSE "sniffing"
  /\ IF reader' = "framed" THEN NewDecryptingReader ELSE UNCHANGED vars
  /\ UNCHANGED <<format, written, legacyVars, takenVars>>

(***************************************************************************)
(* Reading on.  A byte is named by its place in what the reader returns.   *)
(* GetFile makes the reader open its next frame or chunk when what it      *)
(* reads for is not there: a header of SniffBytes, one byte, and then as   *)
(* much as was promised.                                                   *)
(***************************************************************************)
Delivered == IF reader = "framed" THEN size - rleft ELSE got

AtEnd == IF reader = "framed" THEN outcome = "done" ELSE ending = "eof"

Failed == IF reader = "framed" THEN outcome = "failed" ELSE ending = "failed"

(* Is there a byte to be read, put back or in the reader's own buffer? *)
Ready == front # <<>> \/ taken < Delivered

(* A length below zero makes it a response of unknown length. *)
AllSent == promised >= 0 /\ Len(body) >= promised

Enough ==
  CASE phase = "sniffing" -> Delivered >= SniffBytes
    [] phase = "testing"  -> Ready
    [] phase = "sending"  -> Ready \/ AllSent
    [] OTHER              -> TRUE

Reads == ~Enough /\ ~AtEnd /\ ~Failed

ReadFrame ==
  /\ Reads
  /\ reader = "framed"
  /\ OpenNextFrame \/ FrameFails \/ EndOfFile
  /\ UNCHANGED <<format, written, legacyVars, getVars>>

(* loadNextChunk reads as many bytes as a chunk takes under the chunk size *)
(* configured now, or what is left.                                        *)
BlockStart == turn * (ChunkSize + ChunkOverhead)

BlockEnd == IF length < BlockStart + ChunkSize + ChunkOverhead
            THEN length ELSE BlockStart + ChunkSize + ChunkOverhead

PieceStart(i) == i * (written + ChunkOverhead)

PieceEnd(i) == IF i = LegacyChunks - 1 THEN SealedLength ELSE PieceStart(i + 1)

(* DecryptChunk: the block is one piece, sealed under the number expected. *)
ChunkOpens ==
  /\ BlockStart = PieceStart(turn)
  /\ BlockEnd = PieceEnd(turn)
  /\ turn \notin spoiled

ReadChunk ==
  /\ Reads
  /\ reader = "chunked"
  /\ turn < LegacyChunks
  /\ BlockStart < length
  /\ IF ChunkOpens
     THEN /\ got' = got + BlockEnd - BlockStart - ChunkOverhead
          /\ turn' = turn + 1
          /\ UNCHANGED ending
     ELSE ending' = "failed" /\ UNCHANGED <<got, turn>>
  /\ UNCHANGED <<vars, format, written, length, spoiled, getVars>>

(* Every chunk has been read, or nothing is left, which is no error here. *)
ChunksEnd ==
  /\ Reads
  /\ reader = "chunked"
  /\ turn = LegacyChunks \/ length <= BlockStart
  /\ ending' = "eof"
  /\ UNCHANGED <<vars, format, written, length, spoiled, got, turn, getVars>>

(* DecryptFile, over everything the object holds. *)
WholeOpens == format = "whole" /\ length = SealedLength /\ spoiled = {}

(* Mutant: the overhead of the object is taken for content. *)
ReadWholeSealed ==
  /\ Reads
  /\ reader = "whole"
  /\ got = 0
  /\ IF WholeOpens
     THEN got' = length /\ UNCHANGED ending
     ELSE ending' = "failed" /\ UNCHANGED got
  /\ UNCHANGED <<vars, format, written, length, spoiled, turn, getVars>>

ReadWhole ==
  /\ Reads
  /\ reader = "whole"
  /\ got = 0
  /\ IF WholeOpens
     THEN got' = size /\ UNCHANGED ending
     ELSE ending' = "failed" /\ UNCHANGED got
  /\ UNCHANGED <<vars, format, written, length, spoiled, turn, getVars>>

WholeEnds ==
  /\ Reads
  /\ reader = "whole"
  /\ got > 0
  /\ ending' = "eof"
  /\ UNCHANGED <<vars, format, written, length, spoiled, got, turn, getVars>>

(***************************************************************************)
(* The handler's own steps.                                                *)
(***************************************************************************)
FirstBytes(n) == [i \in 1..n |-> i - 1]

(* The header that was read is put in front of what is left. *)
HeaderRead ==
  /\ phase = "sniffing"
  /\ Enough \/ AtEnd
  /\ taken' = IF Delivered < SniffBytes THEN Delivered ELSE SniffBytes
  /\ front' = FirstBytes(taken')
  /\ phase' = "testing"
  /\ UNCHANGED <<vars, format, written, legacyVars, reader, promised, body>>

(* The buffer of the handler's own that is sent when nothing was there. *)
ZeroByte == -1

(* Mutant: the whole header is put back in front, also the byte tested. *)
TestReadDoubles ==
  /\ phase = "testing"
  /\ Ready \/ AtEnd
  /\ LET tested == IF front # <<>> THEN Head(front)
                   ELSE IF taken < Delivered THEN taken ELSE ZeroByte
     IN  front' = <<tested>> \o front
  /\ taken' = IF front = <<>> /\ taken < Delivered THEN taken + 1 ELSE taken
  /\ phase' = "sending"
  /\ UNCHANGED <<vars, format, written, legacyVars, reader, promised, body>>

(* One byte is read, from the header or else from the reader, and put in   *)
(* front of what is left, also when none was read.                         *)
TestRead ==
  /\ phase = "testing"
  /\ \/ /\ front # <<>>
        /\ front' = <<Head(front)>> \o Tail(front)
        /\ UNCHANGED taken
     \/ /\ front = <<>>
        /\ taken < Delivered
        /\ front' = <<taken>>
        /\ taken' = taken + 1
     \/ /\ ~Ready
        /\ AtEnd
        /\ front' = <<ZeroByte>>
        /\ UNCHANGED taken
  /\ phase' = "sending"
  /\ UNCHANGED <<vars, format, written, legacyVars, reader, promised, body>>

(* Answered with an error, for nothing has been sent yet. *)
EarlyReadFails ==
  /\ phase \in {"sniffing", "testing"}
  /\ ~Enough
  /\ Failed
  /\ phase' = "error"
  /\ UNCHANGED <<vars, format, written, legacyVars, reader, promised, takenVars>>

(* SendStream: what was put back goes first, then what the reader returns. *)
SendByte ==
  /\ phase = "sending"
  /\ ~AllSent
  /\ \/ /\ front # <<>>
        /\ body' = Append(body, Head(front))
        /\ front' = Tail(front)
        /\ UNCHANGED taken
     \/ /\ front = <<>>
        /\ taken < Delivered
        /\ body' = Append(body, taken)
        /\ taken' = taken + 1
        /\ UNCHANGED front
  /\ UNCHANGED <<vars, format, written, legacyVars, reader, phase, promised>>

(* The client has what it was promised, or the end of a response whose     *)
(* length it was not told.                                                 *)
StreamCompletes ==
  /\ phase = "sending"
  /\ AllSent \/ (promised < 0 /\ ~Ready /\ AtEnd)
  /\ phase' = "complete"
  /\ UNCHANGED <<vars, format, written, legacyVars, reader, promised, takenVars>>

(* The connection is closed on a response that is not all there. *)
StreamBreaks ==
  /\ phase = "sending"
  /\ ~Enough
  /\ Failed \/ (promised >= 0 /\ AtEnd)
  /\ phase' = "broken"
  /\ UNCHANGED <<vars, format, written, legacyVars, reader, promised, takenVars>>

DownloadNext ==
  \/ Framed \/ LegacyCut \/ LegacySpoiled
  \/ \E row \in Rows, typed \in BOOLEAN : GetFile(row, typed)
  \/ ReadFrame \/ ReadChunk \/ ChunksEnd \/ ReadWhole \/ WholeEnds
  \/ HeaderRead \/ TestRead \/ EarlyReadFails \/ SendByte \/ StreamCompletes \/ StreamBreaks

DownloadSpec == DownloadInit /\ [][DownloadNext]_allVars

(***************************************************************************)
(* Properties.                                                             *)
(***************************************************************************)

Undamaged == ~damaged /\ length = SealedLength /\ spoiled = {}

(* A file that is as it was stored and whose row says how it was sealed is *)
(* served to its end, whatever order its chunks were sealed in and wherever *)
(* the sniffed header ends.  Not so one sealed by chunks of another size   *)
(* than is configured now; one sealed whole, whose promised length is that *)
(* of its object; or a single upload, whose row leads to the reader of     *)
(* these.                                                                  *)
StoredIsServed ==
  Undamaged /\ reader = format /\ format # "whole" /\ written = ChunkSize
    => phase \notin {"broken", "error"}

(* A response that was completed is the file from its first byte to its    *)
(* last, each once and in its order, though the handler has taken some     *)
(* bytes out and put them back and what fails beyond the promised length   *)
(* is never seen; and they are the file's own, unless a frame of another   *)
(* has been put in.  Only a legacy object of chunks that was cut may be    *)
(* served short: an end between two chunks counts as the end of the file,  *)
(* and the promised length is taken from what is left.                     *)
NothingShort ==
  phase = "complete" /\ ~(format = "chunked" /\ length < SealedLength) =>
    /\ body = FirstBytes(size)
    /\ BytesInPlace
=============================================================================
