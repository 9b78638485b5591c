------------------------------ MODULE QcowCluster ------------------------------
(***************************************************************************)
(* A compressed cluster block, from the file header to its bytes: an open  *)
(* takes the header and works out the shifts (QcowHeader), a read of the   *)
(* media takes an offset apart, finds a reference, takes that apart, reads *)
(* the bytes it points to, and inflates them (QcowDeflate).  The caches,   *)
(* plain cluster blocks and the parent file are those of QcowMedia, where  *)
(* the offsets are taken apart already and a stream is only its size.      *)
(***************************************************************************)
EXTENDS QcowHeader, QcowDeflate

VARIABLES
  offset,            \* of the media, where the read is
  reference,         \* the reference found for it
  reading            \* "no", "reference", "compressed", "inflating", "plain",
                     \* "sparse" or "error"

readVars == <<offset, reference, reading>>
vars == <<headerVars, inflaterVars, readVars>>

(* contents are the bytes of a file, references the entries of its level 2  *)
(* tables by their two indexes (0 where there is none), offsets the places  *)
(* of the media that are read, and media its bytes there.  Of a file that   *)
(* is only opened the bytes after the header do not matter.  A sound file   *)
(* is one that a writer made: see WellWritten.                              *)
ASSUME FilesHaveContents == \A f \in Files :
  /\ f.contents \in Seq(Bytes)
  /\ f.offsets # {} => f.header.size = Len(f.contents)
  /\ \A e \in DOMAIN f.references : f.references[e] \in Nat
  /\ f.offsets \subseteq Nat
  /\ f.media \in [f.offsets -> Bytes]
  /\ f.sound \in BOOLEAN

(* In each cluster block of a sound file that is read there is a stream, of *)
(* which text is what it says: streams[o] for media offset o.  None is      *)
(* longer than a cluster block, which is written as it is instead.          *)
ASSUME WellWritten == \A f \in Files : f.sound =>
  /\ f.offsets \subseteq 0..(f.header.media_size - 1)
  /\ f.streams \in [f.offsets -> [bytes : Seq(Bytes), text : Seq(Bytes)]]
  /\ \A o \in f.offsets : Len(f.streams[o].bytes)
                            <= 2 ^ f.header.number_of_cluster_block_bits

Init ==
  /\ offset = 0
  /\ reference = 0
  /\ reading = "no"
  /\ \/ HeaderInit /\ input = NoInput /\ NothingInflated
     \/ /\ file = NoFile
        /\ shifts = NoShifts
        /\ tables = NoTables
        /\ opening = "closed"
        /\ InflaterInit

-----------------------------------------------------------------------------
(* From an offset of the media to a reference.                             *)

cluster_bits == header.number_of_cluster_block_bits

level1_table_index == offset \div (2 ^ shifts.level1_index_bit_shift)
level2_table_index ==
  (offset \div cluster_block_size) % (2 ^ shifts.number_of_level2_table_bits)
cluster_block_data_offset == offset % cluster_block_size

ReadBufferAtOffset(o) ==
  /\ opening = "open"
  /\ reading = "no"
  /\ o < header.media_size
  /\ offset' = o
  /\ reading' = "reference"
  /\ UNCHANGED <<headerVars, inflaterVars, reference>>

(* The highest bit of version 1 and the second highest of version 2 and 3. *)
IsCompressed(r) == (r \div (2 ^ shifts.offset_bits)) % 2 = 1

(* Version 3 has a flag in bit 0, which is no part of the offset. *)
IsSparse(r) == header.format_version = 3 /\ r % 2 = 1

Masked(r) ==
  LET under == r % (2 ^ shifts.offset_bits)
  IN  IF header.format_version = 3 THEN (under \div 2) * 2 ELSE under

Entry == <<level1_table_index, level2_table_index>>
Found == IF Entry \in DOMAIN file.references THEN file.references[Entry] ELSE 0

CanBeRead ==
  /\ level1_table_index < tables.level1_entries
  /\ ~(IsCompressed(Found) /\ header.encryption_method # 0)

GetClusterBlockOffset ==
  /\ reading = "reference"
  /\ CanBeRead
  /\ reference' = Masked(Found)
  /\ reading' = IF Masked(Found) = 0 \/ IsSparse(Found) THEN "sparse"
                ELSE IF IsCompressed(Found) THEN "compressed" ELSE "plain"
  /\ UNCHANGED <<headerVars, inflaterVars, offset>>

CannotGetClusterBlockOffset ==
  /\ reading = "reference"
  /\ ~CanBeRead
  /\ reading' = "error"
  /\ UNCHANGED <<headerVars, inflaterVars, offset, reference>>

-----------------------------------------------------------------------------
(* From a reference to the bytes of a stream.                              *)

compressed_offset == reference % (2 ^ shifts.compression_bit_shift)
compressed_size == reference \div (2 ^ shifts.compression_bit_shift)

(* In version 2 and 3 the size counts sectors less one; what is read ends   *)
(* with the next cluster but one, or with the file.                         *)
EndOfCompressed ==
  LET cluster == (compressed_offset + cluster_block_size - 1)
                   \div cluster_block_size
  IN  Least((cluster + 1) * cluster_block_size, header.size)

(* Mutant: the number of sectors is not one less. *)
ReadSizeOfSectors ==
  IF header.format_version = 1 THEN compressed_size
  ELSE Least(compressed_size * (2 ^ SectorBits),
             EndOfCompressed - compressed_offset)

ReadSize ==
  IF header.format_version = 1 THEN compressed_size
  ELSE Least((compressed_size + 1) * (2 ^ SectorBits),
             EndOfCompressed - compressed_offset)

CompressedData ==
  SubSeq(file.contents, compressed_offset + 1, compressed_offset + ReadSize)

CanReadCompressed ==
  /\ compressed_offset < header.size
  /\ compressed_offset + ReadSize <= header.size

IsPrefixOf(s, t) == Len(s) <= Len(t) /\ SubSeq(t, 1, Len(s)) = s

(* Of what was written for this offset, how much is read. *)
Damage(bytes) ==
  IF ~file.sound THEN "altered"
  ELSE IF IsPrefixOf(file.streams[offset].bytes, bytes) THEN "none"
  ELSE IF IsPrefixOf(bytes, file.streams[offset].bytes) THEN "cut"
  ELSE "altered"

ReadClusterBlock ==
  /\ reading = "compressed"
  /\ CanReadCompressed
  /\ ReadSize > 0
  /\ input' = [data |-> CompressedData, size |-> cluster_block_size,
               zlib |-> FALSE,
               text |-> IF file.sound THEN file.streams[offset].text ELSE <<>>,
               damage |-> Damage(CompressedData)]
  /\ reading' = "inflating"
  /\ UNCHANGED <<headerVars, stream, decoding, uncompressed_data, checksum, at,
                 offset, reference>>

(* Of no size, which version 1 can say, it is read as if it were plain. *)
ReadWithoutSize ==
  /\ reading = "compressed"
  /\ CanReadCompressed
  /\ ReadSize = 0
  /\ reading' = "plain"
  /\ UNCHANGED <<headerVars, inflaterVars, offset, reference>>

CannotReadClusterBlock ==
  /\ reading = "compressed"
  /\ ~CanReadCompressed
  /\ reading' = "error"
  /\ UNCHANGED <<headerVars, inflaterVars, offset, reference>>

(* The inflater runs when it is called, by a read or on its own. *)
InflaterStep ==
  /\ file = NoFile \/ reading = "inflating"
  /\ InflaterNext
  /\ UNCHANGED <<headerVars, readVars>>

OpenStep ==
  /\ file # NoFile
  /\ OpenRead
  /\ UNCHANGED <<inflaterVars, readVars>>

ReadStep ==
  \/ \E o \in file.offsets : ReadBufferAtOffset(o)
  \/ GetClusterBlockOffset \/ CannotGetClusterBlockOffset
  \/ ReadClusterBlock \/ ReadWithoutSize \/ CannotReadClusterBlock

Next ==
  \/ OpenStep
  \/ file # NoFile /\ ReadStep
  \/ InflaterStep

Spec == Init /\ [][Next]_vars /\ WF_vars(Next)

-----------------------------------------------------------------------------
(* Every variable has its type. *)
TypeOK ==
  /\ HeaderTypeOK
  /\ InflaterTypeOK
  /\ at = "call" => input \in Inputs
  /\ offset \in Nat
  /\ reference \in Nat
  /\ reading \in {"no", "reference", "compressed", "inflating", "plain",
                  "sparse", "error"}

(* A file that was well written is opened, and where a stream was written   *)
(* the stream is found, read to its end and inflated: the indexes, masks    *)
(* and sizes that a reader works out from the header take apart what a      *)
(* writer put together (open_read, get_cluster_block_offset,                *)
(* read_cluster_block).  The byte at an offset of the media is the byte     *)
(* that was written there, whatever surrounds the stream in the file.       *)
ReadsWhatWasWritten ==
  file # NoFile /\ file.sound =>
    /\ opening # "refused"
    /\ reading \notin {"error", "sparse", "plain"}
    /\ at # "error"
    /\ at = "done" =>
         /\ cluster_block_data_offset < Len(uncompressed_data)
         /\ uncompressed_data[cluster_block_data_offset + 1] = file.media[offset]

(* Opening a file, finding a cluster block and inflating it come to an end, *)
(* whatever is in the file.                                                 *)
Terminates ==
  <>(\/ at \in {"done", "error"} \/ opening = "refused"
     \/ reading \in {"plain", "sparse", "error"}
     \/ opening = "open" /\ file.offsets = {})
=============================================================================
