------------------------------ MODULE QcowMedia ------------------------------
(***************************************************************************)
(* How one libqcow file finds the bytes of its media: the level 1 and the  *)
(* level 2 table, the references they hold, the caches of level 2 tables   *)
(* and cluster blocks, compressed and encrypted cluster blocks, and the    *)
(* parent file.  The calls are those of one thread, or of threads that     *)
(* hold the lock of QcowFile; images are opened one after the other on the *)
(* same libqcow_file_t, which keeps some of what it knew of the last one.  *)
(*                                                                         *)
(* A reference is a 64-bit number with flags in its highest bits and, when *)
(* compressed, a size below them: here it is a record.  Sizes and offsets  *)
(* are in bytes, of clusters of a few bytes.                               *)
(***************************************************************************)
EXTENDS Integers, Sequences

CONSTANTS
  Images, NoImage,
  Version,        \* Version[i]: the format version of image i
  MediaSize,      \* MediaSize[i]: of the header of image i
  FileSize,       \* FileSize[i]
  Level1,         \* Level1[i]: the sequence of references of the level 1 table
  Tables,         \* Tables[i][p]: the level 2 table at offset p of image i
  StreamSize,     \* StreamSize[i][p]: bytes of the deflate stream at offset p
  Encrypted,      \* Encrypted[i]
  Backing,        \* Backing[i]: the image names a backing file
  Unreliable,     \* the images of which a read of the file can fail
  ParentSize,     \* the media size of the parent file
  ClusterSize,    \* 2 ^ number of cluster block bits
  SectorSize,     \* 512
  TableEntries,   \* 2 ^ number of level 2 table bits
  TableSize,      \* bytes of a level 2 table
  TableSlots,     \* LIBQCOW_MAXIMUM_CACHE_ENTRIES_LEVEL2_TABLES
  BlockSlots,     \* LIBQCOW_MAXIMUM_CACHE_ENTRIES_CLUSTER_BLOCKS
  MaxOffset,      \* bound: the largest offset of a read
  MaxRead         \* bound: the largest buffer of a read

ASSUME MediaConstants ==
  /\ NoImage \notin Images
  /\ Version \in [Images -> 1..3]
  /\ MediaSize \in [Images -> Nat]
  /\ FileSize \in [Images -> Nat]
  /\ Encrypted \in [Images -> BOOLEAN]
  /\ Backing \in [Images -> BOOLEAN]
  /\ Unreliable \subseteq Images
  /\ {ClusterSize, SectorSize, TableEntries, TableSize, TableSlots, BlockSlots}
       \subseteq Nat \ {0}
  /\ {ParentSize, MaxOffset, MaxRead} \subseteq Nat

Reference == [offset : Nat, size : Nat, compressed : BOOLEAN, copied : BOOLEAN]
NoReference ==
  [offset |-> 0, size |-> 0, compressed |-> FALSE, copied |-> FALSE]

(* What the writer of an image sees to.  Tables and plain cluster blocks    *)
(* are aligned to their size, no stream is larger than a cluster block, a   *)
(* compressed cluster block of version 1 has a size, and a cluster block    *)
(* that is encrypted is whole sectors and belongs to one place of the       *)
(* media, as does its table.  The tables and cluster blocks need not all be *)
(* in the file.                                                             *)
FlagFree(i, ref) ==
  IF Version[i] = 3 THEN (ref.offset \div 2) * 2 ELSE ref.offset

Entries(i) == (DOMAIN Tables[i]) \X (0..(TableEntries - 1))
Entry(i, e) == Tables[i][e[1]][e[2]]

ASSUME WellWrittenImages == \A i \in Images :
  /\ Level1[i] \in Seq(Reference)
  /\ \A x \in DOMAIN Level1[i] :
       /\ FlagFree(i, Level1[i][x]) % TableSize = 0
       /\ Level1[i][x].size = 0
  /\ DOMAIN Tables[i] \subseteq Nat
  /\ \A e \in Entries(i) :
       /\ Entry(i, e) \in Reference
       /\ Entry(i, e).compressed =>
            /\ FlagFree(i, Entry(i, e)) > 0
            /\ FlagFree(i, Entry(i, e)) \in DOMAIN StreamSize[i]
            /\ Version[i] = 1 => Entry(i, e).size > 0
       /\ ~Entry(i, e).compressed =>
            /\ FlagFree(i, Entry(i, e)) % ClusterSize = 0
            /\ Entry(i, e).size = 0
  /\ \A p \in DOMAIN StreamSize[i] : StreamSize[i][p] \in 1..ClusterSize
  /\ Encrypted[i] =>
       /\ ClusterSize % SectorSize = 0
       /\ Version[i] = 1 => FileSize[i] % SectorSize = 0
       /\ \A e, f \in Entries(i) :
            e # f /\ Entry(i, e).offset # 0 =>
              Entry(i, e).offset # Entry(i, f).offset
       /\ \A x, y \in DOMAIN Level1[i] :
            x # y /\ FlagFree(i, Level1[i][x]) # 0 =>
              FlagFree(i, Level1[i][x]) # FlagFree(i, Level1[i][y])

(* The key of a cluster block: the sector its first byte was decrypted as.  *)
Raw == -1       \* it was not decrypted
Garbage == -2   \* decryption failed: its data was allocated, never written

VARIABLES
  image,                 \* the image that is open, or NoImage
  parent_file,           \* the image whose backing file is set as the parent
                         \* file, or NoImage
  sparse_flag_bit_mask,  \* the mask is not 0
  level2_table_cache, cluster_block_cache, compressed_cluster_block_cache,
  current_offset,
  buffer_size,           \* bytes asked of the read in progress, or the last
  buffer,                \* the bytes it has read
  outcome                \* see Outcomes

caches ==
  <<level2_table_cache, cluster_block_cache, compressed_cluster_block_cache>>
session == <<image, parent_file, sparse_flag_bit_mask>>
reading == <<current_offset, buffer_size, buffer, outcome>>
vars == <<session, caches, reading>>

(* "error" is an error the library makes of what is in the image, or of the *)
(* missing parent; "io_error" one that libbfio or the parent returned.      *)
Outcomes == {"none", "reading", "ok", "io_error", "error"}

Empty == [image |-> NoImage, at |-> 0, size |-> 0, key |-> Raw]
EmptyCache(slots) == [s \in 0..(slots - 1) |-> Empty]

(* A byte, by where it comes from. *)
Bytes == [from : {"file", "stream", "parent", "zero"},
          image : Images \cup {NoImage}, at : Nat, nth : Nat, sector : Int]
Byte(from, i, at, nth, sector) ==
  [from |-> from, image |-> i, at |-> at, nth |-> nth, sector |-> sector]
ParentByte(i, o) == Byte("parent", i, o, 0, Raw)  \* of the backing file of i
ZeroByte == Byte("zero", NoImage, 0, 0, Raw)

NothingCached ==
  /\ level2_table_cache' = EmptyCache(TableSlots)
  /\ cluster_block_cache' = EmptyCache(BlockSlots)
  /\ compressed_cluster_block_cache' = EmptyCache(BlockSlots)

NothingRead ==
  /\ current_offset' = 0
  /\ buffer_size' = 0
  /\ buffer' = <<>>
  /\ outcome' = "none"

Init ==
  /\ image = NoImage
  /\ parent_file = NoImage
  /\ sparse_flag_bit_mask = FALSE
  /\ level2_table_cache = EmptyCache(TableSlots)
  /\ cluster_block_cache = EmptyCache(BlockSlots)
  /\ compressed_cluster_block_cache = EmptyCache(BlockSlots)
  /\ current_offset = 0
  /\ buffer_size = 0
  /\ buffer = <<>>
  /\ outcome = "none"

-----------------------------------------------------------------------------
(* Sessions.                                                               *)

Open(i) ==
  /\ image = NoImage
  /\ image' = i
  /\ sparse_flag_bit_mask' = (sparse_flag_bit_mask \/ Version[i] = 3)
  /\ UNCHANGED <<parent_file, caches, reading>>

(* An open that fails after the header was read sets the mask all the same. *)
OpenFails(i) ==
  /\ image = NoImage
  /\ sparse_flag_bit_mask' = (sparse_flag_bit_mask \/ Version[i] = 3)
  /\ UNCHANGED <<image, parent_file, caches, reading>>

(* Mutant: the level 2 tables stay in their cache. *)
CloseKeepsTables ==
  /\ image # NoImage
  /\ outcome # "reading"
  /\ image' = NoImage
  /\ cluster_block_cache' = EmptyCache(BlockSlots)
  /\ compressed_cluster_block_cache' = EmptyCache(BlockSlots)
  /\ NothingRead
  /\ UNCHANGED <<parent_file, sparse_flag_bit_mask, level2_table_cache>>

(* Closing frees the caches; it keeps the parent file and the mask. *)
Close ==
  /\ image # NoImage
  /\ outcome # "reading"
  /\ image' = NoImage
  /\ NothingCached
  /\ NothingRead
  /\ UNCHANGED <<parent_file, sparse_flag_bit_mask>>

(* The handle is freed, and another is initialized in its place. *)
Recreate ==
  /\ outcome # "reading"
  /\ image' = NoImage
  /\ parent_file' = NoImage
  /\ sparse_flag_bit_mask' = FALSE
  /\ NothingCached
  /\ NothingRead

(* The application sets the backing file of the image that is open. *)
SetParentFile ==
  /\ image # NoImage
  /\ Backing[image]
  /\ parent_file = NoImage
  /\ outcome # "reading"
  /\ parent_file' = image
  /\ outcome' = "none"
  /\ UNCHANGED <<image, sparse_flag_bit_mask, caches, current_offset,
                 buffer_size, buffer>>

(* libqcow_file_read_buffer_at_offset up to the loop. *)
ReadBufferAtOffset(o, n) ==
  /\ image # NoImage
  /\ outcome # "reading"
  /\ current_offset' = o
  /\ buffer_size' = n
  /\ buffer' = <<>>
  /\ outcome' = IF Backing[image] /\ parent_file = NoImage THEN "error"
                ELSE IF o >= MediaSize[image] \/ n = 0 THEN "ok" ELSE "reading"
  /\ UNCHANGED <<session, caches>>

-----------------------------------------------------------------------------
(* From a media offset to a reference.                                     *)

(* The element of a libfdata_vector of elements of the given size that     *)
(* holds an offset; its value is cached in one slot.                       *)
Element(at, size) == (at \div size) * size
Slot(at, size, slots) == (at \div size) % slots

(* A reference under offset_bit_mask.  Bit 0 is not an offset in version 3. *)
Masked(ref) ==
  [ref EXCEPT !.compressed = FALSE, !.copied = FALSE,
              !.offset = IF Version[image] = 3 THEN (@ \div 2) * 2 ELSE @]

IsZero(ref) == ref.offset = 0 /\ ref.size = 0

Level1Index(o) == o \div (ClusterSize * TableEntries)
Level2Index(o) == (o \div ClusterSize) % TableEntries

(* Reading of the file fails, when it can. *)
IoFailure(result) == IF image \in Unreliable THEN {result} ELSE {}

(* What looking up the reference for media offset o can come to, and the    *)
(* level 2 table cache after it.                                            *)
Lookups(o) ==
  LET result(status, ref, cache) ==
        [status |-> status, ref |-> ref, cache |-> cache]
      failure(status) == result(status, NoReference, level2_table_cache)
      table == Masked(Level1[image][Level1Index(o) + 1])
      at == Element(table.offset, TableSize)
      slot == Slot(at, TableSize, TableSlots)
      cached == level2_table_cache[slot]
      entry == [image |-> image, at |-> at, size |-> TableSize, key |-> Raw]
  IN  IF Level1Index(o) >= Len(Level1[image]) THEN {failure("error")}
      ELSE IF IsZero(table) THEN {result("ok", NoReference, level2_table_cache)}
      ELSE IF cached.image # NoImage /\ cached.at = at
      THEN {result("ok", Tables[cached.image][at][Level2Index(o)],
                   level2_table_cache)}
      ELSE IF at \notin DOMAIN Tables[image] THEN {failure("error")}
      ELSE {result("ok", Tables[image][at][Level2Index(o)],
                   [level2_table_cache EXCEPT ![slot] = entry])}
           \cup IoFailure(failure("io_error"))

-----------------------------------------------------------------------------
(* From a reference to a cluster block.                                    *)

Least(a, b) == IF a < b THEN a ELSE b

(* The end of the cluster after the one of the offset, or of the file. *)
StreamEnd(at) ==
  Least(((at + ClusterSize - 1) \div ClusterSize + 1) * ClusterSize,
        FileSize[image])

(* Mutant: the size is not counted in sectors less one. *)
CompressedSizeWithoutExtra(ref) ==
  IF Version[image] = 1 THEN ref.size
  ELSE Least(ref.size * SectorSize, StreamEnd(ref.offset) - ref.offset)

(* How many bytes of a compressed cluster block are read.  In version 2 and *)
(* 3 the size counts sectors less one, and can be too large.                *)
CompressedSize(ref) ==
  IF Version[image] = 1 THEN ref.size
  ELSE Least((ref.size + 1) * SectorSize, StreamEnd(ref.offset) - ref.offset)

(* A cluster block at the end of a file of version 2 or 3 is shorter.       *)
IsLast(ref) ==
  Version[image] # 1 /\ ref.offset + ClusterSize > FileSize[image]

(* What reading a cluster block can come to, and the caches after it. *)
BlockResult(status, block, plain, compressed) ==
  [status |-> status, block |-> block, plain |-> plain,
   compressed |-> compressed]
BlockFailure(status) ==
  BlockResult(status, Empty, cluster_block_cache,
              compressed_cluster_block_cache)

NewBlock(at, size) == [image |-> image, at |-> at, size |-> size, key |-> Raw]

(* A compressed cluster block is read and inflated each time: its cache is  *)
(* written, never looked up.  Inflating fails when the stream is cut off.   *)
CompressedBlocks(ref) ==
  LET size == CompressedSize(ref)
      block == NewBlock(ref.offset, ClusterSize)
      slot == (ref.offset % ClusterSize) % BlockSlots
  IN  IF \/ ref.offset + size > FileSize[image]
         \/ size < StreamSize[image][ref.offset]
      THEN {BlockFailure("error")}
      ELSE {BlockResult("ok", block, cluster_block_cache,
              [compressed_cluster_block_cache EXCEPT ![slot] = block])}
           \cup IoFailure(BlockFailure("io_error"))

(* Mutant: the sector is that of the byte that is read. *)
DecryptedAtOffset(block, o) ==
  IF block.size % SectorSize # 0 THEN [block EXCEPT !.key = Garbage]
  ELSE [block EXCEPT !.key = o \div SectorSize]

(* Decryption happens once, in the cache, with the sectors of the media     *)
(* that the cluster block was first read for.                               *)
Decrypted(block, o) ==
  IF block.size % SectorSize # 0 THEN [block EXCEPT !.key = Garbage]
  ELSE [block EXCEPT !.key = (o - (o % ClusterSize)) \div SectorSize]

(* The cluster block of a plain reference, for media offset o.              *)
PlainBlocks(ref, o) ==
  LET at == IF IsLast(ref) THEN ref.offset ELSE Element(ref.offset, ClusterSize)
      size == Least(ClusterSize, FileSize[image] - at)
      slot == IF IsLast(ref) THEN (at % ClusterSize) % BlockSlots
              ELSE Slot(at, ClusterSize, BlockSlots)
      cached == cluster_block_cache[slot]
      hit == ~IsLast(ref) /\ cached.image # NoImage /\ cached.at = at
      got == IF hit THEN cached ELSE NewBlock(at, size)
      decrypts == Encrypted[image] /\ got.key = Raw
      block == IF decrypts THEN Decrypted(got, o) ELSE got
      status == IF decrypts /\ block.key = Garbage THEN "error" ELSE "ok"
      read == BlockResult(status, block,
                          [cluster_block_cache EXCEPT ![slot] = block],
                          compressed_cluster_block_cache)
  IN  IF hit THEN {read}
      ELSE IF size <= 0 THEN {BlockFailure("error")}
      ELSE {read} \cup IoFailure(BlockFailure("io_error"))

(* Byte k of a cluster block. *)
BlockByte(inflated, block, k) ==
  IF inflated THEN Byte("stream", block.image, block.at, k, Raw)
  ELSE Byte("file", block.image, block.at + k, 0,
            IF block.key < 0 THEN block.key
            ELSE block.key + (k \div SectorSize))

-----------------------------------------------------------------------------
(* The loop of libqcow_internal_file_read_buffer_from_file_io_handle.      *)

ReadError(status) ==
  /\ outcome' = status
  /\ UNCHANGED <<session, current_offset, buffer_size, buffer>>

(* Mutant: a round that got no byte is no reason to stop. *)
DeliverWithoutBreak(bytes) ==
  LET next == current_offset + Len(bytes)
      got == Len(buffer) + Len(bytes) IN
  /\ current_offset' = next
  /\ buffer' = buffer \o bytes
  /\ outcome' = IF got >= buffer_size \/ next >= MediaSize[image]
                THEN "ok" ELSE "reading"
  /\ UNCHANGED <<session, buffer_size>>

(* Mutant: one cluster block is all that is read. *)
DeliverOnce(bytes) ==
  /\ current_offset' = current_offset + Len(bytes)
  /\ buffer' = buffer \o bytes
  /\ outcome' = "ok"
  /\ UNCHANGED <<session, buffer_size>>

(* The bytes are appended; the read ends when it has all it asked for, is   *)
(* at the end of the media, or got no byte at all.                          *)
Deliver(bytes) ==
  LET next == current_offset + Len(bytes)
      got == Len(buffer) + Len(bytes) IN
  /\ current_offset' = next
  /\ buffer' = buffer \o bytes
  /\ outcome' = IF \/ Len(bytes) = 0
                   \/ got >= buffer_size
                   \/ next >= MediaSize[image]
                THEN "ok" ELSE "reading"
  /\ UNCHANGED <<session, buffer_size>>

(* Mutant: the sparse flag is not looked at. *)
IsSparseMissed(ref) == IsZero(Masked(ref))

(* The cluster block is not in this file. *)
IsSparse(ref) ==
  \/ IsZero(Masked(ref))
  \/ sparse_flag_bit_mask /\ ref.offset % 2 = 1

(* Mutant: the size of the buffer is no limit. *)
ReadSizeOfBlock(o) ==
  Least(ClusterSize - (o % ClusterSize), MediaSize[image] - o)

(* The bytes the round at offset o can deliver. *)
ReadSize(o) ==
  Least(Least(ClusterSize - (o % ClusterSize), MediaSize[image] - o),
        buffer_size - Len(buffer))

(* A round whose bytes are in a cluster block of the file. *)
ReadClusterBlock(ref, o) ==
  LET at == o % ClusterSize IN
  \E result \in IF ref.compressed THEN CompressedBlocks(Masked(ref))
                ELSE PlainBlocks(Masked(ref), o) :
    LET block == result.block IN
    /\ cluster_block_cache' = result.plain
    /\ compressed_cluster_block_cache' = result.compressed
    /\ IF result.status # "ok" THEN ReadError(result.status)
       ELSE IF at > block.size THEN ReadError("error")
       ELSE Deliver([j \in 1..Least(ReadSize(o), block.size - at) |->
                       BlockByte(ref.compressed, block, at + j - 1)])

(* A round whose bytes are not. *)
ReadSparse(o) ==
  /\ UNCHANGED <<cluster_block_cache, compressed_cluster_block_cache>>
  /\ IF parent_file = NoImage THEN Deliver([j \in 1..ReadSize(o) |-> ZeroByte])
     ELSE IF o + ReadSize(o) > ParentSize THEN ReadError("error")
     ELSE \/ ReadError("io_error")
          \/ Deliver([j \in 1..ReadSize(o) |-> ParentByte(parent_file, o + j - 1)])

(* One round: the reference, then the cluster block, the parent or zeros.   *)
Round ==
  /\ outcome = "reading"
  /\ \E lookup \in Lookups(current_offset) :
       LET ref == lookup.ref IN
       /\ level2_table_cache' = lookup.cache
       /\ IF lookup.status # "ok" \/ (ref.compressed /\ Encrypted[image])
          THEN /\ ReadError(IF lookup.status = "ok" THEN "error"
                            ELSE lookup.status)
               /\ UNCHANGED <<cluster_block_cache,
                              compressed_cluster_block_cache>>
          ELSE IF IsSparse(ref) THEN ReadSparse(current_offset)
          ELSE ReadClusterBlock(ref, current_offset)

Next ==
  \/ \E i \in Images : Open(i) \/ OpenFails(i)
  \/ Close
  \/ Recreate
  \/ SetParentFile
  \/ \E o \in 0..MaxOffset, n \in 0..MaxRead : ReadBufferAtOffset(o, n)
  \/ Round

(* A thread in the loop is scheduled. *)
Spec == Init /\ [][Next]_vars /\ WF_vars(Round)

-----------------------------------------------------------------------------
(* Where the documentation of the format says the media is.                *)

(* The reference of the cluster of media offset o of image i.               *)
TableReference(i, o) == Level1[i][(o \div ClusterSize) \div TableEntries + 1]
MediaReference(i, o) ==
  LET table == FlagFree(i, TableReference(i, o)) IN
  IF table = 0 THEN NoReference
  ELSE Tables[i][table][(o \div ClusterSize) % TableEntries]

ZeroFlag(i, ref) == Version[i] = 3 /\ ref.offset % 2 = 1

(* The byte of the media, of whatever handle reads it.  The zero flag is    *)
(* that of a cluster block of zeros; no reference is a place of the backing *)
(* file, when the image has one, and of zeros otherwise.                    *)
MediaByte(i, o) ==
  LET ref == MediaReference(i, o)
      at == FlagFree(i, ref)
  IN  IF ZeroFlag(i, ref) THEN ZeroByte
      ELSE IF at = 0 THEN IF Backing[i] THEN ParentByte(i, o) ELSE ZeroByte
      ELSE IF ref.compressed THEN Byte("stream", i, at, o % ClusterSize, Raw)
      ELSE Byte("file", i, at + (o % ClusterSize), 0,
                IF Encrypted[i] THEN o \div SectorSize ELSE Raw)

HasReference(i, o) ==
  /\ (o \div ClusterSize) \div TableEntries < Len(Level1[i])
  /\ FlagFree(i, TableReference(i, o)) \in {0} \cup DOMAIN Tables[i]

(* The plain cluster block for media offset o does not reach that far, or   *)
(* not to the end of a sector that is encrypted.                            *)
CutOff(i, o) ==
  /\ HasReference(i, o)
  /\ MediaByte(i, o).from = "file"
  /\ \/ MediaByte(i, o).at >= FileSize[i]
     \/ Encrypted[i] /\ FileSize[i] % SectorSize # 0
        /\ MediaByte(i, o).at - (o % ClusterSize) + ClusterSize > FileSize[i]

(* A cluster block cannot be both compressed and encrypted. *)
EncryptedStream(i, o) ==
  HasReference(i, o) /\ MediaReference(i, o).compressed /\ Encrypted[i]

(* The stream for media offset o does not fit the file or its own size.     *)
StreamCutOff(i, o) ==
  LET ref == MediaReference(i, o)
      at == FlagFree(i, ref)
  IN  /\ HasReference(i, o)
      /\ MediaByte(i, o).from = "stream"
      /\ \/ at + StreamSize[i][at] > FileSize[i]
         \/ Version[i] = 1 /\ at + ref.size > FileSize[i]
         \/ StreamSize[i][at] >
              IF Version[i] = 1 THEN ref.size ELSE (ref.size + 1) * SectorSize

-----------------------------------------------------------------------------
(* Where the code does not follow the format.                              *)

(* A hole, while the parent of another image is still set. *)
HoleOfStaleParent(o) ==
  /\ parent_file \notin {NoImage, image}
  /\ FlagFree(image, MediaReference(image, o)) = 0

(* The zero flag, while any parent is set. *)
ZeroFlagOverParent(o) ==
  parent_file # NoImage /\ ZeroFlag(image, MediaReference(image, o))

(* An odd offset, under the mask that an image of version 3 left behind. *)
OddOffsetUnderMask(o) ==
  /\ sparse_flag_bit_mask
  /\ Version[image] # 3
  /\ MediaReference(image, o).offset % 2 = 1

Misread(o) ==
  /\ HasReference(image, o)
  /\ HoleOfStaleParent(o) \/ ZeroFlagOverParent(o) \/ OddOffsetUnderMask(o)

-----------------------------------------------------------------------------
(* Properties.                                                             *)

Entered(cache) == {cache[s] : s \in DOMAIN cache} \ {Empty}
Blocks == [image : Images \cup {NoImage}, at : Nat, size : Nat, key : Int]

(* Every variable has its type. *)
TypeOK ==
  /\ image \in Images \cup {NoImage}
  /\ parent_file \in Images \cup {NoImage}
  /\ sparse_flag_bit_mask \in BOOLEAN
  /\ level2_table_cache \in [0..(TableSlots - 1) -> Blocks]
  /\ cluster_block_cache \in [0..(BlockSlots - 1) -> Blocks]
  /\ compressed_cluster_block_cache \in [0..(BlockSlots - 1) -> Blocks]
  /\ current_offset \in Nat
  /\ buffer_size \in Nat
  /\ buffer \in Seq(Bytes)
  /\ Len(buffer) <= buffer_size
  /\ outcome \in Outcomes

(* The bytes a read has delivered are those that the format has at the      *)
(* places of the media that end at the current offset: of the image that is *)
(* open, from the right place of its file, decrypted as the right sector,   *)
(* inflated, from its own backing file or zero, whatever was read or open   *)
(* before.  The three kinds of places where the code departs from that are  *)
(* read as zeros, or as the same place of whatever parent is set, and as    *)
(* nothing else.                                                            *)
ReadsMedia ==
  LET got == Len(buffer) IN
  \A j \in 1..got :
    LET o == current_offset - got + j - 1 IN
    \/ buffer[j] = MediaByte(image, o)
    \/ Misread(o) /\ buffer[j] \in {ZeroByte, ParentByte(parent_file, o)}

(* What the caches hold is of the image that is open; and a cluster block   *)
(* that was decrypted was decrypted as the sectors of the place of the      *)
(* media that refers to it, so that every later read of it is right too.    *)
CachesOfSession ==
  /\ \A c \in {level2_table_cache, cluster_block_cache,
               compressed_cluster_block_cache} :
       \A e \in Entered(c) : e.image = image
  /\ \A e \in Entered(cluster_block_cache), o \in 0..MaxOffset :
       LET media == MediaByte(image, o) IN
       /\ o < MediaSize[image]
       /\ HasReference(image, o)
       /\ o % ClusterSize = 0
       /\ media.from = "file"
       /\ media.at = e.at
       /\ e.key # Garbage
       => e.key = media.sector

(* A read that succeeds has read all it was asked for up to the end of the  *)
(* media; it falls short only where the image file itself ends.             *)
ReadComplete ==
  outcome = "ok" /\ image # NoImage =>
    \/ Len(buffer) = buffer_size
    \/ current_offset >= MediaSize[image]
    \/ CutOff(image, current_offset)

(* The library finds fault with a read only where the image is at fault, or *)
(* where the parent is missing or, for a place that it reads from there,    *)
(* too small.                                                               *)
OnlyDamageFails ==
  outcome = "error" =>
    \/ Backing[image] /\ parent_file = NoImage
    \/ ~HasReference(image, current_offset)
    \/ CutOff(image, current_offset)
    \/ EncryptedStream(image, current_offset)
    \/ StreamCutOff(image, current_offset)
    \/ /\ parent_file # NoImage
       /\ \/ MediaByte(image, current_offset).from = "parent"
          \/ Misread(current_offset)
       /\ current_offset + ClusterSize > ParentSize

(* A read comes to an end: a round that delivers nothing is the last.       *)
ReadEnds == []<>(outcome # "reading")

-----------------------------------------------------------------------------
(* A statement of the documentation that the code does not live up to: it   *)
(* is refuted by a run.                                                     *)

(* The format: in version 2 bit 0 is part of "Cluster block offset", and so *)
(* a compressed cluster block may be at an odd offset and is not a hole.    *)
OddOffsetIsOffset ==
  LET got == Len(buffer) IN
  \A j \in 1..got :
    LET o == current_offset - got + j - 1 IN
    Version[image] = 2 /\ MediaByte(image, o).from = "stream" =>
      buffer[j].from = "stream"
=============================================================================
