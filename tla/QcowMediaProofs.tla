--------------------------- MODULE QcowMediaProofs ---------------------------
(***************************************************************************)
(* Theorems about QcowMedia, for all images, sizes and caches.             *)
(***************************************************************************)
EXTENDS QcowMedia, TLAPS

-----------------------------------------------------------------------------
(* Clusters, sectors and tables: quotients and remainders.                 *)

LEMMA Division ==
  ASSUME NEW a \in Nat, NEW b \in Nat \ {0}
  PROVE  /\ a \div b \in Nat
         /\ a % b \in 0..(b - 1)
         /\ a = (b * (a \div b)) + (a % b)
OBVIOUS

LEMMA DivisionUnique ==
  ASSUME NEW a \in Nat, NEW b \in Nat \ {0}, NEW q \in Nat, NEW r \in 0..(b - 1),
         a = (b * q) + r
  PROVE  a \div b = q /\ a % b = r
OBVIOUS

(* The index in the level 1 table is the number of the cluster, divided.    *)
LEMMA DividedTwice ==
  ASSUME NEW o \in Nat, NEW b \in Nat \ {0}, NEW c \in Nat \ {0}
  PROVE  o \div (b * c) = (o \div b) \div c
<1> DEFINE q == o \div b
           r == o % b
           p == q \div c
           s == q % c
<1>1. q \in Nat /\ r \in 0..(b - 1) /\ o = (b * q) + r
  BY Division
<1>2. p \in Nat /\ s \in 0..(c - 1) /\ q = (c * p) + s
  BY <1>1, Division
<1> HIDE DEF q, r, p, s
<1>3. b * c \in Nat \ {0}
  OBVIOUS
<1>4. o = ((b * c) * p) + ((b * s) + r)
  BY <1>1, <1>2
<1>5. (b * s) + r \in 0..((b * c) - 1)
  <2>1. (b * s) \in Nat /\ b * s <= b * (c - 1)
    BY <1>2
  <2>2. b * (c - 1) = (b * c) - b
    OBVIOUS
  <2> HIDE DEF r
  <2> QED
    BY <1>1, <1>3, <2>1, <2>2
<1>6. o \div (b * c) = p
  BY <1>2, <1>3, <1>4, <1>5, DivisionUnique
<1> QED
  BY <1>6 DEF p, q

(* Two offsets in one cluster. *)
LEMMA InOneCluster ==
  ASSUME NEW o \in Nat, NEW k \in Nat, NEW b \in Nat \ {0}, (o % b) + k < b
  PROVE  (o + k) \div b = o \div b /\ (o + k) % b = (o % b) + k
<1>1. /\ o \div b \in Nat /\ o % b \in 0..(b - 1)
      /\ o = (b * (o \div b)) + (o % b)
  BY Division
<1> DEFINE q == o \div b
           r == o % b
<1> HIDE DEF q, r
<1>2. o + k = (b * q) + (r + k) /\ r + k \in 0..(b - 1) /\ q \in Nat
  BY <1>1 DEF q, r
<1>3. o + k \in Nat
  OBVIOUS
<1>4. (o + k) \div b = q /\ (o + k) % b = r + k
  BY <1>2, <1>3, DivisionUnique
<1> QED
  BY <1>4 DEF q, r

LEMMA Aligned ==
  ASSUME NEW a \in Nat, NEW b \in Nat \ {0}, a % b = 0
  PROVE  (a \div b) * b = a
BY Division

(* What is aligned to a multiple is aligned. *)
LEMMA AlignedToPart ==
  ASSUME NEW a \in Nat, NEW b \in Nat \ {0}, NEW s \in Nat \ {0},
         a % b = 0, b % s = 0
  PROVE  a % s = 0
<1> DEFINE q == a \div b
           m == b \div s
<1>1. q \in Nat /\ m \in Nat /\ a = b * q /\ b = s * m
  BY Division
<1> HIDE DEF q, m
<1>2. m * q \in Nat /\ 0 \in 0..(s - 1) /\ a = (s * (m * q)) + 0
  BY <1>1
<1> QED
  BY <1>2, DivisionUnique

(* The sectors of a cluster block are counted from the one it starts with.  *)
LEMMA SectorsOfCluster ==
  ASSUME NEW a \in Nat, NEW k \in Nat, NEW s \in Nat \ {0}, a % s = 0
  PROVE  (a + k) \div s = (a \div s) + (k \div s)
<1> DEFINE q == a \div s
           p == k \div s
           r == k % s
<1>1. q \in Nat /\ a = s * q
  BY Division
<1>2. p \in Nat /\ r \in 0..(s - 1) /\ k = (s * p) + r
  BY Division
<1> HIDE DEF q, p, r
<1>3. a + k = (s * (q + p)) + r /\ q + p \in Nat /\ a + k \in Nat
  BY <1>1, <1>2
<1>4. (a + k) \div s = q + p
  BY <1>2, <1>3, DivisionUnique
<1> QED
  BY <1>4 DEF q, p

(* The start of the cluster of an offset. *)
LEMMA ClusterStart ==
  ASSUME NEW o \in Nat, NEW b \in Nat \ {0}
  PROVE  o - (o % b) \in Nat /\ (o - (o % b)) % b = 0 /\ o - (o % b) = b * (o \div b)
<1> DEFINE q == o \div b
           r == o % b
<1>1. q \in Nat /\ r \in 0..(b - 1) /\ o = (b * q) + r
  BY Division
<1> HIDE DEF q, r
<1>2. o - r = b * q /\ o - r \in Nat /\ o - r = (b * q) + 0 /\ 0 \in 0..(b - 1)
  BY <1>1
<1>3. (o - r) % b = 0
  BY <1>1, <1>2, DivisionUnique
<1> QED
  BY <1>2, <1>3 DEF q, r

-----------------------------------------------------------------------------
(* Numbers.                                                                *)

LEMMA Sizes ==
  /\ ClusterSize \in Nat \ {0} /\ SectorSize \in Nat \ {0}
  /\ TableEntries \in Nat \ {0} /\ TableSize \in Nat \ {0}
  /\ TableSlots \in Nat \ {0} /\ BlockSlots \in Nat \ {0}
  /\ ParentSize \in Nat
  /\ NoImage \notin Images
BY MediaConstants DEF MediaConstants

LEMMA ImageNumbers ==
  ASSUME NEW i \in Images
  PROVE  /\ Version[i] \in 1..3 /\ MediaSize[i] \in Nat /\ FileSize[i] \in Nat
         /\ Encrypted[i] \in BOOLEAN /\ Backing[i] \in BOOLEAN
         /\ i # NoImage
BY MediaConstants DEF MediaConstants

-----------------------------------------------------------------------------
(* References.                                                             *)

(* What the writer of an image sees to, of one reference. *)
WellWritten(i, ref) ==
  /\ ref \in Reference
  /\ ref.compressed =>
       /\ FlagFree(i, ref) > 0
       /\ FlagFree(i, ref) \in DOMAIN StreamSize[i]
       /\ Version[i] = 1 => ref.size > 0
  /\ ~ref.compressed =>
       /\ FlagFree(i, ref) % ClusterSize = 0
       /\ ref.size = 0

LEMMA FlagFreeType ==
  ASSUME NEW i \in Images, NEW ref \in Reference
  PROVE  FlagFree(i, ref) \in Nat
<1>1. ref.offset \in Nat
  BY DEF Reference
<1> QED
  BY <1>1 DEF FlagFree

LEMMA NoReferenceWellWritten ==
  ASSUME NEW i \in Images
  PROVE  WellWritten(i, NoReference) /\ FlagFree(i, NoReference) = 0
<1>1. NoReference \in Reference
  BY DEF NoReference, Reference
<1>2. FlagFree(i, NoReference) = 0
  BY DEF NoReference, FlagFree
<1>3. 0 % ClusterSize = 0
  BY Sizes
<1> QED
  BY <1>1, <1>2, <1>3 DEF NoReference, WellWritten

(* The index a media offset has in the level 1 table. *)
LEMMA IndexOfOffset ==
  ASSUME NEW o \in Nat
  PROVE  /\ Level1Index(o) = (o \div ClusterSize) \div TableEntries
         /\ Level1Index(o) \in Nat
         /\ Level2Index(o) \in 0..(TableEntries - 1)
<1>1. o \div ClusterSize \in Nat
  BY Sizes, Division
<1>2. Level1Index(o) = (o \div ClusterSize) \div TableEntries
  BY Sizes, DividedTwice DEF Level1Index
<1>3. Level1Index(o) \in Nat
  BY <1>1, <1>2, Sizes, Division
<1>4. Level2Index(o) \in 0..(TableEntries - 1)
  BY <1>1, Sizes, Division DEF Level2Index
<1> QED
  BY <1>2, <1>3, <1>4

(* A reference of the level 1 table. *)
LEMMA TableReferenceIs ==
  ASSUME NEW i \in Images, NEW o \in Nat, Level1Index(o) < Len(Level1[i])
  PROVE  /\ TableReference(i, o) = Level1[i][Level1Index(o) + 1]
         /\ Level1Index(o) + 1 \in DOMAIN Level1[i]
         /\ TableReference(i, o) \in Reference
         /\ TableReference(i, o).size = 0
         /\ FlagFree(i, TableReference(i, o)) % TableSize = 0
<1>1. Level1[i] \in Seq(Reference)
  BY WellWrittenImages DEF WellWrittenImages
<1>2. Level1Index(o) + 1 \in 1..Len(Level1[i])
  <2>1. Len(Level1[i]) \in Nat
    BY <1>1
  <2>2. Level1Index(o) \in Nat
    BY IndexOfOffset
  <2> QED
    BY <2>1, <2>2
<1>3. Level1Index(o) + 1 \in DOMAIN Level1[i]
  BY <1>1, <1>2
<1>4. TableReference(i, o) = Level1[i][Level1Index(o) + 1]
  BY IndexOfOffset DEF TableReference
<1>5. Level1[i][Level1Index(o) + 1] \in Reference
  BY <1>1, <1>2
<1> QED
  BY <1>3, <1>4, <1>5, WellWrittenImages DEF WellWrittenImages

(* An entry of a table that is there. *)
LEMMA EntryWellWritten ==
  ASSUME NEW i \in Images, NEW p \in DOMAIN Tables[i], NEW x \in 0..(TableEntries - 1)
  PROVE  /\ <<p, x>> \in Entries(i)
         /\ Entry(i, <<p, x>>) = Tables[i][p][x]
         /\ WellWritten(i, Tables[i][p][x])
<1> DEFINE e == <<p, x>>
<1>1. e \in Entries(i) /\ Entry(i, e) = Tables[i][p][x]
  BY DEF Entries, Entry
<1>2. WellWritten(i, Entry(i, e))
  BY <1>1, WellWrittenImages DEF WellWrittenImages, WellWritten
<1> QED
  BY <1>1, <1>2

(* The reference of a media offset that has one: an entry of its table, or  *)
(* none.                                                                    *)
LEMMA ReferenceOfMedia ==
  ASSUME NEW i \in Images, NEW o \in Nat, HasReference(i, o)
  PROVE  LET ref == MediaReference(i, o)
             p == FlagFree(i, TableReference(i, o))
         IN  /\ WellWritten(i, ref)
             /\ p = 0 => ref = NoReference
             /\ p # 0 => /\ p \in DOMAIN Tables[i]
                         /\ <<p, Level2Index(o)>> \in Entries(i)
                         /\ ref = Entry(i, <<p, Level2Index(o)>>)
<1> DEFINE ref == MediaReference(i, o)
           p == FlagFree(i, TableReference(i, o))
<1>1. p \in {0} \cup DOMAIN Tables[i]
  BY DEF HasReference
<1>2. CASE p = 0
  <2>1. ref = NoReference
    BY <1>2 DEF MediaReference
  <2> QED
    BY <1>2, <2>1, NoReferenceWellWritten
<1>3. CASE p # 0
  <2>1. p \in DOMAIN Tables[i]
    BY <1>1, <1>3
  <2>2. Level2Index(o) \in 0..(TableEntries - 1)
    BY IndexOfOffset
  <2>3. ref = Tables[i][p][Level2Index(o)]
    BY <1>3 DEF MediaReference, Level2Index
  <2> QED
    BY <1>3, <2>1, <2>2, <2>3, EntryWellWritten
<1> QED
  BY <1>2, <1>3

(* All offsets in a cluster have one reference. *)
LEMMA ReferenceOfCluster ==
  ASSUME NEW i \in Images, NEW o \in Nat, NEW k \in Nat,
         (o % ClusterSize) + k < ClusterSize
  PROVE  MediaReference(i, o + k) = MediaReference(i, o)
<1>1. (o + k) \div ClusterSize = o \div ClusterSize
  BY Sizes, InOneCluster
<1> QED
  BY <1>1 DEF MediaReference, TableReference

-----------------------------------------------------------------------------
(* The inductive invariant.                                                *)

(* The mask of version 3 is set while an image of version 3 is open. *)
MaskOfVersion3 ==
  image # NoImage /\ Version[image] = 3 => sparse_flag_bit_mask

(* What the cache of level 2 tables holds is tables of the image.           *)
TablesCached(cache) ==
  \A s \in 0..(TableSlots - 1) :
    \/ cache[s] = Empty
    \/ /\ image # NoImage
       /\ cache[s].image = image
       /\ cache[s].at \in DOMAIN Tables[image]
       /\ cache[s] \in Blocks

(* The file has a plain cluster block at the offset, for a media offset.    *)
RefersTo(i, o, at) ==
  /\ HasReference(i, o)
  /\ ~MediaReference(i, o).compressed
  /\ ~ZeroFlag(i, MediaReference(i, o))
  /\ at # 0
  /\ FlagFree(i, MediaReference(i, o)) = at

FirstSector(o) == (o - (o % ClusterSize)) \div SectorSize

BlockSize(i, at) == Least(ClusterSize, FileSize[i] - at)

(* A cluster block of the image that is open, of the size it has in the     *)
(* file, decrypted as the sectors of whatever offset refers to it; where    *)
(* that failed it is the last of the file, which is never looked up.        *)
PlainBlock(b) ==
  /\ image # NoImage
  /\ b \in Blocks
  /\ b.image = image
  /\ b.at % ClusterSize = 0
  /\ b.size = BlockSize(image, b.at) /\ b.size > 0
  /\ ~Encrypted[image] => b.key = Raw
  /\ Encrypted[image] =>
       \/ b.key = Garbage /\ Version[image] # 1
          /\ b.at + ClusterSize > FileSize[image]
       \/ /\ b.key \in Nat
          /\ \A o \in Nat : RefersTo(image, o, b.at) => b.key = FirstSector(o)

PlainCached(cache) ==
  \A s \in 0..(BlockSlots - 1) : cache[s] = Empty \/ PlainBlock(cache[s])

CompressedCached(cache) ==
  \A s \in 0..(BlockSlots - 1) :
    \/ cache[s] = Empty
    \/ image # NoImage /\ cache[s].image = image /\ cache[s] \in Blocks

CachesInv ==
  /\ TablesCached(level2_table_cache)
  /\ PlainCached(cluster_block_cache)
  /\ CompressedCached(compressed_cluster_block_cache)

(* A parent was set for an image that has a backing file. *)
ParentOfBacked == parent_file # NoImage => Backing[parent_file]

(* A file that is closed has read nothing; a read in progress has more to   *)
(* read; without the parent it needs an image is not read.                  *)
ReadInv ==
  /\ image = NoImage => buffer = <<>> /\ outcome = "none"
  /\ outcome = "reading" =>
       /\ image # NoImage
       /\ current_offset < MediaSize[image]
       /\ Len(buffer) < buffer_size
  /\ image # NoImage /\ Backing[image] /\ parent_file = NoImage =>
       buffer = <<>> /\ outcome # "reading"
  /\ Len(buffer) <= current_offset

IInv ==
  /\ TypeOK
  /\ MaskOfVersion3
  /\ ParentOfBacked
  /\ CachesInv
  /\ ReadInv
  /\ ReadsMedia
  /\ OnlyDamageFails
  /\ ReadComplete

-----------------------------------------------------------------------------
(* Looking a reference up.                                                 *)

LEMMA MaskedIs ==
  ASSUME image \in Images, NEW ref \in Reference
  PROVE  /\ Masked(ref).offset = FlagFree(image, ref)
         /\ Masked(ref).size = ref.size
BY DEF Masked, FlagFree, Reference

(* A lookup that succeeds finds the reference the format gives the offset;  *)
(* it finds fault only with an offset that has none.                        *)
LEMMA LookupsFind ==
  ASSUME image \in Images, NEW o \in Nat, TablesCached(level2_table_cache),
         level2_table_cache \in [0..(TableSlots - 1) -> Blocks],
         NEW lookup \in Lookups(o)
  PROVE  /\ lookup.status \in {"ok", "error", "io_error"}
         /\ lookup.status = "ok" =>
              HasReference(image, o) /\ lookup.ref = MediaReference(image, o)
         /\ lookup.status = "error" => ~HasReference(image, o)
         /\ TablesCached(lookup.cache)
         /\ lookup.cache \in [0..(TableSlots - 1) -> Blocks]
<1> DEFINE x == Level1Index(o)
           y == Level2Index(o)
           cache == level2_table_cache
           level1 == TableReference(image, o)
           p == FlagFree(image, level1)
           slot == Slot(p, TableSize, TableSlots)
           entry == [image |-> image, at |-> p, size |-> TableSize, key |-> Raw]
           result(status, ref, c) == [status |-> status, ref |-> ref, cache |-> c]
           failure(status) == result(status, NoReference, cache)
           Goal(l) ==
             /\ l.status \in {"ok", "error", "io_error"}
             /\ l.status = "ok" =>
                  HasReference(image, o) /\ l.ref = MediaReference(image, o)
             /\ l.status = "error" => ~HasReference(image, o)
             /\ TablesCached(l.cache)
             /\ l.cache \in [0..(TableSlots - 1) -> Blocks]
<1>1. x \in Nat /\ x = (o \div ClusterSize) \div TableEntries
      /\ y = (o \div ClusterSize) % TableEntries /\ Len(Level1[image]) \in Nat
  <2>1. Level1[image] \in Seq(Reference)
    BY WellWrittenImages DEF WellWrittenImages
  <2>2. Len(Level1[image]) \in Nat
    BY <2>1
  <2>3. y = (o \div ClusterSize) % TableEntries
    BY DEF Level2Index
  <2> QED
    BY <2>2, <2>3, IndexOfOffset
<1>2. CASE x >= Len(Level1[image])
  <2>1. lookup = failure("error")
    BY <1>2 DEF Lookups
  <2>2. ~HasReference(image, o)
    BY <1>1, <1>2 DEF HasReference
  <2> QED
    BY <2>1, <2>2
<1>3. CASE x < Len(Level1[image])
  <2>1. /\ level1 = Level1[image][x + 1] /\ level1 \in Reference
        /\ level1.size = 0 /\ p % TableSize = 0
    BY <1>3, TableReferenceIs
  <2>2. /\ p \in Nat /\ Masked(level1).offset = p /\ Masked(level1).size = 0
    BY <2>1, FlagFreeType, MaskedIs
  <2> DEFINE table == Masked(Level1[image][Level1Index(o) + 1])
  <2>8. table.offset = p /\ (IsZero(table) <=> p = 0)
    BY <2>1, <2>2 DEF IsZero
  <2>3. Element(p, TableSize) = p
    BY <2>1, <2>2, Sizes, Aligned DEF Element
  <2>9. /\ Element(table.offset, TableSize) = p
        /\ Slot(Element(table.offset, TableSize), TableSize, TableSlots) = slot
    BY <2>3, <2>8
  <2>10. Lookups(o) =
           IF IsZero(table) THEN {result("ok", NoReference, cache)}
           ELSE IF cache[slot].image # NoImage /\ cache[slot].at = p
           THEN {result("ok", Tables[cache[slot].image][p][y], cache)}
           ELSE IF p \notin DOMAIN Tables[image] THEN {failure("error")}
           ELSE {result("ok", Tables[image][p][y],
                        [cache EXCEPT ![slot] = entry])}
                \cup IoFailure(failure("io_error"))
    <3>1. ~(Level1Index(o) >= Len(Level1[image]))
      BY <1>1, <1>3
    <3> DEFINE at == Element(table.offset, TableSize)
               place == Slot(at, TableSize, TableSlots)
    <3>2. Lookups(o) =
            IF IsZero(table) THEN {result("ok", NoReference, cache)}
            ELSE IF cache[place].image # NoImage /\ cache[place].at = at
            THEN {result("ok", Tables[cache[place].image][at][y], cache)}
            ELSE IF at \notin DOMAIN Tables[image] THEN {failure("error")}
            ELSE {result("ok", Tables[image][at][y],
                         [cache EXCEPT ![place] =
                            [image |-> image, at |-> at, size |-> TableSize,
                             key |-> Raw]])}
                 \cup IoFailure(failure("io_error"))
      BY <3>1, Zenon DEF Lookups
    <3>3. at = p /\ place = slot
      BY <2>9
    <3> HIDE DEF at, place, table, p, slot
    <3> QED
      BY <3>2, <3>3
  <2>4. slot \in 0..(TableSlots - 1)
    <3>1. p \div TableSize \in Nat
      BY <2>2, Sizes, Division
    <3> QED
      BY <3>1, Sizes, Division DEF Slot
  <2>5. HasReference(image, o) <=> p \in {0} \cup DOMAIN Tables[image]
    BY <1>1, <1>3 DEF HasReference
  <2>6. CASE p = 0
    <3>1. lookup = result("ok", NoReference, cache)
      BY <2>6, <2>8, <2>10
    <3>2. MediaReference(image, o) = NoReference
      BY <2>6 DEF MediaReference
    <3> QED
      BY <2>5, <2>6, <3>1, <3>2
  <2>7. CASE p # 0
    <3>1. MediaReference(image, o) = Tables[image][p][y]
      BY <1>1, <2>7 DEF MediaReference
    <3>2. ~IsZero(table)
      BY <2>7, <2>8
    <3> HIDE DEF p, table
    <3>3. CASE cache[slot].image # NoImage /\ cache[slot].at = p
      <4>1. lookup = result("ok", Tables[cache[slot].image][p][y], cache)
        BY <2>10, <3>2, <3>3
      <4>2. cache[slot] # Empty
        BY <3>3 DEF Empty
      <4>3. cache[slot].image = image /\ p \in DOMAIN Tables[image]
        BY <2>4, <3>3, <4>2 DEF TablesCached
      <4> QED
        BY <2>5, <3>1, <4>1, <4>3
    <3>4. CASE ~(cache[slot].image # NoImage /\ cache[slot].at = p)
               /\ p \notin DOMAIN Tables[image]
      <4>1. lookup = failure("error")
        BY <2>10, <3>2, <3>4
      <4> QED
        BY <2>5, <2>7, <3>4, <4>1
    <3>5. CASE ~(cache[slot].image # NoImage /\ cache[slot].at = p)
               /\ p \in DOMAIN Tables[image]
      <4> DEFINE new == [cache EXCEPT ![slot] = entry]
      <4>1. lookup \in {result("ok", Tables[image][p][y], new)}
                       \cup IoFailure(failure("io_error"))
        BY <2>10, <3>2, <3>5
      <4>2. CASE lookup = result("ok", Tables[image][p][y], new)
        <5>1. entry \in Blocks /\ entry.image = image /\ entry.at = p
          BY <2>2, Sizes DEF Blocks, Raw
        <5>2. new \in [0..(TableSlots - 1) -> Blocks]
          BY <5>1
        <5>3. image # NoImage
          BY Sizes
        <5>4. \A s \in 0..(TableSlots - 1) : new[s] = IF s = slot THEN entry ELSE cache[s]
          OBVIOUS
        <5> HIDE DEF new, entry
        <5>5. TablesCached(new)
          BY <3>5, <5>1, <5>3, <5>4 DEF TablesCached
        <5> QED
          BY <2>5, <3>1, <3>5, <4>2, <5>2, <5>5
      <4>3. CASE lookup = failure("io_error")
        BY <4>3
      <4> QED
        BY <4>1, <4>2, <4>3 DEF IoFailure
    <3> QED
      BY <3>3, <3>4, <3>5
  <2> QED
    BY <2>6, <2>7, <2>2
<1> QED
  BY <1>1, <1>2, <1>3

-----------------------------------------------------------------------------
(* Holes.                                                                  *)

(* A reference the loop takes for one of a cluster block of the file is.    *)
LEMMA NotSparse ==
  ASSUME image \in Images, MaskOfVersion3, NEW ref, WellWritten(image, ref),
         ~IsSparse(ref)
  PROVE  FlagFree(image, ref) # 0 /\ ~ZeroFlag(image, ref)
<1>1. ref \in Reference
  BY DEF WellWritten
<1>2. Masked(ref).offset = FlagFree(image, ref) /\ Masked(ref).size = ref.size
  BY <1>1, MaskedIs
<1>3. ~ZeroFlag(image, ref)
  BY ImageNumbers DEF MaskOfVersion3, ZeroFlag, IsSparse
<1>4. FlagFree(image, ref) # 0
  <2>1. SUFFICES ASSUME FlagFree(image, ref) = 0 PROVE FALSE
    OBVIOUS
  <2>2. ~ref.compressed /\ ref.size = 0
    BY <1>1, <2>1 DEF WellWritten, Reference
  <2> QED
    BY <1>2, <2>1, <2>2 DEF IsSparse, IsZero
<1> QED
  BY <1>3, <1>4

(* What the loop takes for a hole is one, has the zero flag, or is made one *)
(* by a mask that is that of another image.                                 *)
LEMMA SparseIsHole ==
  ASSUME image \in Images, NEW ref \in Reference, IsSparse(ref)
  PROVE  \/ FlagFree(image, ref) = 0
         \/ ZeroFlag(image, ref)
         \/ sparse_flag_bit_mask /\ Version[image] # 3 /\ ref.offset % 2 = 1
<1>1. Masked(ref).offset = FlagFree(image, ref) /\ Masked(ref).size = ref.size
  BY MaskedIs
<1> QED
  BY <1>1 DEF IsSparse, IsZero, ZeroFlag

(* The byte of a media offset whose cluster block is in the file.           *)
LEMMA ByteInFile ==
  ASSUME image \in Images, NEW o \in Nat, HasReference(image, o),
         LET ref == MediaReference(image, o)
         IN  FlagFree(image, ref) # 0 /\ ~ZeroFlag(image, ref)
  PROVE  LET ref == MediaReference(image, o)
             at == FlagFree(image, ref)
         IN  MediaByte(image, o) =
               IF ref.compressed
               THEN Byte("stream", image, at, o % ClusterSize, Raw)
               ELSE Byte("file", image, at + (o % ClusterSize), 0,
                         IF Encrypted[image] THEN o \div SectorSize ELSE Raw)
BY DEF MediaByte

(* Two media offsets that refer to one encrypted cluster block are in one   *)
(* cluster of the media.                                                    *)
LEMMA OnePlaceOfMedia ==
  ASSUME NEW i \in Images, Encrypted[i], NEW a \in Nat, NEW b \in Nat, NEW at,
         RefersTo(i, a, at), RefersTo(i, b, at)
  PROVE  a \div ClusterSize = b \div ClusterSize
<1> DEFINE r(o) == MediaReference(i, o)
           p(o) == FlagFree(i, TableReference(i, o))
           e(o) == <<p(o), Level2Index(o)>>
<1>1. \A o \in {a, b} :
        /\ HasReference(i, o) /\ ~ZeroFlag(i, r(o)) /\ FlagFree(i, r(o)) = at
        /\ at # 0 /\ o \in Nat
  BY DEF RefersTo
<1>2. \A o \in {a, b} : e(o) \in Entries(i) /\ r(o) = Entry(i, e(o)) /\ p(o) # 0
                        /\ r(o) \in Reference
  <2>1. SUFFICES ASSUME NEW o \in {a, b}
                 PROVE  /\ e(o) \in Entries(i) /\ r(o) = Entry(i, e(o))
                        /\ p(o) # 0 /\ r(o) \in Reference
    OBVIOUS
  <2>2. /\ WellWritten(i, r(o))
        /\ p(o) = 0 => r(o) = NoReference
        /\ p(o) # 0 => e(o) \in Entries(i) /\ r(o) = Entry(i, e(o))
    BY <1>1, <2>1, ReferenceOfMedia
  <2>3. p(o) # 0
    BY <1>1, <2>1, <2>2, NoReferenceWellWritten
  <2> QED
    BY <2>2, <2>3 DEF WellWritten
<1>3. \A o \in {a, b} : r(o).offset = at
  <2>1. SUFFICES ASSUME NEW o \in {a, b} PROVE r(o).offset = at
    OBVIOUS
  <2>2. r(o).offset \in Nat /\ ~(Version[i] = 3 /\ r(o).offset % 2 = 1)
        /\ FlagFree(i, r(o)) = at
    BY <1>1, <1>2, <2>1 DEF ZeroFlag, Reference
  <2> HIDE DEF r
  <2> QED
    BY <2>2 DEF FlagFree
<1>4. e(a) = e(b)
  BY <1>1, <1>2, <1>3, WellWrittenImages DEF WellWrittenImages
<1>5. p(a) = p(b) /\ Level2Index(a) = Level2Index(b)
  BY <1>4
<1>6. \A o \in {a, b} :
        /\ Level1Index(o) + 1 \in DOMAIN Level1[i]
        /\ TableReference(i, o) = Level1[i][Level1Index(o) + 1]
        /\ Level1Index(o) = (o \div ClusterSize) \div TableEntries
        /\ Level1Index(o) \in Nat
  <2>1. SUFFICES ASSUME NEW o \in {a, b}
                 PROVE  /\ Level1Index(o) + 1 \in DOMAIN Level1[i]
                        /\ TableReference(i, o) = Level1[i][Level1Index(o) + 1]
                        /\ Level1Index(o) = (o \div ClusterSize) \div TableEntries
                        /\ Level1Index(o) \in Nat
    OBVIOUS
  <2>2. /\ Level1Index(o) = (o \div ClusterSize) \div TableEntries
        /\ Level1Index(o) \in Nat
    BY <1>1, IndexOfOffset
  <2>3. Level1Index(o) < Len(Level1[i])
    BY <1>1, <2>2 DEF HasReference
  <2> QED
    BY <1>1, <2>2, <2>3, TableReferenceIs
<1>7. Level1Index(a) = Level1Index(b)
  <2>1. \A x, y \in DOMAIN Level1[i] :
          x # y /\ FlagFree(i, Level1[i][x]) # 0 =>
            FlagFree(i, Level1[i][x]) # FlagFree(i, Level1[i][y])
    BY WellWrittenImages DEF WellWrittenImages
  <2>2. Level1Index(a) + 1 = Level1Index(b) + 1
    BY <1>2, <1>5, <1>6, <2>1
  <2> QED
    BY <1>6, <2>2
<1>8. \A o \in {a, b} :
        o \div ClusterSize = (TableEntries * Level1Index(o)) + Level2Index(o)
  <2>1. SUFFICES ASSUME NEW o \in {a, b}
                 PROVE  o \div ClusterSize
                          = (TableEntries * Level1Index(o)) + Level2Index(o)
    OBVIOUS
  <2>2. o \div ClusterSize \in Nat
    BY <1>1, Sizes, Division
  <2> QED
    BY <1>6, <2>2, Sizes, Division DEF Level2Index
<1> QED
  BY <1>5, <1>7, <1>8

-----------------------------------------------------------------------------
(* Cluster blocks.                                                         *)

LEMMA LeastIs ==
  ASSUME NEW a \in Int, NEW b \in Int
  PROVE  Least(a, b) \in {a, b} /\ Least(a, b) <= a /\ Least(a, b) <= b
BY DEF Least

(* Where decryption fails the file ends in the middle of a sector, in the   *)
(* last cluster block of an image that is not of version 1.                 *)
LEMMA CutSector ==
  ASSUME NEW i \in Images, Encrypted[i], NEW at \in Nat, at % ClusterSize = 0,
         BlockSize(i, at) > 0, BlockSize(i, at) % SectorSize # 0
  PROVE  /\ Version[i] # 1
         /\ at + ClusterSize > FileSize[i]
         /\ FileSize[i] % SectorSize # 0
<1> DEFINE F == FileSize[i]
           cs == ClusterSize
           ss == SectorSize
<1>1. /\ cs \in Nat \ {0} /\ ss \in Nat \ {0} /\ F \in Nat
      /\ cs % ss = 0 /\ (Version[i] = 1 => F % ss = 0)
  BY Sizes, ImageNumbers, WellWrittenImages DEF WellWrittenImages
<1>2. BlockSize(i, at) = IF cs < F - at THEN cs ELSE F - at
  BY DEF BlockSize, Least
<1>3. ~(cs < F - at) /\ BlockSize(i, at) = F - at
  BY <1>1, <1>2
<1>4. at % ss = 0
  BY <1>1, AlignedToPart
<1>5. F - at \in Nat /\ F - at # cs /\ (F - at) % ss # 0
  BY <1>1, <1>3
<1>6. F % ss # 0
  <2>1. SUFFICES ASSUME F % ss = 0 PROVE FALSE
    OBVIOUS
  <2> DEFINE p == F \div ss
             q == at \div ss
  <2>2. p \in Nat /\ q \in Nat /\ F = ss * p /\ at = ss * q
    <3>1. F = (ss * p) + (F % ss) /\ p \in Nat
      BY <1>1, Division
    <3>2. at = (ss * q) + (at % ss) /\ q \in Nat
      BY <1>1, Division
    <3> HIDE DEF F, ss, p, q
    <3> QED
      BY <1>1, <1>4, <2>1, <3>1, <3>2
  <2> HIDE DEF F, cs, ss, p, q
  <2>3. F - at = (ss * (p - q)) + 0
    BY <1>1, <2>2
  <2>4. p - q \in Nat
    <3>1. ss * (p - q) >= 0 /\ p - q \in Int
      BY <1>1, <1>5, <2>2, <2>3
    <3>2. CASE p - q < 0
      <4>1. q - p \in Nat /\ q - p >= 1
        BY <2>2, <3>2
      <4>2. ss * (q - p) >= ss
        BY <1>1, <4>1
      <4>3. ss * (p - q) = -(ss * (q - p))
        BY <1>1, <2>2
      <4> QED
        BY <1>1, <3>1, <4>2, <4>3
    <3> QED
      BY <3>1, <3>2
  <2>5. 0 \in 0..(ss - 1)
    BY <1>1
  <2>6. (F - at) % ss = 0
    BY <1>1, <1>5, <2>3, <2>4, <2>5, DivisionUnique
  <2> QED
    BY <1>5, <2>6
<1> HIDE DEF F, cs, ss
<1>7. at + cs > F
  BY <1>1, <1>3, <1>5
<1>8. Version[i] # 1
  BY <1>1, <1>6
<1> QED
  BY <1>6, <1>7, <1>8 DEF F, cs, ss

(* The key of a cluster block that was decrypted is right for every offset  *)
(* that refers to it.                                                       *)
LEMMA KeyOfPlace ==
  ASSUME NEW i \in Images, Encrypted[i], NEW o \in Nat, NEW at, RefersTo(i, o, at)
  PROVE  \A a \in Nat : RefersTo(i, a, at) => FirstSector(o) = FirstSector(a)
<1> SUFFICES ASSUME NEW a \in Nat, RefersTo(i, a, at)
             PROVE  FirstSector(o) = FirstSector(a)
  OBVIOUS
<1>1. o \div ClusterSize = a \div ClusterSize
  BY OnePlaceOfMedia
<1>2. o - (o % ClusterSize) = a - (a % ClusterSize)
  BY <1>1, Sizes, ClusterStart
<1> QED
  BY <1>2 DEF FirstSector

(* A cluster block as it is read from the file, and what becomes of it when *)
(* it is decrypted for an offset that refers to it.                         *)
LEMMA NewPlainBlock ==
  ASSUME image \in Images, NEW o \in Nat, NEW at \in Nat, RefersTo(image, o, at),
         at % ClusterSize = 0, BlockSize(image, at) > 0
  PROVE  LET new == NewBlock(at, BlockSize(image, at))
             block == IF Encrypted[image] THEN Decrypted(new, o) ELSE new
         IN  /\ PlainBlock(block)
             /\ block.at = at
             /\ block.key = Garbage => Encrypted[image] /\ CutOff(image, o)
             /\ new.key = Raw
<1> DEFINE size == BlockSize(image, at)
           new == NewBlock(at, size)
           block == IF Encrypted[image] THEN Decrypted(new, o) ELSE new
<1>1. size \in Nat \ {0}
  BY Sizes, ImageNumbers DEF BlockSize, Least
<1>2. /\ new = [image |-> image, at |-> at, size |-> size, key |-> Raw]
      /\ image # NoImage
  BY Sizes DEF NewBlock
<1> HIDE DEF size, new
<1>3. new \in Blocks /\ new.image = image /\ new.at = at /\ new.size = size
      /\ new.key = Raw
  BY <1>1, <1>2 DEF Blocks, Raw
<1>4. CASE ~Encrypted[image]
  <2>1. block = new
    BY <1>4
  <2> QED
    BY <1>1, <1>2, <1>3, <1>4, <2>1 DEF PlainBlock, Raw, Garbage, new, size
<1>5. CASE Encrypted[image] /\ size % SectorSize # 0
  <2>1. block = [new EXCEPT !.key = Garbage]
    BY <1>3, <1>5 DEF Decrypted
  <2>2. /\ block \in Blocks /\ block.image = image /\ block.at = at
        /\ block.size = size /\ block.key = Garbage
    BY <1>3, <2>1 DEF Blocks, Garbage
  <2>3. /\ Version[image] # 1
        /\ at + ClusterSize > FileSize[image]
        /\ FileSize[image] % SectorSize # 0
    BY <1>1, <1>5, CutSector DEF size
  <2>4. PlainBlock(block)
    BY <1>1, <1>2, <1>5, <2>2, <2>3 DEF PlainBlock, size
  <2>5. CutOff(image, o)
    <3> DEFINE ref == MediaReference(image, o)
    <3>1. MediaByte(image, o) =
            Byte("file", image, at + (o % ClusterSize), 0, o \div SectorSize)
      BY <1>5, ByteInFile DEF RefersTo
    <3>2. MediaByte(image, o).from = "file"
          /\ MediaByte(image, o).at = at + (o % ClusterSize)
      BY <3>1 DEF Byte
    <3>3. o % ClusterSize \in Nat
      BY Sizes, Division
    <3>4. MediaByte(image, o).at - (o % ClusterSize) + ClusterSize
            = at + ClusterSize
      BY <3>2, <3>3, Sizes
    <3> QED
      BY <1>5, <2>3, <3>2, <3>4 DEF CutOff, RefersTo
  <2> QED
    BY <1>3, <1>5, <2>2, <2>4, <2>5 DEF new, size
<1>6. CASE Encrypted[image] /\ size % SectorSize = 0
  <2>1. block = [new EXCEPT !.key = FirstSector(o)]
    BY <1>3, <1>6 DEF Decrypted, FirstSector
  <2>2. FirstSector(o) \in Nat
    <3>1. o - (o % ClusterSize) \in Nat
      BY Sizes, ClusterStart
    <3> QED
      BY <3>1, Sizes, Division DEF FirstSector
  <2>3. /\ block \in Blocks /\ block.image = image /\ block.at = at
        /\ block.size = size /\ block.key = FirstSector(o)
    BY <1>3, <2>1, <2>2 DEF Blocks
  <2>4. \A a \in Nat : RefersTo(image, a, at) => FirstSector(o) = FirstSector(a)
    BY <1>6, KeyOfPlace
  <2>5. PlainBlock(block)
    BY <1>1, <1>2, <1>6, <2>2, <2>3, <2>4 DEF PlainBlock, size
  <2> QED
    BY <1>3, <1>6, <2>2, <2>3, <2>5 DEF Garbage, new, size
<1> QED
  BY <1>4, <1>5, <1>6 DEF new, size

(* What is read of a plain cluster block: one that is decrypted right, from *)
(* the file or from the cache, which stays as it should be.                 *)
LEMMA PlainBlocksAre ==
  ASSUME image \in Images, PlainCached(cluster_block_cache),
         cluster_block_cache \in [0..(BlockSlots - 1) -> Blocks],
         NEW o \in Nat, NEW ref \in Reference,
         RefersTo(image, o, ref.offset), ref.offset % ClusterSize = 0,
         NEW result \in PlainBlocks(ref, o)
  PROVE  /\ result.status \in {"ok", "error", "io_error"}
         /\ PlainCached(result.plain)
         /\ result.plain \in [0..(BlockSlots - 1) -> Blocks]
         /\ result.compressed = compressed_cluster_block_cache
         /\ result.status = "error" => CutOff(image, o)
         /\ result.status = "ok" =>
              /\ result.block.image = image /\ result.block.at = ref.offset
              /\ result.block.size = BlockSize(image, ref.offset)
              /\ result.block.size \in Nat
              /\ result.block.key = IF Encrypted[image] THEN FirstSector(o) ELSE Raw
<1> DEFINE at == ref.offset
           size == BlockSize(image, at)
           cache == cluster_block_cache
           slot == IF IsLast(ref) THEN (at % ClusterSize) % BlockSlots
                   ELSE Slot(at, ClusterSize, BlockSlots)
           hit == ~IsLast(ref) /\ cache[slot].image # NoImage /\ cache[slot].at = at
           got == IF hit THEN cache[slot] ELSE NewBlock(at, size)
           decrypts == Encrypted[image] /\ got.key = Raw
           block == IF decrypts THEN Decrypted(got, o) ELSE got
           status == IF decrypts /\ block.key = Garbage THEN "error" ELSE "ok"
           after == [cache EXCEPT ![slot] = block]
           read == BlockResult(status, block, after, compressed_cluster_block_cache)
           Good ==
             /\ PlainBlock(block) /\ block.at = at
             /\ status = "error" => CutOff(image, o)
             /\ status = "ok" => block.key # Garbage
<1>1. at \in Nat
  BY DEF Reference
<1>2. Element(at, ClusterSize) = at
  BY <1>1, Sizes, Aligned DEF Element
<1>3. PlainBlocks(ref, o) =
        IF hit THEN {read}
        ELSE IF size <= 0 THEN {BlockFailure("error")}
        ELSE {read} \cup IoFailure(BlockFailure("io_error"))
  <2> DEFINE place == IF IsLast(ref) THEN at ELSE Element(at, ClusterSize)
  <2>1. place = at
    BY <1>2
  <2> HIDE DEF place
  <2>2. PlainBlocks(ref, o) =
          LET sized == Least(ClusterSize, FileSize[image] - place)
              slotted == IF IsLast(ref) THEN (place % ClusterSize) % BlockSlots
                         ELSE Slot(place, ClusterSize, BlockSlots)
              found == /\ ~IsLast(ref) /\ cache[slotted].image # NoImage
                       /\ cache[slotted].at = place
              taken == IF found THEN cache[slotted] ELSE NewBlock(place, sized)
              opens == Encrypted[image] /\ taken.key = Raw
              made == IF opens THEN Decrypted(taken, o) ELSE taken
              end == IF opens /\ made.key = Garbage THEN "error" ELSE "ok"
              all == BlockResult(end, made, [cache EXCEPT ![slotted] = made],
                                 compressed_cluster_block_cache)
          IN  IF found THEN {all}
              ELSE IF sized <= 0 THEN {BlockFailure("error")}
              ELSE {all} \cup IoFailure(BlockFailure("io_error"))
    BY Zenon DEF PlainBlocks, place
  <2> QED
    BY <2>1, <2>2, Zenon DEF BlockSize
<1>4. slot \in 0..(BlockSlots - 1)
  <2>1. at % ClusterSize \in Nat /\ at \div ClusterSize \in Nat
    <3>1. at % ClusterSize \in 0..(ClusterSize - 1) /\ at \div ClusterSize \in Nat
      BY <1>1, Sizes, Division
    <3> HIDE DEF at
    <3> QED
      BY <3>1, Sizes
  <2>2. (at % ClusterSize) % BlockSlots \in 0..(BlockSlots - 1)
    BY <2>1, Sizes, Division
  <2>3. (at \div ClusterSize) % BlockSlots \in 0..(BlockSlots - 1)
    BY <2>1, Sizes, Division
  <2> QED
    BY <2>2, <2>3 DEF Slot
<1>5. ASSUME hit PROVE Good
  <2>1. cache[slot] # Empty
    BY <1>5 DEF Empty
  <2>2. PlainBlock(cache[slot]) /\ cache[slot].at = at
    BY <1>4, <1>5, <2>1 DEF PlainCached
  <2>3. got = cache[slot]
    BY <1>5
  <2>4. cache[slot].key # Garbage
    <3>1. ~(Version[image] # 1 /\ at + ClusterSize > FileSize[image])
      BY <1>5 DEF IsLast
    <3> QED
      BY <2>2, <3>1 DEF PlainBlock, Raw, Garbage
  <2>5. ~decrypts
    BY <2>2, <2>3, <2>4 DEF PlainBlock, Raw, Garbage
  <2>6. block = cache[slot] /\ status = "ok"
    BY <2>3, <2>5
  <2> QED
    BY <2>2, <2>4, <2>6
<1>6. ASSUME ~hit, size > 0 PROVE Good
  <2>1. got = NewBlock(at, size)
    BY <1>6
  <2> DEFINE new == NewBlock(at, size)
             made == IF Encrypted[image] THEN Decrypted(new, o) ELSE new
  <2>2. /\ PlainBlock(made) /\ made.at = at /\ new.key = Raw
        /\ made.key = Garbage => Encrypted[image] /\ CutOff(image, o)
    BY <1>1, <1>6, NewPlainBlock
  <2>3. decrypts <=> Encrypted[image]
    BY <2>1, <2>2
  <2>4. block = made
    BY <2>1, <2>3
  <2>5. made.key = Garbage => status = "error"
    BY <2>2, <2>3, <2>4
  <2>6. status = "error" => made.key = Garbage
    BY <2>4
  <2>7. status \in {"error", "ok"}
    OBVIOUS
  <2> HIDE DEF made, block, status
  <2> QED
    BY <2>2, <2>4, <2>5, <2>6
<1>7. ASSUME Good, result = read
      PROVE  /\ result.status \in {"ok", "error", "io_error"}
             /\ PlainCached(result.plain)
             /\ result.plain \in [0..(BlockSlots - 1) -> Blocks]
             /\ result.compressed = compressed_cluster_block_cache
             /\ result.status = "error" => CutOff(image, o)
             /\ result.status = "ok" =>
                  /\ result.block.image = image /\ result.block.at = ref.offset
                  /\ result.block.size = BlockSize(image, ref.offset)
                  /\ result.block.size \in Nat
                  /\ result.block.key =
                       IF Encrypted[image] THEN FirstSector(o) ELSE Raw
  <2>1. status \in {"ok", "error"}
    OBVIOUS
  <2> HIDE DEF block, status
  <2>2. block \in Blocks
    BY <1>7 DEF PlainBlock
  <2>3. after \in [0..(BlockSlots - 1) -> Blocks]
    BY <2>2
  <2>4. \A s \in 0..(BlockSlots - 1) : after[s] = IF s = slot THEN block ELSE cache[s]
    OBVIOUS
  <2> HIDE DEF slot, after
  <2>5. PlainCached(after)
    BY <1>7, <2>4 DEF PlainCached
  <2>6. /\ result.status = status /\ result.plain = after /\ result.block = block
        /\ result.compressed = compressed_cluster_block_cache
    BY <1>7 DEF BlockResult
  <2>7. ASSUME status = "ok"
        PROVE  /\ block.image = image /\ block.at = at
               /\ block.size = BlockSize(image, at)
               /\ block.size \in Nat
               /\ block.key = IF Encrypted[image] THEN FirstSector(o) ELSE Raw
    BY <1>7, <2>2, <2>7 DEF PlainBlock, Blocks
  <2> QED
    BY <1>7, <2>1, <2>3, <2>5, <2>6, <2>7
<1>8. ASSUME NEW s \in {"error", "io_error"}, result = BlockFailure(s)
      PROVE  /\ result.status = s
             /\ result.plain = cluster_block_cache
             /\ result.compressed = compressed_cluster_block_cache
  BY <1>8 DEF BlockFailure, BlockResult
<1>9. CASE ~hit /\ size <= 0
  <2>1. result = BlockFailure("error")
    BY <1>3, <1>9
  <2>2. CutOff(image, o)
    <3>1. size = FileSize[image] - at /\ FileSize[image] <= at
      BY <1>1, <1>9, Sizes, ImageNumbers DEF BlockSize, Least
    <3>2. o % ClusterSize \in Nat
      BY Sizes, Division
    <3>3. MediaByte(image, o) =
            Byte("file", image, at + (o % ClusterSize), 0,
                 IF Encrypted[image] THEN o \div SectorSize ELSE Raw)
      BY ByteInFile DEF RefersTo
    <3>4. MediaByte(image, o).from = "file"
          /\ MediaByte(image, o).at = at + (o % ClusterSize)
      BY <3>3 DEF Byte
    <3>5. at + (o % ClusterSize) >= FileSize[image]
      BY <1>1, <3>1, <3>2, ImageNumbers
    <3> QED
      BY <3>4, <3>5 DEF CutOff, RefersTo
  <2> QED
    BY <1>8, <2>1, <2>2
<1>10. size \in Int
  BY <1>1, Sizes, ImageNumbers DEF BlockSize, Least
<1> HIDE DEF Good, read, hit, size
<1>11. CASE hit
  BY <1>3, <1>5, <1>7, <1>11
<1>12. CASE ~hit /\ size > 0
  <2>1. result = read \/ result = BlockFailure("io_error")
    BY <1>3, <1>10, <1>12 DEF IoFailure
  <2> QED
    BY <1>6, <1>7, <1>8, <1>12, <2>1
<1> QED
  BY <1>9, <1>10, <1>11, <1>12

(* What is inflated is the stream of the reference; it fails only where the *)
(* stream does not fit the file, or what is read of it.                     *)
LEMMA CompressedBlocksAre ==
  ASSUME image \in Images, CompressedCached(compressed_cluster_block_cache),
         compressed_cluster_block_cache \in [0..(BlockSlots - 1) -> Blocks],
         NEW o \in Nat, NEW ref \in Reference, HasReference(image, o),
         MediaReference(image, o).compressed,
         ~ZeroFlag(image, MediaReference(image, o)),
         ref = [MediaReference(image, o) EXCEPT
                  !.compressed = FALSE, !.copied = FALSE,
                  !.offset = FlagFree(image, MediaReference(image, o))],
         NEW result \in CompressedBlocks(ref)
  PROVE  /\ result.status \in {"ok", "error", "io_error"}
         /\ CompressedCached(result.compressed)
         /\ result.compressed \in [0..(BlockSlots - 1) -> Blocks]
         /\ result.plain = cluster_block_cache
         /\ result.status = "error" => StreamCutOff(image, o)
         /\ result.status = "ok" =>
              /\ result.block.image = image /\ result.block.at = ref.offset
              /\ result.block.size = ClusterSize
<1> DEFINE at == ref.offset
           size == CompressedSize(ref)
           cache == compressed_cluster_block_cache
           block == NewBlock(at, ClusterSize)
           slot == (at % ClusterSize) % BlockSlots
           after == [cache EXCEPT ![slot] = block]
           m == MediaReference(image, o)
           F == FileSize[image]
           T == StreamSize[image][at]
<1>1. WellWritten(image, m)
  BY ReferenceOfMedia
<1>2. /\ m \in Reference /\ ref.size = m.size /\ at = FlagFree(image, m)
      /\ at > 0 /\ at \in DOMAIN StreamSize[image]
      /\ Version[image] = 1 => m.size > 0
  BY <1>1 DEF WellWritten, Reference
<1>3. at \in Nat /\ m.size \in Nat /\ F \in Nat
  BY <1>2, ImageNumbers DEF Reference
<1>4. T \in Nat /\ T > 0 /\ T <= ClusterSize
  BY <1>2, Sizes, WellWrittenImages DEF WellWrittenImages
<1>5. slot \in 0..(BlockSlots - 1)
  <2>1. at % ClusterSize \in 0..(ClusterSize - 1)
    BY <1>3, Sizes, Division
  <2> DEFINE k == at % ClusterSize
  <2>2. k \in Nat
    BY <2>1, Sizes
  <2> HIDE DEF k
  <2>3. k % BlockSlots \in 0..(BlockSlots - 1)
    BY <2>2, Sizes, Division
  <2> QED
    BY <2>3 DEF k
<1>6. block \in Blocks /\ block.image = image /\ block.at = at
      /\ block.size = ClusterSize /\ image # NoImage
  BY <1>3, Sizes DEF NewBlock, Blocks, Raw
<1>7. after \in [0..(BlockSlots - 1) -> Blocks] /\ CompressedCached(after)
  <2> HIDE DEF block
  <2>1. after \in [0..(BlockSlots - 1) -> Blocks]
    BY <1>6
  <2>2. \A s \in 0..(BlockSlots - 1) : after[s] = IF s = slot THEN block ELSE cache[s]
    OBVIOUS
  <2> HIDE DEF after, slot
  <2> QED
    BY <1>6, <2>1, <2>2 DEF CompressedCached
<1>8. ASSUME at + size > F \/ size < T
      PROVE  StreamCutOff(image, o)
  <2>1. MediaByte(image, o) = Byte("stream", image, at, o % ClusterSize, Raw)
    BY <1>2, ByteInFile
  <2>2. MediaByte(image, o).from = "stream"
    BY <2>1 DEF Byte
  <2>3. \/ at + T > F
        \/ Version[image] = 1 /\ at + m.size > F
        \/ T > IF Version[image] = 1 THEN m.size ELSE (m.size + 1) * SectorSize
    <3>1. CASE Version[image] = 1
      <4>1. size = m.size
        BY <1>2, <3>1 DEF CompressedSize
      <4> QED
        BY <1>8, <3>1, <4>1
    <3>2. CASE Version[image] # 1
      <4> DEFINE q == (at + ClusterSize - 1) \div ClusterSize
                 next == (q + 1) * ClusterSize
                 sectors == (m.size + 1) * SectorSize
      <4>1. q \in Nat /\ (q * ClusterSize) + ClusterSize > at + ClusterSize - 1
        <5> DEFINE a == at + ClusterSize - 1
        <5>1. a \in Nat
          BY <1>3, Sizes
        <5> HIDE DEF a
        <5>2. /\ a \div ClusterSize \in Nat /\ a % ClusterSize \in 0..(ClusterSize - 1)
              /\ a = (ClusterSize * (a \div ClusterSize)) + (a % ClusterSize)
          BY <5>1, Sizes, Division
        <5> DEFINE d == a \div ClusterSize
                   r == a % ClusterSize
        <5> HIDE DEF d, r
        <5>3. d \in Nat /\ r \in 0..(ClusterSize - 1) /\ a = (ClusterSize * d) + r
          BY <5>2 DEF d, r
        <5>4. (d * ClusterSize) + ClusterSize > a
          BY <5>1, <5>3, Sizes
        <5> QED
          BY <5>3, <5>4 DEF d, a
      <4> HIDE DEF q
      <4>2. next >= at + ClusterSize /\ next \in Nat
        <5> DEFINE c == ClusterSize
        <5>1. c \in Nat /\ c > 0
          BY Sizes
        <5> HIDE DEF c, at
        <5>2. next = (q * c) + c /\ q * c \in Nat
          BY <4>1, <5>1 DEF c
        <5>3. (q * c) + c > at + c - 1
          BY <4>1 DEF c
        <5> DEFINE qc == q * c
        <5> HIDE DEF qc, next
        <5>4. next = qc + c /\ qc \in Nat /\ qc + c > at + c - 1
          BY <5>2, <5>3 DEF qc
        <5>5. next >= at + c /\ next \in Nat
          BY <1>3, <5>1, <5>4
        <5> QED
          BY <5>5 DEF c
      <4>3. sectors \in Nat
        BY <1>3, Sizes
      <4>4. size = Least(sectors, Least(next, F) - at)
        BY <1>2, <3>2 DEF CompressedSize, StreamEnd, q
      <4> HIDE DEF next, sectors, F, T, size, at
      <4>5. CASE F <= next
        <5>1. Least(next, F) = F
          BY <1>3, <4>2, <4>5 DEF Least
        <5>2. size = IF sectors < F - at THEN sectors ELSE F - at
          BY <4>4, <5>1 DEF Least
        <5>3. at + T > F \/ T > sectors
          BY <1>3, <1>4, <1>8, <4>3, <5>2
        <5> QED
          BY <3>2, <5>3 DEF sectors
      <4>6. CASE next < F
        <5>1. Least(next, F) = next
          BY <4>6 DEF Least
        <5>2. size = IF sectors < next - at THEN sectors ELSE next - at
          BY <4>4, <5>1 DEF Least
        <5>3. T > sectors
          BY <1>3, <1>4, <1>8, <4>2, <4>3, <4>6, <5>2, Sizes
        <5> QED
          BY <3>2, <5>3 DEF sectors
      <4> QED
        BY <1>3, <4>2, <4>5, <4>6
    <3> QED
      BY <3>1, <3>2
  <2> QED
    BY <1>2, <2>2, <2>3 DEF StreamCutOff
<1>9. \/ result = BlockFailure("error") /\ (at + size > F \/ size < T)
      \/ result = BlockResult("ok", block, cluster_block_cache, after)
      \/ result = BlockFailure("io_error")
  <2> HIDE DEF size, F, T, block, after
  <2> QED
    BY DEF CompressedBlocks, IoFailure, size, F, T, block, after
<1> HIDE DEF size, F, T, block, after
<1>10. CASE result = BlockFailure("error") /\ (at + size > F \/ size < T)
  BY <1>8, <1>10 DEF BlockFailure, BlockResult
<1>11. CASE result = BlockFailure("io_error")
  BY <1>11 DEF BlockFailure, BlockResult
<1>12. CASE result = BlockResult("ok", block, cluster_block_cache, after)
  BY <1>6, <1>7, <1>12 DEF BlockResult
<1> QED
  BY <1>9, <1>10, <1>11, <1>12

(* A byte of a cluster block that was read is the one of the media.         *)
LEMMA BytesOfStream ==
  ASSUME image \in Images, NEW o \in Nat, HasReference(image, o),
         MediaReference(image, o).compressed,
         ~ZeroFlag(image, MediaReference(image, o)),
         NEW block, block.image = image,
         block.at = FlagFree(image, MediaReference(image, o)),
         NEW k \in Nat, (o % ClusterSize) + k < ClusterSize
  PROVE  BlockByte(TRUE, block, (o % ClusterSize) + k) = MediaByte(image, o + k)
<1> DEFINE m == MediaReference(image, o)
<1>1. MediaReference(image, o + k) = m
  BY ReferenceOfCluster
<1>2. (o + k) % ClusterSize = (o % ClusterSize) + k
  BY Sizes, InOneCluster
<1>3. FlagFree(image, m) # 0
  <2>1. WellWritten(image, m)
    BY ReferenceOfMedia
  <2> QED
    BY <2>1, FlagFreeType DEF WellWritten
<1>4. MediaByte(image, o + k)
        = Byte("stream", image, FlagFree(image, m), (o % ClusterSize) + k, Raw)
  BY <1>1, <1>2, <1>3 DEF MediaByte
<1> QED
  BY <1>4 DEF BlockByte

LEMMA BytesOfBlock ==
  ASSUME image \in Images, NEW o \in Nat, NEW at, RefersTo(image, o, at),
         NEW block, block.image = image, block.at = at, at \in Nat,
         block.key = IF Encrypted[image] THEN FirstSector(o) ELSE Raw,
         NEW k \in Nat, (o % ClusterSize) + k < ClusterSize
  PROVE  BlockByte(FALSE, block, (o % ClusterSize) + k) = MediaByte(image, o + k)
<1> DEFINE m == MediaReference(image, o)
           r == o % ClusterSize
           b == o - r
<1>1. MediaReference(image, o + k) = m
  BY ReferenceOfCluster
<1>2. (o + k) % ClusterSize = r + k
  BY Sizes, InOneCluster
<1>3. MediaByte(image, o + k)
        = Byte("file", image, at + (r + k), 0,
               IF Encrypted[image] THEN (o + k) \div SectorSize ELSE Raw)
  BY <1>1, <1>2 DEF MediaByte, RefersTo
<1>4. r \in Nat /\ b \in Nat /\ b % ClusterSize = 0 /\ b + (r + k) = o + k
  <2>1. r \in 0..(ClusterSize - 1)
    BY Sizes, Division
  <2>2. b \in Nat /\ b % ClusterSize = 0
    BY Sizes, ClusterStart
  <2>3. b = o - r
    OBVIOUS
  <2> HIDE DEF b, r
  <2>4. r \in Nat
    BY <2>1, Sizes
  <2>5. b + (r + k) = o + k
    BY <2>2, <2>3, <2>4
  <2> QED
    BY <2>2, <2>4, <2>5
<1>5. CASE ~Encrypted[image]
  BY <1>3, <1>4, <1>5 DEF BlockByte, Raw
<1>6. CASE Encrypted[image]
  <2>1. ClusterSize % SectorSize = 0
    BY <1>6, WellWrittenImages DEF WellWrittenImages
  <2>2. b % SectorSize = 0
    BY <1>4, <2>1, Sizes, AlignedToPart
  <2> HIDE DEF b, r
  <2>3. r + k \in Nat
    BY <1>4
  <2>4. (b + (r + k)) \div SectorSize = (b \div SectorSize) + ((r + k) \div SectorSize)
    <3>1. \A x, y \in Nat : x % SectorSize = 0 =>
            (x + y) \div SectorSize = (x \div SectorSize) + (y \div SectorSize)
      <4>1. \A x, y \in Nat, s \in Nat \ {0} : x % s = 0 =>
              (x + y) \div s = (x \div s) + (y \div s)
        BY SectorsOfCluster
      <4>2. SectorSize \in Nat \ {0}
        BY Sizes
      <4> QED
        BY <4>1, <4>2
    <3> QED
      BY <1>4, <2>2, <2>3, <3>1
  <2>5. b \div SectorSize \in Nat
    BY <1>4, Sizes, Division
  <2>6. block.key = b \div SectorSize
    BY <1>6 DEF FirstSector, b, r
  <2>7. (o + k) \div SectorSize = block.key + ((r + k) \div SectorSize)
    BY <1>4, <2>4, <2>6
  <2>8. ~(block.key < 0)
    BY <2>5, <2>6
  <2>9. BlockByte(FALSE, block, r + k)
          = Byte("file", image, at + (r + k), 0,
                 block.key + ((r + k) \div SectorSize))
    BY <1>4, <2>8 DEF BlockByte
  <2> QED
    BY <1>3, <1>6, <2>7, <2>9 DEF r
<1> QED
  BY <1>5, <1>6

-----------------------------------------------------------------------------
(* What a round does to the read.                                          *)

ReadTypeOK ==
  /\ current_offset \in Nat
  /\ buffer_size \in Nat
  /\ buffer \in Seq(Bytes)
  /\ Len(buffer) <= buffer_size
  /\ outcome \in Outcomes

ReadKept ==
  /\ ReadTypeOK
  /\ ReadInv
  /\ ReadsMedia
  /\ OnlyDamageFails
  /\ ReadComplete

(* Why the library may find fault with a read at the offset. *)
AtFault(o) ==
  \/ Backing[image] /\ parent_file = NoImage
  \/ ~HasReference(image, o)
  \/ CutOff(image, o)
  \/ EncryptedStream(image, o)
  \/ StreamCutOff(image, o)
  \/ /\ parent_file # NoImage
     /\ MediaByte(image, o).from = "parent" \/ Misread(o)
     /\ o + ClusterSize > ParentSize

(* What a read may deliver for the media offset. *)
RightByte(byte, o) ==
  \/ byte = MediaByte(image, o)
  \/ Misread(o) /\ byte \in {ZeroByte, ParentByte(parent_file, o)}

(* A round has something to read: no more than is left of the cluster, of   *)
(* the media and of what was asked for.                                     *)
LEMMA ReadSizeIs ==
  ASSUME image \in Images, ReadTypeOK, ReadInv, outcome = "reading"
  PROVE  LET o == current_offset
             n == ReadSize(o)
         IN  /\ n \in Nat /\ n > 0
             /\ (o % ClusterSize) + n <= ClusterSize
             /\ o + n <= MediaSize[image]
             /\ Len(buffer) + n <= buffer_size
<1> DEFINE o == current_offset
           a == ClusterSize - (o % ClusterSize)
           b == MediaSize[image] - o
           c == buffer_size - Len(buffer)
<1>1. o % ClusterSize \in 0..(ClusterSize - 1)
  BY Sizes, Division DEF ReadTypeOK
<1> DEFINE r == o % ClusterSize
<1> HIDE DEF r
<1>2. a \in Nat /\ a > 0 /\ r + a = ClusterSize
  BY <1>1, Sizes DEF r
<1>3. b \in Nat /\ b > 0 /\ o + b = MediaSize[image]
  BY ImageNumbers DEF ReadTypeOK, ReadInv
<1>4. c \in Nat /\ c > 0 /\ Len(buffer) + c = buffer_size /\ Len(buffer) \in Nat
  BY DEF ReadTypeOK, ReadInv
<1>5. ReadSize(o) = Least(Least(a, b), c)
  BY DEF ReadSize
<1> HIDE DEF a, b, c
<1>6. ReadSize(o) \in {a, b, c} /\ ReadSize(o) <= a /\ ReadSize(o) <= b
      /\ ReadSize(o) <= c
  BY <1>2, <1>3, <1>4, <1>5 DEF Least
<1> DEFINE n == ReadSize(o)
           len == Len(buffer)
<1> HIDE DEF n, len
<1>7. n \in Nat /\ n > 0 /\ n <= a /\ n <= b /\ n <= c
  BY <1>2, <1>3, <1>4, <1>6 DEF n
<1>8. r + n <= ClusterSize
  BY <1>1, <1>2, <1>7, Sizes DEF r
<1>9. o + n <= MediaSize[image]
  BY <1>3, <1>7 DEF ReadTypeOK
<1>10. len + n <= buffer_size
  BY <1>4, <1>7 DEF len
<1> QED
  BY <1>7, <1>8, <1>9, <1>10 DEF n, len, r

(* A step that leaves the session alone leaves what is said of it alone. *)
LEMMA SessionStays ==
  ASSUME UNCHANGED session
  PROVE  /\ \A o : AtFault(o)' = AtFault(o)
         /\ \A o : MediaByte(image, o)' = MediaByte(image, o)
         /\ \A o : CutOff(image, o)' = CutOff(image, o)
         /\ \A o : Misread(o)' = Misread(o)
         /\ parent_file' = parent_file
<1>1. image' = image /\ parent_file' = parent_file
      /\ sparse_flag_bit_mask' = sparse_flag_bit_mask
  BY DEF session
<1>2. \A o : Misread(o)' = Misread(o)
  BY <1>1 DEF Misread, HoleOfStaleParent, ZeroFlagOverParent, OddOffsetUnderMask,
              HasReference, MediaReference, TableReference, FlagFree, ZeroFlag
<1>3. \A o : MediaByte(image, o)' = MediaByte(image, o)
  BY <1>1 DEF MediaByte
<1>4. \A o : CutOff(image, o)' = CutOff(image, o)
  BY <1>1, <1>3 DEF CutOff
<1>5. \A o : StreamCutOff(image, o)' = StreamCutOff(image, o)
  BY <1>1, <1>3 DEF StreamCutOff
<1>6. \A o : AtFault(o)' = AtFault(o)
  BY <1>1, <1>2, <1>3, <1>4, <1>5 DEF AtFault
<1> QED
  BY <1>1, <1>2, <1>3, <1>4, <1>6

(* An error that is the image's fault, or the one of what it is read from.  *)
LEMMA ErrorKeeps ==
  ASSUME image \in Images, ReadKept, outcome = "reading",
         NEW status \in {"error", "io_error"}, ReadError(status),
         status = "error" => AtFault(current_offset)
  PROVE  ReadKept'
<1>1. /\ UNCHANGED session /\ current_offset' = current_offset
      /\ buffer_size' = buffer_size /\ buffer' = buffer /\ outcome' = status
  BY DEF ReadError
<1>2. image' = image /\ parent_file' = parent_file
  BY <1>1 DEF session
<1>3. ReadTypeOK'
  BY <1>1 DEF ReadKept, ReadTypeOK, Outcomes
<1>4. ReadInv'
  BY <1>1, <1>2, ImageNumbers DEF ReadKept, ReadInv
<1>5. ReadComplete'
  BY <1>1 DEF ReadComplete
<1>6. ReadsMedia'
  BY <1>1, SessionStays DEF ReadKept, ReadsMedia
<1>7. OnlyDamageFails'
  <2>1. status = "error" => AtFault(current_offset)'
    BY <1>1, <1>2, SessionStays DEF AtFault
  <2> QED
    BY <1>1, <2>1 DEF OnlyDamageFails, AtFault
<1> QED
  BY <1>3, <1>4, <1>5, <1>6, <1>7 DEF ReadKept

(* Bytes of the media that follow those that were read.                     *)
LEMMA DeliverKeeps ==
  ASSUME image \in Images, ReadKept, outcome = "reading",
         NEW bytes \in Seq(Bytes), Deliver(bytes),
         Len(bytes) <= ReadSize(current_offset),
         Len(bytes) = 0 => CutOff(image, current_offset),
         \A j \in 1..Len(bytes) : RightByte(bytes[j], current_offset + j - 1)
  PROVE  ReadKept'
<1> DEFINE o == current_offset
           n == Len(bytes)
           g == Len(buffer)
<1>1. /\ UNCHANGED session /\ current_offset' = o + n
      /\ buffer_size' = buffer_size /\ buffer' = buffer \o bytes
      /\ outcome' = IF n = 0 \/ g + n >= buffer_size \/ o + n >= MediaSize[image]
                    THEN "ok" ELSE "reading"
  BY DEF Deliver
<1>2. /\ image' = image /\ parent_file' = parent_file
  BY <1>1 DEF session
<1>3. /\ o \in Nat /\ n \in Nat /\ g \in Nat /\ buffer_size \in Nat
      /\ o + n <= MediaSize[image] /\ g + n <= buffer_size /\ g <= o
      /\ MediaSize[image] \in Nat
  <2>1. /\ ReadSize(o) \in Nat /\ o + ReadSize(o) <= MediaSize[image]
        /\ g + ReadSize(o) <= buffer_size
    BY ReadSizeIs DEF ReadKept
  <2>2. /\ o \in Nat /\ n \in Nat /\ g \in Nat /\ buffer_size \in Nat /\ g <= o
        /\ MediaSize[image] \in Nat /\ n <= ReadSize(o)
    BY ImageNumbers DEF ReadKept, ReadTypeOK, ReadInv
  <2> DEFINE s == ReadSize(o)
  <2> HIDE DEF s, n, g
  <2> QED
    BY <2>1, <2>2 DEF s
<1>4. buffer' \in Seq(Bytes) /\ Len(buffer') = g + n
  BY <1>1 DEF ReadKept, ReadTypeOK
<1> HIDE DEF n, g
<1>5. ReadTypeOK'
  BY <1>1, <1>3, <1>4 DEF ReadTypeOK, Outcomes
<1>6. ReadInv'
  <2>1. outcome' = "reading" =>
          current_offset' < MediaSize[image] /\ Len(buffer') < buffer_size'
    BY <1>1, <1>3, <1>4
  <2>2. Len(buffer') <= current_offset'
    BY <1>1, <1>3, <1>4
  <2>3. image # NoImage /\ (Backing[image] => parent_file # NoImage)
    BY ImageNumbers DEF ReadKept, ReadInv
  <2> QED
    BY <1>2, <2>1, <2>2, <2>3 DEF ReadInv
<1>7. ReadComplete'
  <2>1. SUFFICES ASSUME outcome' = "ok"
                 PROVE  \/ Len(buffer') = buffer_size'
                        \/ current_offset' >= MediaSize[image]
                        \/ CutOff(image, current_offset)'
    BY <1>2 DEF ReadComplete
  <2>2. CASE n = 0
    <3>1. CutOff(image, o) /\ current_offset' = o
      BY <1>1, <1>3, <2>2 DEF n
    <3> QED
      BY <1>1, <1>2, <3>1, SessionStays DEF CutOff
  <2>3. CASE n # 0
    BY <1>1, <1>3, <1>4, <2>1, <2>3
  <2> QED
    BY <2>2, <2>3
<1>8. ReadsMedia'
  <2>1. \A j \in 1..g : RightByte(buffer[j], o - g + j - 1)
    BY DEF ReadKept, ReadsMedia, RightByte, g
  <2>2. \A j \in 1..n : RightByte(bytes[j], o + j - 1)
    BY DEF n
  <2>3. ASSUME NEW j \in 1..(g + n)
        PROVE  RightByte(buffer'[j], (o + n) - (g + n) + j - 1)
    <3>1. CASE j <= g
      <4>1. buffer'[j] = buffer[j]
        BY <1>1, <2>3, <3>1 DEF ReadKept, ReadTypeOK, g
      <4>2. j \in 1..g /\ (o + n) - (g + n) + j - 1 = o - g + j - 1
        BY <1>3, <2>3, <3>1
      <4> QED
        BY <2>1, <4>1, <4>2
    <3>2. CASE j > g
      <4>1. buffer'[j] = bytes[j - g]
        BY <1>1, <1>3, <2>3, <3>2 DEF ReadKept, ReadTypeOK, g, n
      <4>2. j - g \in 1..n /\ (o + n) - (g + n) + j - 1 = o + (j - g) - 1
        BY <1>3, <2>3, <3>2
      <4> QED
        BY <2>2, <4>1, <4>2
    <3> QED
      BY <1>3, <2>3, <3>1, <3>2
  <2> QED
    BY <1>1, <1>4, <2>3, SessionStays DEF ReadsMedia, RightByte
<1>9. OnlyDamageFails'
  BY <1>1 DEF OnlyDamageFails
<1> QED
  BY <1>5, <1>6, <1>7, <1>8, <1>9 DEF ReadKept

(* The bytes of the media. *)
LEMMA MediaByteType ==
  ASSUME image \in Images, parent_file \in Images \cup {NoImage}, NEW o \in Nat,
         HasReference(image, o)
  PROVE  MediaByte(image, o) \in Bytes
<1> DEFINE ref == MediaReference(image, o)
           at == FlagFree(image, ref)
           r == o % ClusterSize
           sector == IF Encrypted[image] THEN o \div SectorSize ELSE Raw
<1>1. at \in Nat
  BY ReferenceOfMedia, FlagFreeType DEF WellWritten
<1>2. r \in Nat
  BY Sizes, Division
<1>3. sector \in Int
  <2>1. o \div SectorSize \in Nat
    BY Sizes, Division
  <2> QED
    BY <2>1 DEF Raw
<1>4. \/ MediaByte(image, o) = ParentByte(image, o)
      \/ MediaByte(image, o) = ZeroByte
      \/ MediaByte(image, o) = Byte("stream", image, at, r, Raw)
      \/ MediaByte(image, o) = Byte("file", image, at + r, 0, sector)
  BY DEF MediaByte
<1> HIDE DEF at, r, sector
<1> QED
  BY <1>1, <1>2, <1>3, <1>4 DEF ParentByte, ZeroByte, Byte, Bytes, Raw

(* What the cluster block caches are after a step, by the image before it.  *)
BlocksKept(plain, compressed) ==
  /\ plain \in [0..(BlockSlots - 1) -> Blocks]
  /\ compressed \in [0..(BlockSlots - 1) -> Blocks]
  /\ PlainCached(plain)
  /\ CompressedCached(compressed)

(* The first bytes of the cluster of an offset have its reference. *)
LEMMA HasReferenceOfCluster ==
  ASSUME NEW i \in Images, NEW o \in Nat, NEW k \in Nat, HasReference(i, o),
         (o % ClusterSize) + k < ClusterSize
  PROVE  HasReference(i, o + k)
<1>1. (o + k) \div ClusterSize = o \div ClusterSize
  BY Sizes, InOneCluster
<1> QED
  BY <1>1 DEF HasReference, TableReference

(* A round that finds its cluster block in the file. *)
LEMMA ClusterBlockRound ==
  ASSUME image \in Images, parent_file \in Images \cup {NoImage}, MaskOfVersion3, ReadKept,
         outcome = "reading",
         BlocksKept(cluster_block_cache, compressed_cluster_block_cache),
         HasReference(image, current_offset),
         NEW ref, ref = MediaReference(image, current_offset), ~IsSparse(ref),
         ReadClusterBlock(ref, current_offset)
  PROVE  /\ ReadKept' /\ UNCHANGED session
         /\ BlocksKept(cluster_block_cache', compressed_cluster_block_cache')
<1> DEFINE o == current_offset
           at == o % ClusterSize
           place == FlagFree(image, ref)
           masked == Masked(ref)
           results == IF ref.compressed THEN CompressedBlocks(masked)
                      ELSE PlainBlocks(masked, o)
<1>1. /\ WellWritten(image, ref) /\ ref \in Reference /\ o \in Nat
  BY ReferenceOfMedia DEF ReadKept, ReadTypeOK, WellWritten
<1>2. /\ place # 0 /\ ~ZeroFlag(image, ref) /\ place \in Nat
  BY <1>1, NotSparse, FlagFreeType
<1>3. /\ masked = [ref EXCEPT !.compressed = FALSE, !.copied = FALSE,
                              !.offset = place]
      /\ masked \in Reference /\ masked.offset = place
  <2>1. masked = [ref EXCEPT !.compressed = FALSE, !.copied = FALSE,
                             !.offset = place]
    BY <1>1 DEF Masked, FlagFree, Reference
  <2> HIDE DEF masked, place
  <2> QED
    BY <1>1, <1>2, <2>1 DEF Reference
<1>4. at \in 0..(ClusterSize - 1) /\ at \in Nat /\ at < ClusterSize
  <2>1. at \in 0..(ClusterSize - 1)
    BY <1>1, Sizes, Division
  <2> HIDE DEF at
  <2> QED
    BY <2>1, Sizes
<1>5. PICK result \in results :
        /\ cluster_block_cache' = result.plain
        /\ compressed_cluster_block_cache' = result.compressed
        /\ IF result.status # "ok" THEN ReadError(result.status)
           ELSE IF at > result.block.size THEN ReadError("error")
           ELSE Deliver([j \in 1..Least(ReadSize(o), result.block.size - at) |->
                           BlockByte(ref.compressed, result.block, at + j - 1)])
  BY Zenon DEF ReadClusterBlock
<1> DEFINE block == result.block
           n == Least(ReadSize(o), block.size - at)
           bytes == [j \in 1..n |-> BlockByte(ref.compressed, block, at + j - 1)]
<1>6. /\ result.status \in {"ok", "error", "io_error"}
      /\ BlocksKept(result.plain, result.compressed)
      /\ result.status = "error" => AtFault(o)
      /\ result.status = "ok" =>
           /\ block.size \in Nat
           /\ block.size = ClusterSize \/ CutOff(image, o) \/ block.size > at
           /\ \A k \in Nat : at + k < ClusterSize =>
                BlockByte(ref.compressed, block, at + k) = MediaByte(image, o + k)
  <2>1. CASE ref.compressed
    <3>1. result \in CompressedBlocks(masked)
      BY <1>5, <2>1
    <3>2. /\ result.status \in {"ok", "error", "io_error"}
          /\ CompressedCached(result.compressed)
          /\ result.compressed \in [0..(BlockSlots - 1) -> Blocks]
          /\ result.plain = cluster_block_cache
          /\ result.status = "error" => StreamCutOff(image, o)
          /\ result.status = "ok" =>
               /\ result.block.image = image /\ result.block.at = masked.offset
               /\ result.block.size = ClusterSize
      <4> HIDE DEF masked
      <4> QED
        BY <1>1, <1>2, <1>3, <2>1, <3>1, CompressedBlocksAre DEF BlocksKept
    <3>3. ASSUME result.status = "ok", NEW k \in Nat, at + k < ClusterSize
          PROVE  BlockByte(ref.compressed, block, at + k) = MediaByte(image, o + k)
      <4>1. block.image = image /\ block.at = FlagFree(image, MediaReference(image, o))
        <5> HIDE DEF masked
        <5> QED
          BY <1>3, <3>2, <3>3
      <4>2. MediaReference(image, o).compressed /\ ~ZeroFlag(image, MediaReference(image, o))
        BY <1>2, <2>1
      <4> HIDE DEF block
      <4>3. BlockByte(TRUE, block, at + k) = MediaByte(image, o + k)
        BY <1>1, <3>3, <4>1, <4>2, BytesOfStream
      <4>4. ref.compressed = TRUE
        BY <1>1, <2>1 DEF Reference
      <4> QED
        BY <4>3, <4>4
    <3> HIDE DEF masked, at, block
    <3> QED
      BY <3>2, <3>3, Sizes DEF BlocksKept, AtFault, block
  <2>2. CASE ~ref.compressed
    <3>1. result \in PlainBlocks(masked, o)
      BY <1>5, <2>2
    <3>2. RefersTo(image, o, place) /\ place % ClusterSize = 0
      BY <1>1, <1>2, <2>2 DEF RefersTo, WellWritten
    <3>3. /\ result.status \in {"ok", "error", "io_error"}
          /\ PlainCached(result.plain)
          /\ result.plain \in [0..(BlockSlots - 1) -> Blocks]
          /\ result.compressed = compressed_cluster_block_cache
          /\ result.status = "error" => CutOff(image, o)
          /\ result.status = "ok" =>
               /\ result.block.image = image /\ result.block.at = masked.offset
               /\ result.block.size = BlockSize(image, masked.offset)
               /\ result.block.size \in Nat
               /\ result.block.key =
                    IF Encrypted[image] THEN FirstSector(o) ELSE Raw
      <4> HIDE DEF masked, place
      <4> QED
        BY <1>1, <1>3, <3>1, <3>2, PlainBlocksAre DEF BlocksKept
    <3>4. ASSUME result.status = "ok", NEW k \in Nat, at + k < ClusterSize
          PROVE  BlockByte(ref.compressed, block, at + k) = MediaByte(image, o + k)
      <4>1. /\ block.image = image /\ block.at = place
            /\ block.key = IF Encrypted[image] THEN FirstSector(o) ELSE Raw
        <5> HIDE DEF masked
        <5> QED
          BY <1>3, <3>3, <3>4
      <4> HIDE DEF block, place
      <4>2. BlockByte(FALSE, block, at + k) = MediaByte(image, o + k)
        BY <1>1, <1>2, <3>2, <3>4, <4>1, BytesOfBlock
      <4>3. ref.compressed = FALSE
        BY <1>1, <2>2 DEF Reference
      <4> QED
        BY <4>2, <4>3
    <3>5. ASSUME result.status = "ok", block.size <= at
          PROVE  CutOff(image, o)
      <4>1. MediaByte(image, o) =
              Byte("file", image, place + at, 0,
                   IF Encrypted[image] THEN o \div SectorSize ELSE Raw)
        BY <1>1, <2>2, <3>2, ByteInFile DEF RefersTo
      <4>2. MediaByte(image, o).from = "file" /\ MediaByte(image, o).at = place + at
        BY <4>1 DEF Byte
      <4> HIDE DEF place, at
      <4>3. block.size = BlockSize(image, place)
        BY <1>3, <3>3, <3>5
      <4>4. block.size = FileSize[image] - place
        BY <1>2, <1>4, <3>5, <4>3, Sizes, ImageNumbers DEF BlockSize, Least
      <4>5. place + at >= FileSize[image]
        BY <1>2, <1>4, <3>5, <4>4, ImageNumbers
      <4> QED
        BY <4>2, <4>5 DEF CutOff
    <3> HIDE DEF masked, at, block
    <3> QED
      BY <1>4, <3>3, <3>4, <3>5 DEF BlocksKept, AtFault, block
  <2> QED
    BY <2>1, <2>2
<1>7. BlocksKept(cluster_block_cache', compressed_cluster_block_cache')
  BY <1>5, <1>6
<1> HIDE DEF results
<1>8. CASE result.status # "ok"
  <2>1. ReadError(result.status)
    BY <1>5, <1>8
  <2>2. ReadKept'
    BY <1>6, <1>8, <2>1, ErrorKeeps
  <2> QED
    BY <1>7, <2>1, <2>2 DEF ReadError
<1>9. CASE result.status = "ok" /\ at > block.size
  <2>1. ReadError("error")
    BY <1>5, <1>9
  <2>2. AtFault(o)
    <3> HIDE DEF at
    <3>1. ~(block.size > at) /\ block.size # ClusterSize
      BY <1>4, <1>6, <1>9, Sizes
    <3> QED
      BY <1>6, <1>9, <3>1 DEF AtFault
  <2>3. ReadKept'
    BY <2>1, <2>2, ErrorKeeps
  <2> QED
    BY <1>7, <2>1, <2>3 DEF ReadError
<1>10. CASE result.status = "ok" /\ ~(at > block.size)
  <2>1. Deliver(bytes)
    BY <1>5, <1>10
  <2> DEFINE s == ReadSize(o)
  <2>2. s \in Nat /\ s > 0 /\ at + s <= ClusterSize
    BY ReadSizeIs DEF ReadKept
  <2>3. n = Least(s, block.size - at) /\ block.size \in Nat /\ block.size >= at
    BY <1>4, <1>6, <1>10
  <2> HIDE DEF at, s, n
  <2>4. n \in Nat /\ n <= s /\ (n = 0 => block.size = at)
    BY <1>4, <2>2, <2>3 DEF Least
  <2>5. \A j \in 1..n :
          /\ bytes[j] = BlockByte(ref.compressed, block, at + j - 1)
          /\ j - 1 \in Nat /\ at + (j - 1) < ClusterSize
          /\ at + j - 1 = at + (j - 1)
          /\ o + j - 1 = o + (j - 1)
    BY <1>1, <1>4, <2>2, <2>4, Sizes
  <2>6. \A j \in 1..n : bytes[j] = MediaByte(image, o + j - 1)
    BY <1>6, <1>10, <2>5
  <2>7. \A j \in 1..n : MediaByte(image, o + j - 1) \in Bytes
    <3>1. SUFFICES ASSUME NEW j \in 1..n
                   PROVE  MediaByte(image, o + (j - 1)) \in Bytes
      BY <2>5
    <3>2. HasReference(image, o + (j - 1))
      BY <1>1, <2>5, HasReferenceOfCluster DEF at
    <3>3. o + (j - 1) \in Nat
      BY <1>1, <2>5
    <3> QED
      BY <3>2, <3>3, MediaByteType
  <2> DEFINE read == bytes
  <2>8. read \in Seq(Bytes) /\ Len(read) = n
    BY <2>4, <2>6, <2>7
  <2>9. n = 0 => CutOff(image, o)
    BY <1>4, <1>6, <1>10, <2>4, Sizes
  <2> HIDE DEF read
  <2>10. \A j \in 1..n : RightByte(read[j], o + j - 1)
    BY <2>6 DEF read, RightByte
  <2>11. Deliver(read)
    BY <2>1 DEF read
  <2>12. ReadKept'
    BY <2>4, <2>8, <2>9, <2>10, <2>11, DeliverKeeps DEF s
  <2> QED
    BY <1>7, <2>11, <2>12 DEF Deliver
<1> QED
  BY <1>8, <1>9, <1>10

(* The bytes of a cluster that the loop takes for a hole are those of one,  *)
(* or of a place that it misreads.                                          *)
LEMMA BytesOfHole ==
  ASSUME image \in Images, ParentOfBacked,
         Backing[image] => parent_file # NoImage,
         NEW o \in Nat, HasReference(image, o),
         IsSparse(MediaReference(image, o)),
         NEW k \in Nat, (o % ClusterSize) + k < ClusterSize
  PROVE  LET byte == IF parent_file = NoImage THEN ZeroByte
                     ELSE ParentByte(parent_file, o + k)
         IN  byte = MediaByte(image, o + k) \/ Misread(o + k)
<1> DEFINE ref == MediaReference(image, o)
           byte == IF parent_file = NoImage THEN ZeroByte
                   ELSE ParentByte(parent_file, o + k)
<1>1. MediaReference(image, o + k) = ref /\ HasReference(image, o + k)
  BY ReferenceOfCluster, HasReferenceOfCluster
<1>2. ref \in Reference
  BY ReferenceOfMedia DEF WellWritten
<1>3. \/ FlagFree(image, ref) = 0
      \/ ZeroFlag(image, ref)
      \/ sparse_flag_bit_mask /\ Version[image] # 3 /\ ref.offset % 2 = 1
  BY <1>2, SparseIsHole
<1> HIDE DEF ref
<1>4. CASE ZeroFlag(image, ref)
  <2>1. MediaByte(image, o + k) = ZeroByte
    BY <1>1, <1>4 DEF MediaByte
  <2>2. parent_file # NoImage => Misread(o + k)
    BY <1>1, <1>4 DEF Misread, ZeroFlagOverParent
  <2> QED
    BY <2>1, <2>2
<1>5. CASE FlagFree(image, ref) = 0 /\ ~ZeroFlag(image, ref)
  <2>1. MediaByte(image, o + k) =
          IF Backing[image] THEN ParentByte(image, o + k) ELSE ZeroByte
    BY <1>1, <1>5 DEF MediaByte
  <2>2. parent_file \notin {NoImage, image} => Misread(o + k)
    BY <1>1, <1>5 DEF Misread, HoleOfStaleParent
  <2>3. parent_file = image => Backing[image]
    BY ImageNumbers DEF ParentOfBacked
  <2> QED
    BY <2>1, <2>2, <2>3
<1>6. CASE sparse_flag_bit_mask /\ Version[image] # 3 /\ ref.offset % 2 = 1
  BY <1>1, <1>6 DEF Misread, OddOffsetUnderMask
<1> QED
  BY <1>3, <1>4, <1>5, <1>6

(* A round that finds that its cluster block is not in the file.            *)
LEMMA SparseRound ==
  ASSUME image \in Images, parent_file \in Images \cup {NoImage}, 
         ParentOfBacked, ReadKept,
         outcome = "reading", HasReference(image, current_offset),
         IsSparse(MediaReference(image, current_offset)),
         ReadSparse(current_offset)
  PROVE  ReadKept' /\ UNCHANGED session
         /\ UNCHANGED <<cluster_block_cache, compressed_cluster_block_cache>>
<1> DEFINE o == current_offset
           n == ReadSize(o)
           r == o % ClusterSize
           ByteOf(a) == IF parent_file = NoImage THEN ZeroByte
                        ELSE ParentByte(parent_file, a)
           bytes == [j \in 1..n |-> ByteOf(o + j - 1)]
<1>1. o \in Nat /\ n \in Nat /\ n > 0 /\ r + n <= ClusterSize
  BY ReadSizeIs DEF ReadKept, ReadTypeOK
<1>2. r \in Nat
  BY <1>1, Sizes, Division
<1>3. UNCHANGED <<cluster_block_cache, compressed_cluster_block_cache>>
  BY DEF ReadSparse
<1>4. \A k \in Nat : r + k < ClusterSize =>
        ByteOf(o + k) = MediaByte(image, o + k) \/ Misread(o + k)
  <2>1. Backing[image] => parent_file # NoImage
    BY ImageNumbers DEF ReadKept, ReadInv
  <2> QED
    BY <1>1, <2>1, BytesOfHole
<1>5. \/ ReadError("error") /\ parent_file # NoImage /\ o + n > ParentSize
      \/ ReadError("io_error")
      \/ Deliver(bytes)
  <2>1. CASE parent_file = NoImage
    <3>1. bytes = [j \in 1..n |-> ZeroByte]
      BY <2>1
    <3> HIDE DEF bytes
    <3> QED
      BY <2>1, <3>1 DEF ReadSparse
  <2>2. CASE parent_file # NoImage
    <3>1. bytes = [j \in 1..n |-> ParentByte(parent_file, o + j - 1)]
      BY <2>2
    <3> HIDE DEF bytes
    <3> QED
      BY <2>2, <3>1 DEF ReadSparse
  <2> QED
    BY <2>1, <2>2
<1>6. CASE ReadError("io_error")
  <2>1. ReadKept'
    BY <1>6, ErrorKeeps
  <2> QED
    BY <1>3, <1>6, <2>1 DEF ReadError
<1>7. CASE ReadError("error") /\ parent_file # NoImage /\ o + n > ParentSize
  <2>1. AtFault(o)
    <3> HIDE DEF r, n
    <3>1. o + 0 = o /\ 0 \in Nat /\ r + 0 < ClusterSize
      BY <1>1, <1>2, Sizes
    <3>2. MediaByte(image, o) = ParentByte(parent_file, o) \/ Misread(o)
      BY <1>4, <1>7, <3>1
    <3>3. o + ClusterSize > ParentSize
      BY <1>1, <1>2, <1>7, Sizes
    <3> QED
      BY <1>7, <3>2, <3>3 DEF AtFault, ParentByte, Byte
  <2>2. ReadKept'
    BY <1>7, <2>1, ErrorKeeps
  <2> QED
    BY <1>3, <1>7, <2>2 DEF ReadError
<1>8. CASE Deliver(bytes)
  <2>1. \A a \in Nat : ByteOf(a) \in Bytes
    BY DEF ParentByte, ZeroByte, Byte, Bytes, Raw
  <2>2. \A j \in 1..n : /\ bytes[j] = ByteOf(o + j - 1)
                        /\ j - 1 \in Nat /\ o + j - 1 = o + (j - 1)
                        /\ o + j - 1 \in Nat /\ r + (j - 1) < ClusterSize
    <3> HIDE DEF r, n, ByteOf
    <3> QED
      BY <1>1, <1>2, Sizes
  <2> DEFINE read == bytes
  <2>3. read \in Seq(Bytes) /\ Len(read) = n
    <3> HIDE DEF n, ByteOf
    <3>1. \A j \in 1..n : read[j] \in Bytes
      BY <2>1, <2>2
    <3> HIDE DEF Bytes
    <3> QED
      BY <1>1, <3>1
  <2>4. \A j \in 1..n : RightByte(read[j], o + j - 1)
    <3>1. \A a : ByteOf(a) \in {ZeroByte, ParentByte(parent_file, a)}
      OBVIOUS
    <3> HIDE DEF n, r, ByteOf, bytes
    <3>2. \A j \in 1..n : read[j] = ByteOf(o + (j - 1)) /\ j - 1 \in Nat
                          /\ r + (j - 1) < ClusterSize /\ o + j - 1 = o + (j - 1)
      BY <2>2
    <3> QED
      BY <1>4, <3>1, <3>2 DEF RightByte
  <2>5. Deliver(read)
    BY <1>8
  <2> HIDE DEF read
  <2>6. ReadKept'
    <3>1. Len(read) <= ReadSize(current_offset) /\ Len(read) # 0
      BY <1>1, <2>3
    <3> QED
      BY <2>3, <2>4, <2>5, <3>1, DeliverKeeps
  <2> QED
    BY <1>3, <2>5, <2>6 DEF Deliver
<1> QED
  BY <1>5, <1>6, <1>7, <1>8

-----------------------------------------------------------------------------
(* The invariant holds.                                                    *)

LEMMA EmptyCaches ==
  /\ EmptyCache(TableSlots) \in [0..(TableSlots - 1) -> Blocks]
  /\ EmptyCache(BlockSlots) \in [0..(BlockSlots - 1) -> Blocks]
  /\ TablesCached(EmptyCache(TableSlots))
  /\ PlainCached(EmptyCache(BlockSlots))
  /\ CompressedCached(EmptyCache(BlockSlots))
<1>1. Empty \in Blocks
  BY DEF Empty, Blocks, Raw
<1> QED
  BY <1>1 DEF EmptyCache, TablesCached, PlainCached, CompressedCached

(* Whatever the image is, an empty cache is as it should be. *)
LEMMA EmptiedCaches ==
  ASSUME NothingCached
  PROVE  /\ level2_table_cache' \in [0..(TableSlots - 1) -> Blocks]
         /\ cluster_block_cache' \in [0..(BlockSlots - 1) -> Blocks]
         /\ compressed_cluster_block_cache' \in [0..(BlockSlots - 1) -> Blocks]
         /\ CachesInv'
<1>1. \A s \in 0..(TableSlots - 1) : level2_table_cache'[s] = Empty
  BY DEF NothingCached, EmptyCache
<1>2. \A s \in 0..(BlockSlots - 1) :
        cluster_block_cache'[s] = Empty /\ compressed_cluster_block_cache'[s] = Empty
  BY DEF NothingCached, EmptyCache
<1> QED
  BY <1>1, <1>2, EmptyCaches
  DEF NothingCached, CachesInv, TablesCached, PlainCached, CompressedCached

(* The caches are those of the image that stays open. *)
LEMMA CachesStay ==
  ASSUME image' = image, NEW cache
  PROVE  /\ TablesCached(cache)' = TablesCached(cache')
         /\ PlainCached(cache)' = PlainCached(cache')
         /\ CompressedCached(cache)' = CompressedCached(cache')
BY DEF TablesCached, PlainCached, CompressedCached, PlainBlock, RefersTo,
       HasReference, MediaReference

(* A file that has read nothing, or found that it cannot, has done no wrong. *)
LEMMA NothingReadYet ==
  ASSUME buffer' = <<>>, outcome' = "none"
  PROVE  ReadsMedia' /\ OnlyDamageFails' /\ ReadComplete'
BY DEF ReadsMedia, OnlyDamageFails, ReadComplete

LEMMA InitIInv == Init => IInv
<1> SUFFICES ASSUME Init PROVE IInv
  OBVIOUS
<1>1. TypeOK
  <2>1. buffer \in Seq(Bytes) /\ Len(buffer) <= buffer_size
    BY DEF Init
  <2>2. /\ level2_table_cache \in [0..(TableSlots - 1) -> Blocks]
        /\ cluster_block_cache \in [0..(BlockSlots - 1) -> Blocks]
        /\ compressed_cluster_block_cache \in [0..(BlockSlots - 1) -> Blocks]
    BY EmptyCaches DEF Init
  <2>3. /\ image \in Images \cup {NoImage}
        /\ parent_file \in Images \cup {NoImage}
        /\ sparse_flag_bit_mask \in BOOLEAN /\ current_offset \in Nat
        /\ buffer_size \in Nat /\ outcome \in Outcomes
    BY DEF Init, Outcomes
  <2> QED
    BY <2>1, <2>2, <2>3 DEF TypeOK
<1>2. /\ MaskOfVersion3 /\ ParentOfBacked /\ ReadInv
      /\ ReadsMedia /\ OnlyDamageFails /\ ReadComplete
  BY DEF Init, MaskOfVersion3, ParentOfBacked, ReadInv, ReadsMedia,
         OnlyDamageFails, ReadComplete
<1>3. CachesInv
  BY EmptyCaches DEF Init, CachesInv
<1> QED
  BY <1>1, <1>2, <1>3 DEF IInv

LEMMA OpenStep ==
  ASSUME IInv, NEW i \in Images, Open(i) \/ OpenFails(i)
  PROVE  IInv'
<1>1. /\ image = NoImage /\ image' \in {i, NoImage}
      /\ sparse_flag_bit_mask' = (sparse_flag_bit_mask \/ Version[i] = 3)
      /\ UNCHANGED <<parent_file, caches, reading>>
  BY DEF Open, OpenFails
<1>2. buffer' = <<>> /\ outcome' = "none" /\ buffer = <<>> /\ outcome = "none"
  BY <1>1 DEF IInv, ReadInv, reading
<1>3. TypeOK'
  BY <1>1 DEF IInv, TypeOK, caches, reading
<1>4. MaskOfVersion3' /\ ParentOfBacked'
  BY <1>1 DEF IInv, MaskOfVersion3, ParentOfBacked
<1>5. /\ \A s \in 0..(TableSlots - 1) : level2_table_cache[s] = Empty
      /\ \A s \in 0..(BlockSlots - 1) : cluster_block_cache[s] = Empty
      /\ \A s \in 0..(BlockSlots - 1) : compressed_cluster_block_cache[s] = Empty
  BY <1>1 DEF IInv, CachesInv, TablesCached, PlainCached, CompressedCached, PlainBlock
<1>6. CachesInv'
  BY <1>1, <1>5
  DEF CachesInv, TablesCached, PlainCached, CompressedCached, caches
<1>7. ReadInv'
  BY <1>1, <1>2 DEF IInv, ReadInv, reading
<1> QED
  BY <1>2, <1>3, <1>4, <1>6, <1>7, NothingReadYet DEF IInv

LEMMA EndStep ==
  ASSUME IInv, Close \/ Recreate
  PROVE  IInv'
<1>1. image' = NoImage /\ NothingCached /\ NothingRead
      /\ parent_file' \in {parent_file, NoImage}
      /\ sparse_flag_bit_mask' \in BOOLEAN
  BY DEF IInv, TypeOK, Close, Recreate
<1>2. current_offset' = 0 /\ buffer_size' = 0 /\ buffer' = <<>> /\ outcome' = "none"
  BY <1>1 DEF NothingRead
<1>3. TypeOK'
  BY <1>1, <1>2, EmptiedCaches DEF IInv, TypeOK, Outcomes
<1>4. MaskOfVersion3' /\ ParentOfBacked' /\ ReadInv'
  BY <1>1, <1>2 DEF IInv, MaskOfVersion3, ParentOfBacked, ReadInv
<1> QED
  BY <1>1, <1>2, <1>3, <1>4, EmptiedCaches, NothingReadYet DEF IInv

LEMMA SetParentStep ==
  ASSUME IInv, SetParentFile
  PROVE  IInv'
<1>1. /\ image \in Images /\ image' = image /\ Backing[image]
      /\ parent_file = NoImage /\ parent_file' = image
      /\ outcome' = "none" /\ outcome # "reading"
      /\ sparse_flag_bit_mask' = sparse_flag_bit_mask
      /\ level2_table_cache' = level2_table_cache
      /\ cluster_block_cache' = cluster_block_cache
      /\ compressed_cluster_block_cache' = compressed_cluster_block_cache
      /\ current_offset' = current_offset /\ buffer_size' = buffer_size
      /\ buffer' = buffer
  BY DEF SetParentFile, IInv, TypeOK, caches
<1>2. buffer = <<>>
  BY <1>1, ImageNumbers DEF IInv, ReadInv
<1>3. TypeOK'
  BY <1>1 DEF IInv, TypeOK, Outcomes
<1>4. MaskOfVersion3' /\ ParentOfBacked'
  BY <1>1 DEF IInv, MaskOfVersion3, ParentOfBacked
<1>5. CachesInv'
  BY <1>1, CachesStay DEF IInv, CachesInv
<1>6. ReadInv'
  BY <1>1, <1>2, ImageNumbers DEF IInv, ReadInv
<1> QED
  BY <1>1, <1>2, <1>3, <1>4, <1>5, <1>6, NothingReadYet DEF IInv

LEMMA StartStep ==
  ASSUME IInv, NEW o \in 0..MaxOffset, NEW n \in 0..MaxRead,
         ReadBufferAtOffset(o, n)
  PROVE  IInv'
<1>1. o \in Nat /\ n \in Nat
  BY MediaConstants DEF MediaConstants
<1>2. /\ image \in Images /\ UNCHANGED <<session, caches>>
      /\ current_offset' = o /\ buffer_size' = n /\ buffer' = <<>>
      /\ outcome' = IF Backing[image] /\ parent_file = NoImage THEN "error"
                    ELSE IF o >= MediaSize[image] \/ n = 0 THEN "ok"
                    ELSE "reading"
  BY DEF ReadBufferAtOffset, IInv, TypeOK
<1>3. /\ image' = image /\ parent_file' = parent_file
      /\ sparse_flag_bit_mask' = sparse_flag_bit_mask
      /\ level2_table_cache' = level2_table_cache
      /\ cluster_block_cache' = cluster_block_cache
      /\ compressed_cluster_block_cache' = compressed_cluster_block_cache
  BY <1>2 DEF session, caches
<1>4. TypeOK'
  BY <1>1, <1>2, <1>3 DEF IInv, TypeOK, Outcomes
<1>5. MaskOfVersion3' /\ ParentOfBacked'
  BY <1>3 DEF IInv, MaskOfVersion3, ParentOfBacked
<1>6. CachesInv'
  BY <1>3, CachesStay DEF IInv, CachesInv
<1>7. MediaSize[image] \in Nat /\ image # NoImage
  BY <1>2, ImageNumbers
<1>8. ReadInv'
  BY <1>1, <1>2, <1>3, <1>7 DEF ReadInv
<1>9. ReadsMedia' /\ OnlyDamageFails' /\ ReadComplete'
  <2>1. ReadsMedia'
    BY <1>2 DEF ReadsMedia
  <2>2. OnlyDamageFails'
    BY <1>2, <1>3 DEF OnlyDamageFails
  <2>3. ReadComplete'
    BY <1>1, <1>2, <1>3, <1>7 DEF ReadComplete
  <2> QED
    BY <2>1, <2>2, <2>3
<1> QED
  BY <1>4, <1>5, <1>6, <1>8, <1>9 DEF IInv

LEMMA RoundStep ==
  ASSUME IInv, Round
  PROVE  IInv'
<1> DEFINE o == current_offset
           plain == cluster_block_cache
           compressed == compressed_cluster_block_cache
<1>1. /\ outcome = "reading" /\ image \in Images /\ o \in Nat
      /\ parent_file \in Images \cup {NoImage}
  BY DEF Round, IInv, TypeOK, ReadInv
<1>2. ReadKept /\ MaskOfVersion3 /\ ParentOfBacked /\ BlocksKept(plain, compressed)
      /\ TablesCached(level2_table_cache)
      /\ level2_table_cache \in [0..(TableSlots - 1) -> Blocks]
  BY DEF IInv, TypeOK, ReadKept, ReadTypeOK, BlocksKept, CachesInv
<1>3. PICK lookup \in Lookups(o) :
        /\ level2_table_cache' = lookup.cache
        /\ IF lookup.status # "ok" \/ (lookup.ref.compressed /\ Encrypted[image])
           THEN /\ ReadError(IF lookup.status = "ok" THEN "error"
                             ELSE lookup.status)
                /\ UNCHANGED <<cluster_block_cache,
                               compressed_cluster_block_cache>>
           ELSE IF IsSparse(lookup.ref) THEN ReadSparse(o)
           ELSE ReadClusterBlock(lookup.ref, o)
  BY Zenon DEF Round
<1> DEFINE ref == lookup.ref
<1>4. /\ lookup.status \in {"ok", "error", "io_error"}
      /\ lookup.status = "ok" =>
           HasReference(image, o) /\ ref = MediaReference(image, o)
      /\ lookup.status = "error" => ~HasReference(image, o)
      /\ TablesCached(lookup.cache)
      /\ lookup.cache \in [0..(TableSlots - 1) -> Blocks]
  BY <1>1, <1>2, LookupsFind
<1>5. ReadKept' /\ UNCHANGED session /\ BlocksKept(plain', compressed')
  <2>1. CASE lookup.status # "ok"
    <3>1. ReadError(lookup.status) /\ plain' = plain /\ compressed' = compressed
      BY <1>3, <2>1
    <3>2. lookup.status = "error" => AtFault(o)
      BY <1>4 DEF AtFault
    <3>3. ReadKept'
      BY <1>1, <1>2, <1>4, <2>1, <3>1, <3>2, ErrorKeeps
    <3> QED
      BY <1>2, <3>1, <3>3 DEF ReadError
  <2>2. CASE lookup.status = "ok" /\ ref.compressed /\ Encrypted[image]
    <3>1. ReadError("error") /\ plain' = plain /\ compressed' = compressed
      BY <1>3, <2>2
    <3>2. AtFault(o)
      BY <1>4, <2>2 DEF AtFault, EncryptedStream
    <3>3. ReadKept'
      BY <1>1, <1>2, <3>1, <3>2, ErrorKeeps
    <3> QED
      BY <1>2, <3>1, <3>3 DEF ReadError
  <2>3. CASE lookup.status = "ok" /\ ~(ref.compressed /\ Encrypted[image])
             /\ IsSparse(ref)
    <3>1. ReadSparse(o)
      BY <1>3, <2>3
    <3>2. ReadKept' /\ UNCHANGED session /\ plain' = plain
          /\ compressed' = compressed
      BY <1>1, <1>2, <1>4, <2>3, <3>1, SparseRound
    <3> QED
      BY <1>2, <3>2
  <2>4. CASE lookup.status = "ok" /\ ~(ref.compressed /\ Encrypted[image])
             /\ ~IsSparse(ref)
    <3>1. ReadClusterBlock(ref, o)
      BY <1>3, <2>4
    <3> HIDE DEF ref
    <3> QED
      BY <1>1, <1>2, <1>4, <2>4, <3>1, ClusterBlockRound
  <2> QED
    BY <2>1, <2>2, <2>3, <2>4
<1>6. /\ image' = image /\ parent_file' = parent_file
      /\ sparse_flag_bit_mask' = sparse_flag_bit_mask
  BY <1>5 DEF session
<1>7. TypeOK'
  BY <1>3, <1>4, <1>5, <1>6 DEF IInv, TypeOK, ReadKept, ReadTypeOK, BlocksKept
<1>8. MaskOfVersion3' /\ ParentOfBacked'
  BY <1>2, <1>6 DEF MaskOfVersion3, ParentOfBacked
<1>9. CachesInv'
  BY <1>3, <1>4, <1>5, <1>6, CachesStay DEF CachesInv, BlocksKept
<1> QED
  BY <1>5, <1>7, <1>8, <1>9 DEF IInv, ReadKept

LEMMA NextIInv == IInv /\ [Next]_vars => IInv'
<1> SUFFICES ASSUME IInv, [Next]_vars PROVE IInv'
  OBVIOUS
<1>1. CASE \E i \in Images : Open(i) \/ OpenFails(i)
  BY <1>1, OpenStep
<1>2. CASE Close \/ Recreate
  BY <1>2, EndStep
<1>3. CASE SetParentFile
  BY <1>3, SetParentStep
<1>4. CASE \E o \in 0..MaxOffset, n \in 0..MaxRead : ReadBufferAtOffset(o, n)
  BY <1>4, StartStep
<1>5. CASE Round
  BY <1>5, RoundStep
<1>6. CASE UNCHANGED vars
  <2>1. UNCHANGED <<image, parent_file, sparse_flag_bit_mask, level2_table_cache,
                    cluster_block_cache, compressed_cluster_block_cache,
                    current_offset, buffer_size, buffer, outcome>>
    BY <1>6 DEF vars, session, caches, reading
  <2>2. UNCHANGED session /\ UNCHANGED image
    BY <2>1 DEF session
  <2>3. TypeOK' /\ MaskOfVersion3' /\ ParentOfBacked' /\ ReadInv'
    BY <2>1 DEF IInv, TypeOK, MaskOfVersion3, ParentOfBacked, ReadInv
  <2>4. CachesInv'
    BY <2>1, CachesStay DEF IInv, CachesInv
  <2>5. ReadComplete'
    BY <2>1, <2>2, SessionStays DEF IInv, ReadComplete, CutOff
  <2>6. ReadsMedia'
    BY <2>1, <2>2, SessionStays DEF IInv, ReadsMedia
  <2>7. OnlyDamageFails'
    <3>1. outcome = "error" => AtFault(current_offset)
      BY DEF IInv, OnlyDamageFails, AtFault
    <3>2. AtFault(current_offset)' = AtFault(current_offset)
      BY <2>1, <2>2, SessionStays DEF AtFault
    <3> QED
      BY <2>1, <3>1, <3>2 DEF OnlyDamageFails, AtFault
  <2> QED
    BY <2>3, <2>4, <2>5, <2>6, <2>7 DEF IInv
<1> QED
  BY <1>1, <1>2, <1>3, <1>4, <1>5, <1>6 DEF Next

LEMMA Invariance == Spec => []IInv
BY InitIInv, NextIInv, PTL DEF Spec

-----------------------------------------------------------------------------
(* What follows.                                                           *)

(* Every variable has its type. *)
THEOREM TypeCorrect == Spec => []TypeOK
<1>1. IInv => TypeOK
  BY DEF IInv
<1> QED
  BY <1>1, Invariance, PTL

(* A read that succeeds is short only at the end of the media or where the  *)
(* file ends: libqcow_internal_file_read_buffer_from_file_io_handle, which  *)
(* stops at a cluster block that has no bytes left.                         *)
THEOREM CompleteCorrect == Spec => []ReadComplete
<1>1. IInv => ReadComplete
  BY DEF IInv
<1> QED
  BY <1>1, Invariance, PTL

(* The cluster block a media offset at the start of a cluster is read from. *)
LEMMA FileByteRefers ==
  ASSUME image \in Images, NEW o \in Nat, HasReference(image, o),
         o % ClusterSize = 0, MediaByte(image, o).from = "file"
  PROVE  /\ RefersTo(image, o, MediaByte(image, o).at)
         /\ MediaByte(image, o).sector =
              IF Encrypted[image] THEN FirstSector(o) ELSE Raw
<1> DEFINE ref == MediaReference(image, o)
           at == FlagFree(image, ref)
<1>1. at # 0 /\ ~ZeroFlag(image, ref) /\ ~ref.compressed
  BY DEF MediaByte, ParentByte, ZeroByte, Byte
<1>2. MediaByte(image, o) =
        Byte("file", image, at + (o % ClusterSize), 0,
             IF Encrypted[image] THEN o \div SectorSize ELSE Raw)
  BY <1>1, ByteInFile
<1>3. at \in Nat
  BY ReferenceOfMedia, FlagFreeType DEF WellWritten
<1> HIDE DEF at
<1>4. MediaByte(image, o).at = at
  BY <1>2, <1>3 DEF Byte
<1>5. FirstSector(o) = o \div SectorSize
  BY DEF FirstSector
<1> QED
  BY <1>1, <1>2, <1>4, <1>5 DEF RefersTo, Byte, at

(* The caches hold what is of the image that is open, decrypted for the     *)
(* place of the media that refers to it, whatever was open or read before:  *)
(* the caches of io_handle and of the file, that libqcow_file_close frees.  *)
THEOREM CachesCorrect == Spec => []CachesOfSession
<1>1. ASSUME IInv PROVE CachesOfSession
  <2>1. /\ \A e \in Entered(level2_table_cache) : e.image = image
        /\ \A e \in Entered(cluster_block_cache) :
             e.image = image /\ PlainBlock(e)
        /\ \A e \in Entered(compressed_cluster_block_cache) : e.image = image
    BY <1>1 DEF IInv, TypeOK, CachesInv, TablesCached, PlainCached,
                CompressedCached, PlainBlock, Entered
  <2>2. ASSUME NEW e \in Entered(cluster_block_cache), NEW o \in 0..MaxOffset,
               HasReference(image, o), o % ClusterSize = 0,
               MediaByte(image, o).from = "file", MediaByte(image, o).at = e.at,
               e.key # Garbage
        PROVE  e.key = MediaByte(image, o).sector
    <3>1. PlainBlock(e) /\ image \in Images
      BY <1>1, <2>1 DEF IInv, TypeOK, PlainBlock
    <3>2. o \in Nat
      BY MediaConstants DEF MediaConstants
    <3>3. /\ RefersTo(image, o, e.at)
          /\ MediaByte(image, o).sector =
               IF Encrypted[image] THEN FirstSector(o) ELSE Raw
      BY <2>2, <3>1, <3>2, FileByteRefers
    <3> QED
      BY <2>2, <3>1, <3>2, <3>3 DEF PlainBlock
  <2> QED
    BY <2>1, <2>2 DEF CachesOfSession
<1> QED
  BY <1>1, Invariance, PTL

(* Whatever was open or read before, a read of libqcow_file delivers the    *)
(* bytes the format has at its places of the media; what is not in the file *)
(* can be misread at three kinds of places only, and is zero or the same    *)
(* place of the parent that is set then.                                    *)
THEOREM ReadsCorrect == Spec => []ReadsMedia
<1>1. IInv => ReadsMedia
  BY DEF IInv
<1> QED
  BY <1>1, Invariance, PTL

(* The library finds fault with a read only where the image is at fault or  *)
(* the parent is lacking.                                                   *)
THEOREM FailuresCorrect == Spec => []OnlyDamageFails
<1>1. IInv => OnlyDamageFails
  BY DEF IInv
<1> QED
  BY <1>1, Invariance, PTL

(* The flag of version 3 is in the mask once an image of version 3 was      *)
(* open, and only then.                                                     *)
MaskIsOfAnImage ==
  sparse_flag_bit_mask => \E i \in Images : Version[i] = 3

LEMMA MaskInvariance == Spec => []MaskIsOfAnImage
<1>1. Init => MaskIsOfAnImage
  BY DEF Init, MaskIsOfAnImage
<1>2. MaskIsOfAnImage /\ [Next]_vars => MaskIsOfAnImage'
  <2> SUFFICES ASSUME MaskIsOfAnImage, [Next]_vars PROVE MaskIsOfAnImage'
    OBVIOUS
  <2>1. CASE \E i \in Images : Open(i) \/ OpenFails(i)
    BY <2>1 DEF Open, OpenFails, MaskIsOfAnImage
  <2>2. CASE Close \/ Recreate \/ SetParentFile
    BY <2>2 DEF Close, Recreate, SetParentFile, MaskIsOfAnImage
  <2>3. CASE \E o \in 0..MaxOffset, n \in 0..MaxRead : ReadBufferAtOffset(o, n)
    BY <2>3 DEF ReadBufferAtOffset, session, MaskIsOfAnImage
  <2>4. CASE Round
    <3>1. UNCHANGED session
      BY <2>4, Zenon DEF Round, ReadError, ReadSparse, ReadClusterBlock, Deliver
    <3> QED
      BY <3>1 DEF session, MaskIsOfAnImage
  <2>5. CASE UNCHANGED vars
    BY <2>5 DEF vars, session, MaskIsOfAnImage
  <2> QED
    BY <2>1, <2>2, <2>3, <2>4, <2>5 DEF Next
<1> QED
  BY <1>1, <1>2, PTL DEF Spec

(* Of images that are opened on one handle, in any order: where one has a   *)
(* backing file, none has the zero flag and no other has a hole; where one  *)
(* is of version 3, those of other versions have no odd offset.  Of one     *)
(* image alone this only says that it does not have both a backing file and *)
(* the zero flag.                                                           *)
NoneMisread ==
  \A i, j \in Images, o \in Nat :
    HasReference(j, o) =>
      LET ref == MediaReference(j, o) IN
      /\ Backing[i] => ~ZeroFlag(j, ref)
      /\ Backing[i] /\ i # j => FlagFree(j, ref) # 0
      /\ Version[i] = 3 /\ Version[j] # 3 => ref.offset % 2 # 1

LEMMA NoMisread ==
  ASSUME NoneMisread, image \in Images, NEW o \in Nat,
         parent_file \in Images \cup {NoImage}, ParentOfBacked, MaskIsOfAnImage
  PROVE  ~Misread(o)
<1> SUFFICES ASSUME HasReference(image, o) PROVE ~Misread(o)
  BY DEF Misread
<1>1. ~ZeroFlagOverParent(o)
  BY DEF NoneMisread, ParentOfBacked, ZeroFlagOverParent
<1>2. ~HoleOfStaleParent(o)
  BY DEF NoneMisread, ParentOfBacked, HoleOfStaleParent
<1>3. ~OddOffsetUnderMask(o)
  BY DEF NoneMisread, MaskIsOfAnImage, OddOffsetUnderMask
<1> QED
  BY <1>1, <1>2, <1>3 DEF Misread

(* Every byte that was delivered is that of the format, without exception.  *)
ReadsFormat ==
  LET got == Len(buffer) IN
  \A j \in 1..got : buffer[j] = MediaByte(image, current_offset - got + j - 1)

(* Of such images every byte that libqcow_file reads is that of the format. *)
THEOREM ReadsFormatCorrect ==
  ASSUME NoneMisread
  PROVE  Spec => []ReadsFormat
<1>1. ASSUME IInv, MaskIsOfAnImage PROVE ReadsFormat
  <2> DEFINE got == Len(buffer)
  <2> SUFFICES ASSUME NEW j \in 1..got
               PROVE  buffer[j] = MediaByte(image, current_offset - got + j - 1)
    BY DEF ReadsFormat
  <2>1. current_offset \in Nat /\ got \in Nat /\ got <= current_offset
    BY <1>1 DEF IInv, TypeOK, ReadInv
  <2>2. image \in Images /\ parent_file \in Images \cup {NoImage}
    BY <1>1, <2>1 DEF IInv, TypeOK, ReadInv
  <2> DEFINE o == current_offset - got + j - 1
  <2>3. buffer[j] = MediaByte(image, o) \/ Misread(o)
    BY <1>1 DEF IInv, ReadsMedia
  <2> HIDE DEF got
  <2>4. o \in Nat
    BY <2>1
  <2> HIDE DEF o
  <2>5. ~Misread(o)
    BY <1>1, <2>2, <2>4, NoMisread DEF IInv
  <2> QED
    BY <2>3, <2>5 DEF o
<1> QED
  BY <1>1, Invariance, MaskInvariance, PTL
=============================================================================
