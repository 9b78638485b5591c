---------------------------- MODULE DeflateFormat ----------------------------
(***************************************************************************)
(* The reference for the inflater: what compressed data means, as a writer *)
(* of it sees it.  A message is a sequence of blocks; Text is what it says *)
(* and Encoding the bytes it is written with.  Nothing here is the         *)
(* library's: codes are numbered by their rank, the tables of sizes and    *)
(* distances are rules, and the checksum is a sum.                         *)
(***************************************************************************)
EXTENDS Integers, Sequences, FiniteSets

(* An item of a block is a literal <<byte>> or a match <<size, distance>>.  *)
(* Sizes of codes are written as items too: <<size>>, or a repetition       *)
(* <<16, times>>, <<17, times>>, <<18, times>>.  Of the sizes of the codes  *)
(* they are written with, codes, the first used are in the data.            *)
Stored(bytes) == [kind |-> "stored", bytes |-> bytes]
Fixed(items) == [kind |-> "fixed", items |-> items]
Dynamic(codes, used, literals, distances, code_sizes, items) ==
  [kind |-> "dynamic", codes |-> codes, used |-> used, literals |-> literals,
   distances |-> distances, code_sizes |-> code_sizes, items |-> items]

MaximumMatch == 258         \* bytes of a match
MaximumDistance == 32768    \* to what a match repeats
MaximumStored == 65535      \* bytes of a stored block

(* f[1] to f[n], one after the other: after each of them, and all of them. *)
JoinedUpTo(f, n) ==
  LET upto[k \in 0..n] == IF k = 0 THEN <<>> ELSE upto[k - 1] \o f[k]
  IN  upto
Joined(f, n) == JoinedUpTo(f, n)[n]

-----------------------------------------------------------------------------
(* The text.                                                               *)

(* A match copies bytes one after the other, its own among them. *)
Copied(text, size, distance) ==
  LET byte[k \in 1..size] ==
        IF k <= distance THEN text[Len(text) - distance + k]
        ELSE byte[k - distance]
  IN  byte

TextAfterItem(text, item) ==
  text \o IF Len(item) = 1 THEN <<item[1]>> ELSE Copied(text, item[1], item[2])

(* The text after the first k items of a block. *)
ItemTexts(text, items) ==
  LET upto[k \in 0..Len(items)] ==
        IF k = 0 THEN text ELSE TextAfterItem(upto[k - 1], items[k])
  IN  upto

TextAfterBlock(text, b) ==
  IF b.kind = "stored" THEN text \o b.bytes
  ELSE ItemTexts(text, b.items)[Len(b.items)]

(* The text of the first k blocks. *)
BlockTexts(blocks) ==
  LET upto[k \in 0..Len(blocks)] ==
        IF k = 0 THEN <<>> ELSE TextAfterBlock(upto[k - 1], blocks[k])
  IN  upto

Text(blocks) == BlockTexts(blocks)[Len(blocks)]

-----------------------------------------------------------------------------
(* Numbers and codes in bits.                                              *)

LowFirst(n, count) == [k \in 1..count |-> (n \div 2 ^ (k - 1)) % 2]
HighFirst(n, count) == [k \in 1..count |-> (n \div 2 ^ (count - k)) % 2]

HasSize(sizes, n) == {t \in DOMAIN sizes : sizes[t] = n}

(* What the codes of fewer bits take up, as codes of this size. *)
TakenBefore(sizes, size) ==
  LET before[n \in 0..(size - 1)] ==
        IF n = 0 THEN 0
        ELSE before[n - 1] + Cardinality(HasSize(sizes, n)) * 2 ^ (size - n)
  IN  before

(* The code of symbol s (from 0) among codes of these sizes: after those of *)
(* fewer bits, and those of the same size before it.                        *)
CodeNumber(sizes, s) ==
  LET size == sizes[s + 1]
  IN  TakenBefore(sizes, size)[size - 1]
        + Cardinality({t \in 1..s : sizes[t] = size})

Code(sizes, s) == HighFirst(CodeNumber(sizes, s), sizes[s + 1])

(* A code has at most 15 bits: what codes of these sizes take up, of 2^15. *)
Taken(sizes) ==
  LET taken[n \in 0..15] ==
        IF n = 0 THEN 0
        ELSE taken[n - 1] + Cardinality(HasSize(sizes, n)) * 2 ^ (15 - n)
  IN  taken

(* Sizes 3 to 257 fill the codes 257 to 284 one after the other, four codes *)
(* for each number of extra bits but the first; 258 has a code of its own.  *)
SizeExtra(c) == IF c < 265 \/ c = 285 THEN 0 ELSE (c - 261) \div 4
DistanceExtra(c) == IF c < 4 THEN 0 ELSE (c - 2) \div 2

FirstSizes ==
  LET first[c \in 257..285] ==
        IF c = 257 THEN 3
        ELSE IF c = 285 THEN 258 ELSE first[c - 1] + 2 ^ SizeExtra(c - 1)
  IN  first
FirstDistances ==
  LET first[c \in 0..29] ==
        IF c = 0 THEN 1 ELSE first[c - 1] + 2 ^ DistanceExtra(c - 1)
  IN  first

LastWith(codes, first, n) ==
  CHOOSE c \in codes : first[c] <= n /\ \A d \in codes : first[d] <= n => d <= c
SizeCode(n) == LastWith(257..285, FirstSizes, n)
DistanceCode(n) == LastWith(0..29, FirstDistances, n)

-----------------------------------------------------------------------------
(* The codes of a block, and what it is written with.                      *)

FixedLiteralSizes ==
  [s \in 1..288 |-> IF s \in 145..256 THEN 9 ELSE IF s \in 257..280 THEN 7 ELSE 8]
FixedDistanceSizes == [s \in 1..30 |-> 5]

(* The sizes that the first k items of sizes stand for. *)
SizeItem(sizes, item) ==
  IF Len(item) = 1 THEN <<item[1]>>
  ELSE [k \in 1..item[2] |-> IF item[1] = 16 THEN sizes[Len(sizes)] ELSE 0]
SizesUpTo(items) ==
  LET upto[k \in 0..Len(items)] ==
        IF k = 0 THEN <<>> ELSE upto[k - 1] \o SizeItem(upto[k - 1], items[k])
  IN  upto
SizesOf(items) == SizesUpTo(items)[Len(items)]

LiteralSizes(b) ==
  IF b.kind = "fixed" THEN FixedLiteralSizes
  ELSE SubSeq(SizesOf(b.code_sizes), 1, b.literals)
DistanceSizes(b) ==
  IF b.kind = "fixed" THEN FixedDistanceSizes
  ELSE SubSeq(SizesOf(b.code_sizes), b.literals + 1, b.literals + b.distances)

BitsOfSize(literals, n) ==
  LET code == SizeCode(n)
  IN  Code(literals, code) \o LowFirst(n - FirstSizes[code], SizeExtra(code))
BitsOfDistance(distances, n) ==
  LET code == DistanceCode(n)
  IN  Code(distances, code)
        \o LowFirst(n - FirstDistances[code], DistanceExtra(code))

ItemBits(literals, distances, item) ==
  IF Len(item) = 1 THEN Code(literals, item[1])
  ELSE BitsOfSize(literals, item[1]) \o BitsOfDistance(distances, item[2])

AllItemBits(literals, distances, items) ==
  [k \in 1..Len(items) |-> ItemBits(literals, distances, items[k])]
ItemsBits(literals, distances, items) ==
  Joined(AllItemBits(literals, distances, items), Len(items))
    \o Code(literals, 256)

(* The order in which the sizes of the codes of sizes are written. *)
Order == <<16, 17, 18, 0, 8, 7, 9, 6, 10, 5, 11, 4, 12, 3, 13, 2, 14, 1, 15>>

RepeatBits(item) ==
  CASE item[1] = 16 -> LowFirst(item[2] - 3, 2)
    [] item[1] = 17 -> LowFirst(item[2] - 3, 3)
    [] item[1] = 18 -> LowFirst(item[2] - 11, 7)
SizeItemBits(codes, item) ==
  Code(codes, item[1]) \o (IF Len(item) = 1 THEN <<>> ELSE RepeatBits(item))

CodesBits(b) == [k \in 1..b.used |-> LowFirst(b.codes[Order[k] + 1], 3)]
CodeSizesBits(b) ==
  [k \in 1..Len(b.code_sizes) |-> SizeItemBits(b.codes, b.code_sizes[k])]

(* What comes before the items of a dynamic block. *)
TreesBits(b) ==
  LowFirst(b.literals - 257, 5) \o LowFirst(b.distances - 1, 5)
    \o LowFirst(b.used - 4, 4) \o Joined(CodesBits(b), b.used)
    \o Joined(CodeSizesBits(b), Len(b.code_sizes))

ByteBits(bytes) == [k \in 1..Len(bytes) |-> LowFirst(bytes[k], 8)]

(* A stored block starts with a byte: how many bits are skipped after n. *)
Skipped(n) == (8 - (n % 8)) % 8

BlockHeader(b, last) ==
  <<IF last THEN 1 ELSE 0>>
    \o LowFirst(CASE b.kind = "stored" -> 0
                  [] b.kind = "fixed" -> 1
                  [] b.kind = "dynamic" -> 2, 2)

StoredBits(n, b) ==
  [k \in 1..Skipped(n) |-> 0] \o LowFirst(Len(b.bytes), 16)
    \o LowFirst(MaximumStored - Len(b.bytes), 16)
    \o Joined(ByteBits(b.bytes), Len(b.bytes))

BlockItemsBits(b) == ItemsBits(LiteralSizes(b), DistanceSizes(b), b.items)

(* A block that comes after n bits. *)
BlockBits(n, b, last) ==
  BlockHeader(b, last)
    \o CASE b.kind = "stored" -> StoredBits(n + 3, b)
         [] b.kind = "fixed" -> BlockItemsBits(b)
         [] b.kind = "dynamic" -> TreesBits(b) \o BlockItemsBits(b)

(* The bits of the first k blocks. *)
BitsUpTo(blocks) ==
  LET upto[k \in 0..Len(blocks)] ==
        IF k = 0 THEN <<>>
        ELSE LET before == upto[k - 1]
             IN  before \o BlockBits(Len(before), blocks[k], k = Len(blocks))
  IN  upto

MessageBits(blocks) == BitsUpTo(blocks)[Len(blocks)]

(* The bytes of these bits, the last one filled up with zeros. *)
BitOrZero(bits, k) == IF k <= Len(bits) THEN bits[k] ELSE 0
ByteOf(bits, m) ==
  LET byte[k \in 0..8] ==
        IF k = 0 THEN 0
        ELSE byte[k - 1] + (BitOrZero(bits, (8 * m) - 8 + k) * 2 ^ (k - 1))
  IN  byte
BytesOf(bits) == [m \in 1..((Len(bits) + 7) \div 8) |-> ByteOf(bits, m)[8]]

Encoding(blocks) == BytesOf(MessageBits(blocks))

-----------------------------------------------------------------------------
(* What a writer may say, and with which codes.                            *)

HasCode(sizes, s) == s + 1 \in DOMAIN sizes /\ sizes[s + 1] # 0

(* Not all of the code space must be taken, but some. *)
AreSizes(sizes) ==
  /\ Taken(sizes)[15] > 0
  /\ Taken(sizes)[15] <= 2 ^ 15

(* A match goes back to what the text has. *)
IsItem(text, literals, distances, item) ==
  \/ /\ Len(item) = 1
     /\ item[1] \in 0..255
     /\ HasCode(literals, item[1])
  \/ /\ Len(item) = 2
     /\ item[1] \in 3..MaximumMatch
     /\ item[2] \in 1..MaximumDistance
     /\ item[2] <= Len(text)
     /\ HasCode(literals, SizeCode(item[1]))
     /\ HasCode(distances, DistanceCode(item[2]))

IsSizeItem(sizes, codes, item) ==
  /\ HasCode(codes, item[1])
  /\ \/ Len(item) = 1 /\ item[1] \in 0..15
     \/ Len(item) = 2 /\ item[1] = 16 /\ item[2] \in 3..6 /\ Len(sizes) > 0
     \/ Len(item) = 2 /\ item[1] = 17 /\ item[2] \in 3..10
     \/ Len(item) = 2 /\ item[1] = 18 /\ item[2] \in 11..138

AreItems(text, b) ==
  /\ Len(b.items) \in Nat
  /\ \A k \in 1..Len(b.items) :
       IsItem(ItemTexts(text, b.items)[k - 1], LiteralSizes(b), DistanceSizes(b),
              b.items[k])

AreTrees(b) ==
  /\ b.codes \in [1..19 -> 0..7] /\ AreSizes(b.codes)
  /\ b.used \in 4..19
  /\ \A k \in (b.used + 1)..19 : b.codes[Order[k] + 1] = 0
  /\ Len(b.code_sizes) \in Nat
  /\ \A k \in 1..Len(b.code_sizes) :
       IsSizeItem(SizesUpTo(b.code_sizes)[k - 1], b.codes, b.code_sizes[k])
  /\ b.literals \in 257..286
  /\ b.distances \in 1..30
  /\ Len(SizesOf(b.code_sizes)) = b.literals + b.distances
  /\ AreSizes(LiteralSizes(b)) /\ HasCode(LiteralSizes(b), 256)
  /\ AreSizes(DistanceSizes(b))

(* A block that comes after this text. *)
IsBlock(text, b) ==
  \/ /\ b.kind = "stored"
     /\ b.bytes \in Seq(0..255)
     /\ Len(b.bytes) <= MaximumStored
  \/ b.kind = "fixed" /\ AreItems(text, b)
  \/ b.kind = "dynamic" /\ AreTrees(b) /\ AreItems(text, b)

IsMessage(blocks) ==
  /\ Len(blocks) \in Nat \ {0}
  /\ \A k \in 1..Len(blocks) : IsBlock(BlockTexts(blocks)[k - 1], blocks[k])

-----------------------------------------------------------------------------
(* A zlib header, and the checksum at the end.                             *)

(* The sum of f[1] to f[n], by rows of 100. *)
RowUpTo(f, first, count) ==
  LET sum[k \in 0..count] == IF k = 0 THEN 0 ELSE sum[k - 1] + f[first + k]
  IN  sum
Row(f, first, count) == RowUpTo(f, first, count)[count]
RowsUpTo(f, count) ==
  LET rows[k \in 0..count] ==
        IF k = 0 THEN 0 ELSE rows[k - 1] + Row(f, 100 * (k - 1), 100)
  IN  rows
Total(f, n) ==
  RowsUpTo(f, n \div 100)[n \div 100] + Row(f, 100 * (n \div 100), n % 100)

(* Each byte counts once for each byte from it to the end. *)
Weighted(text) == [k \in 1..Len(text) |-> (Len(text) + 1 - k) * text[k]]
Checksum(text) ==
  << (1 + Total(text, Len(text))) % 65521,
     (Len(text) + Total(Weighted(text), Len(text))) % 65521 >>

ChecksumBytes(text) ==
  LET sum == Checksum(text)
  IN  <<sum[2] \div 256, sum[2] % 256, sum[1] \div 256, sum[1] % 256>>

ZlibEncoding(header, blocks) ==
  header \o Encoding(blocks) \o ChecksumBytes(Text(blocks))

(* Method 8 with a window of at most 2^15, and the number of a dictionary   *)
(* when the second byte says that there is one.                             *)
IsZlibHeader(header) ==
  /\ header \in Seq(0..255)
  /\ Len(header) = IF (header[2] \div 32) % 2 = 1 THEN 6 ELSE 2
  /\ header[1] % 16 = 8
  /\ header[1] \div 16 <= 7

-----------------------------------------------------------------------------
(* What is given to the inflater.                                          *)

Begins(s, t) ==
  /\ Len(s) <= Len(t)
  /\ \A k \in 1..Len(s) : t[k] = s[k]

(* The data was written with these blocks; it may go on after them, or end  *)
(* before they do if it was cut.                                            *)
IsWritten(call, header, blocks) ==
  LET whole == IF call.zlib THEN ZlibEncoding(header, blocks) ELSE Encoding(blocks)
  IN  /\ IsMessage(blocks)
      /\ call.text = Text(blocks)
      /\ call.zlib => IsZlibHeader(header)
      /\ call.damage = "none" => Begins(whole, call.data)
      /\ call.damage = "cut" =>
           Begins(call.data, whole) /\ Len(call.data) < Len(whole)

(* What the calls are given was written, as far as it is said to be.        *)
AreWritten(calls) ==
  \A i \in calls : i.damage # "altered" =>
    \E header, blocks : IsWritten(i, header, blocks)
=============================================================================
