---------------------------- MODULE MCQcowMedia ----------------------------
(***************************************************************************)
(* Instances of QcowMedia for TLC.  A cluster block is 4 bytes, 2 sectors; *)
(* a level 2 table has 2 entries and takes 4 bytes.                        *)
(***************************************************************************)
EXTENDS QcowMedia, TLC

CONSTANTS one, two, three, four, five, odd

Plain(offset) ==
  [offset |-> offset, size |-> 0, compressed |-> FALSE, copied |-> TRUE]
Packed(offset, size) ==
  [offset |-> offset, size |-> size, compressed |-> TRUE, copied |-> FALSE]
Table(first, second) == [x \in 0..1 |-> IF x = 0 THEN first ELSE second]

(* one: version 1, encrypted, two tables in one slot of the cache, ends in  *)
(* the middle of a cluster.  two: version 2 with a backing file, compressed *)
(* cluster blocks whose size is a minimum and too large, holes in both      *)
(* tables, one table missing.  three: version 3 with a zero flag and a file *)
(* that ends in the middle of its last cluster block.  four: version 2,     *)
(* encrypted, with a file that ends in the middle of a sector and a hole    *)
(* without a backing file.  five: version 3 with a backing file, a zero     *)
(* flag and a hole.  odd: version 2, a compressed cluster block at an odd   *)
(* offset.                                                                  *)
MCVersion ==
  [i \in Images |-> CASE i = one -> 1 [] i \in {three, five} -> 3 [] OTHER -> 2]
MCMediaSize ==
  [i \in Images |-> CASE i = one -> 13 [] i = two -> 18 [] i = four -> 10
                      [] OTHER -> 8]
MCFileSize ==
  [i \in Images |-> CASE i = one -> 28 [] i = two -> 20 [] i \in {three, four} -> 15
                      [] OTHER -> 16]
MCLevel1 ==
  [i \in Images |->
     CASE i = one -> <<Plain(4), Plain(8)>>
       [] i = two -> <<Plain(4), NoReference, Plain(24)>>
       [] i = four -> <<Plain(4), NoReference>>
       [] OTHER -> <<Plain(4)>>]
MCTables ==
  [i \in Images |->
     CASE i = one -> (4 :> Table(Plain(16), Plain(12)))
                     @@ (8 :> Table(Packed(21, 2), Plain(24)))
       [] i = two -> (4 :> Table(Packed(10, 0), Packed(14, 3)))
       [] i = three -> (4 :> Table(Plain(9), Plain(12)))
       [] i = four -> (4 :> Table(Plain(8), Plain(12)))
       [] i = five -> (4 :> Table(Plain(1), NoReference))
       [] OTHER -> (4 :> Table(Packed(9, 1), Packed(14, 0)))]
MCStreamSize ==
  [i \in Images |->
     CASE i = one -> (21 :> 2)
       [] i = two -> (10 :> 2) @@ (14 :> 4)
       [] i \in {three, four} -> (8 :> 4)
       [] OTHER -> (9 :> 3) @@ (14 :> 3)]
MCEncrypted == [i \in Images |-> i \in {one, four}]
MCBacking == [i \in Images |-> i \in {two, five}]
=============================================================================
