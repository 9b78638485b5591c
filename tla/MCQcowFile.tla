----------------------------- MODULE MCQcowFile -----------------------------
(* Instances of QcowFile for TLC: four images, two threads. *)
EXTENDS QcowFile

CONSTANTS owner, reader, plain, differential, broken, missing

MCMediaSize == [i \in Images |-> IF i \in {plain, differential} THEN 2 ELSE 1]
MCBacking == [i \in Images |-> i # plain]
MCEncrypted == [i \in Images |-> i = plain]
MCOpenOutcome ==
  [i \in Images |->
     IF i = broken THEN "bad_tables"
     ELSE IF i = missing THEN "missing" ELSE "ok"]
MCHeaderOutcome == [MCOpenOutcome EXCEPT ![broken] = "bad_header"]
Blocks(first, second) == [c \in 0..1 |-> IF c = 0 THEN first ELSE second]
NoBlocks == [c \in 0..0 |-> "bad"]

MCBlock ==
  [i \in Images |->
     CASE i = plain -> Blocks("hole", "data")
       [] i = differential -> Blocks("hole", "bad")
       [] OTHER -> NoBlocks]
MCDamagedBlock ==
  [i \in Images |->
     CASE i = plain -> Blocks("data", "bad")
       [] i = differential -> Blocks("data", "hole")
       [] OTHER -> NoBlocks]

ReaderCalls == {"read_buffer_at_offset", "get_offset"}

(* One thread opens and closes, the other reads. *)
OneOwner ==
  [t \in Threads |-> IF t = owner THEN ApiCalls ELSE ReaderCalls]

(* Both threads do everything. *)
TwoOwners == [t \in Threads |-> ApiCalls]

(* Open against open, close against close and against reads. *)
Racing ==
  [t \in Threads |->
     IF t = owner
     THEN {"open", "open_file_io_handle", "close", "read_buffer",
           "set_parent_file"}
     ELSE {"open", "close", "read_buffer_at_offset", "seek_offset",
           "get_media_size"}]
=============================================================================
