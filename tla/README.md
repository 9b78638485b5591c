# libqcow in TLA+

libqcow reads QEMU Copy-On-Write images (versions 1, 2 and 3): a C library
(`libqcow/`), two command line tools (`qcowtools/`: `qcowinfo`, `qcowmount`) and
a Python binding (`pyqcow/`). This directory models the library's file handle,
the way from a header and an offset to the bytes of the media, the inflater, the
mounted chain of an image and its backing files, and what the Python binding
owns; it checks the models with TLC, and proves with TLAPS the safety of the
locking of a file, that a file with one owner implements an atomic media handle,
that reads deliver the bytes of the format but in three ways that it names, the safety of the chain of a mount
and of the reads through it, that of the numbers that come from a header and
from compressed data, that what a writer compressed and laid out in a file is what
is read, and that what the Python binding owns lives as long as it is used.

## The system

| Component | State | Operations | Interacts with |
| --- | --- | --- | --- |
| File handle, `libqcow_file.c` | the fields of `libqcow_internal_file` (`libqcow_file.h`): libbfio handle and who made and opened it, `current_offset`, header, backing filename, tables and caches, key, parent, masks, `is_locked`, a read/write lock | initialize, free, open (3 forms), close, set parent, set keys and passwords, seek, read (2 forms), getters, signal abort | libbfio for I/O, the parent file, every thread of the application |
| Media access, `libqcow_file.c` 1905-2811, `libqcow_cluster_table.c`, `libqcow_cluster_block.c`, `libqcow_io_handle.c` | level 1 table, vectors and caches of level 2 tables and cluster blocks | look a reference up, read and inflate or decrypt a cluster block, the loop of a read | libfdata and libfcache (vector, cache), encryption, decompression, parent file |
| Encryption, `libqcow_encryption.c` | two AES contexts | set keys, crypt | libcaes |
| File header, `libqcow_file_header.c` | the header's fields | read | open |
| Decompression, `libqcow_deflate.c`, `libqcow_huffman_tree.c`, `libqcow_bit_stream.c`, `libqcow_compression.c` | bit buffer, code tables | inflate, Adler-32 | media access |
| Mount, `mount_handle.c`, `mount_file_system.c`, `mount_file_entry.c`, `qcowmount.c` | the array of files of a chain, the entries of the file system | open with parents, close, read, signal abort (which nothing attaches) | file handle, FUSE or Dokan threads |
| FUSE and Dokan, `mount_fuse.c`, `mount_dokan.c` | an entry per open file | open, read, release, readdir, getattr | mount file system |
| `qcowinfo`, tools support | one file | print | file handle |
| Python binding, `pyqcow_file.c`, `pyqcow_file_object_io_handle.c` | the file, its libbfio handle, its file object, its parent | open, open_file_object, close, free, read | file handle, Python objects |

What is hard in it:

* **The lock and the checks outside of it.** Each function of the API checks a
  field (`file_io_handle`, `file_header`, `backing_filename`, `parent_file`)
  *before* it grabs the lock and acts on it *after*. `libqcow_file_open` has two
  critical sections. `signal_abort` and the first checks take no lock.
* **Partial failure.** An open fails after any of a dozen allocations; a read
  fails after some rounds. Error paths must undo, keep and release exactly what
  they should.
* **What outlives what.** `libqcow_file_close` frees tables, caches, header and
  context; it keeps the parent, the key and the masks.
* **Caches.** Decryption happens inside a cached block; a slot of a cache is
  shared by many tables.
* **Boundaries.** The last cluster of media and file, sizes of compressed
  blocks in sectors less one, files that end early, parents that are short.

The properties that make each component correct, built or planned:

* file handle: wholly open or wholly closed; I/O on a live handle of the image
  whose header was read; atomic reads; no handle lost or stolen; lock released;
  together, that it implements an atomic media handle;
* media access: every byte is that of the format, but where a finding or an
  observation says otherwise; caches never answer for
  another image, place or key; errors and short reads only for damage; a read
  ends;
* mount: what is mounted is the chain of the image, no failure on the way
  forgets a file, no entry or parent pointer of a callback outlives its file;
  locks are taken child before parent and callbacks never all wait for each
  other; a read delivers the overlay of the layers whoever else reads; listed
  names open the files they stand for;
* header: whatever it says, no shift made from it is undefined, and the parts
  an offset is taken apart into make up the offset;
* decompression: what a writer compressed comes out again, in all forms of
  blocks; bits come in their order across bytes and blocks; nothing is written
  past the buffer, no table is read past its end and no word of the checksum
  overflows; damage is refused or ends at a block; every call ends;
* Python binding: each libbfio handle, file object and parent lives as long as
  the library can reach it, a read gets the place it sought, and the interpreter
  lock and the locks of the files never wait for each other;
* chains that an application builds, changes and closes itself (planned; in part
  by the Python program).

The hazards behind these, each at its line, are in `PROJECT.json`.

## Modules

| Module | Models |
| --- | --- |
| `QcowImage` | what the file modules share: images in units of cluster blocks, cells of media, replies |
| `MediaHandle` | abstract: what a file promises to its threads, every call one step |
| `QcowFile` | the file handle with its threads, lock and libbfio handles |
| `QcowFileProofs` | the inductive invariants of `QcowFile`, with any threads and with one owner, the theorems, and the refinement of `MediaHandle` |
| `MCQcowFile` | instances of `QcowFile` |
| `QcowMedia` | references, tables, cluster blocks, caches, the loop of a read, sessions of different versions on one handle |
| `QcowMediaProofs` | what lookups, caches and blocks of `QcowMedia` give, its inductive invariant and the theorems |
| `MCQcowMedia` | instances of `QcowMedia` |
| `QcowMount` | `qcowmount`: opening a chain, the callbacks of FUSE or Dokan, reads through the parents, closing |
| `MCQcowMount` | instances of `QcowMount` |
| `QcowMountProofs` | the inductive invariant of `QcowMount` and the theorems |
| `QcowHeader` | the file header: what is refused, and the shifts, masks and sizes that open works out of it |
| `QcowAdler32` | the words of the checksum and their deferred reduction |
| `QcowDeflate` | the built-in inflater: bit stream, Huffman trees, blocks, zlib header and checksum |
| `RecursiveFunctions` | lemmas: a function defined by recursion over an interval exists, and induction over it |
| `DeflateFormat` | reference: what compressed data means and how a writer writes it; no code of the library |
| `QcowDeflateLemmas` | what the operators of `QcowDeflate` return for all bytes, and that they read what those of `DeflateFormat` write |
| `QcowDeflateProofs` | the checksum is the Adler-32 of what was inflated and fits its words, every message that can be written is inflated, the inductive invariants and the theorems |
| `QcowCluster` | a compressed cluster block from header to bytes: `QcowHeader` and `QcowDeflate` with the read between them |
| `QcowFormat` | reference: a file with compressed cluster blocks as a writer of the format makes it; no code of the library |
| `QcowClusterProofs` | the inductive invariants of `QcowHeader` and `QcowCluster`, the theorems about a read from header to bytes, and that every file that can be written is read |
| `MCQcowCluster` | messages, damage, headers and files for `QcowCluster`, written by the two references |
| `PyqcowFile` | the Python binding: threads, interpreter lock, reference counts, libbfio handles on Python objects |
| `PyqcowFileProofs` | what the reference counts count, the inductive invariant of `PyqcowFile` and the theorems |
| `MCPyqcowFile` | a Python program for `PyqcowFile` |

### QcowFile

The variables are the fields of `libqcow_internal_file` under their names
(`tables` stands for the level 1 table, the two vectors and the three caches;
`context_key` for the encryption context, by the key it was made with), one
program counter per thread, the locals of the calls in progress (`hnd`,
`created`, `opened`, `rest`, `buffer`), the writer of the lock, and the libbfio
handles outside of the library. `settled_offset` is history: the offset when no
read was in progress, which the refinement needs.

A call is `Enter` (the unlocked check; it is refused there or goes to wait),
and the steps of its critical section. A critical section is one step unless
what other threads look at *without* the lock changes half way or I/O is done
in pieces:

* `Open`/`OpenFileIoHandle` (to the grab of the lock), `OpenGrab`,
  `OpenReadHeader` (header, backing filename and context are set),
  `OpenReadTables` (success, or `OpenReadCleanup`), `OpenMarkCreated` (the
  second critical section of `libqcow_file_open`);
* `ReadBuffer`/`ReadBufferAtOffset`, then `ReadClusterBlock` once per cluster
  block;
* the rest in one step: `Close`, `SetParentFile`, `SetKeys`, `SetPassword`,
  `Seek` and the getters.

`SignalAbort` has one step and no lock. `Free` and `Initialize` happen when no
other call is in progress, which is what a C application must see to.
`CallerAllocates` and `CallerFrees` are the application's; it frees a handle
only when no file has it. A getter that follows a NULL header goes to
`crashed`; the other threads go on, so that runs about other things are not cut
short by it. Errors of the lock, of `memory_allocate` and of the debug output
are left out. One name stands for functions with the same checks and locking:
`get_media_size` for `get_format_version` and `get_number_of_snapshots`,
`get_backing_filename` for its four getters, `set_password` for both encodings,
`open` for `open_wide`. `get_encryption_method` is left out.

### MediaHandle, and the refinement

In `MediaHandle` a read replies in one step with consecutive cluster blocks of
one image, each the `Content` of the image, key and parent of that moment.
`ImplementsMediaHandle` maps `image` and `key` to the header and the context
while the file has a handle (so an open takes effect when `OpenReadTables`
assigns it), and `offset` to `settled_offset` (so a read takes effect at its
last round).

### QcowMedia

One thread's calls (or those of threads that hold the lock of `QcowFile`).
A reference is a record of offset, size and flags instead of 64 bits; `Masked`
is `offset_bit_mask`, `IsSparse` the two tests that send a read away from the
file, and bit 0 of an offset is still bit 0, because versions 2 and 3 differ in
it. A byte of the buffer says where it is from (file, inflated stream, parent,
zero), of which image and offset, and the sector it was decrypted as.
`Lookups`, `CompressedBlocks` and `PlainBlocks` give the possible results of
`get_cluster_block_offset` and of the two halves of `read_cluster_block`, with
the caches after them; `Round` is one round of the loop. `parent_file` is the
image for which the application set the parent, because a handle can keep that
of an image it has closed.

`MediaByte` is the reference: the byte the format document assigns to an offset of
an image, whatever a handle knows. The zero flag (line 518) is a cluster block of
zeros; a reference of 0 is a place of the backing file when *the image* has one, and
zero otherwise (lines 566-568 and 584-586); all else is in a block or stream of the file.
The code departs from that in three ways: a hole, while the parent of another image is
still set (`HoleOfStaleParent`, finding 2); the zero flag, while any parent is set
(`ZeroFlagOverParent`, see the observations); and an odd offset under the mask that a
version 3 image left (`OddOffsetUnderMask`, finding 4). `ReadsMedia` says that
every byte is `MediaByte` but at such a place (`Misread`), and that there it is a
zero or the same place of the parent that is set. That also bounds the damage: bytes of
file and streams are right whatever parent is left over, and no cache adds a wrong
byte of its own. Only at these places, or at one the format has in the image's own
backing file, is a parent that is too small a reason to fail (`OnlyDamageFails`).

libfdata and libfcache are not in the repository; `Element` and `Slot` model
them from their use: a vector finds the element of fixed size that holds an
offset, and its cache has one slot per index modulo the number of slots.
Explicitly read blocks (compressed, or the last of a file) are put in a slot of
the cache too, and never looked up.

`WellWrittenImages` assumes what the writer of an image sees to: aligned tables
and plain blocks, a size on compressed blocks of version 1, encrypted blocks of
whole sectors that belong to one place of the media (so that their tables have
offsets of their own, none of them zero), and streams of at most a cluster block
that inflate to a whole one. It does not assume that tables or blocks are inside the file,
that the level 1 table covers the media or that the parent is large enough.

### QcowMount

`main` is one thread. Its phases are those of the code: `open_parent` (calls of
`mount_handle_open_parent` go down), `append` (they return), `unwind` (they
return with an error), `mounted` (the loop of FUSE or Dokan), `close`, `ended`.
The recursion is the sequence `hand`: the file each call in progress opened, the
image's first. `OpenParent` opens one more, `AppendParent` and `AppendImage`
are the calls' ends, `Unwind` their error paths, one call at a time.
`files_array` is the array of the mount file system, with the files in the order
the code appends them: the base first. `CloseLast` is one round of
`mount_handle_close`. With Dokan nothing calls that function, and `Unmount` ends
the program. The array's growth can fail, as can a close; other failures to
allocate memory are left out, as is the check of `is_locked`: open always clears
the flag, which is what `mount_locked` is about.

A user is a file handle of the sub system. FUSE is run single threaded and
starts a callback only when no other is in progress (`Quiet`); Dokan starts them
at any time. `Read` begins a read, whose recursion through the parents is
`stack`: one frame per `libqcow_file_read_buffer_at_offset` in progress.
`Grab` takes the lock of the frame's file and sets the file's current offset,
which all readers share; `RoundOwn` and `RoundParent` are rounds of the loop
that do and do not find the cluster block in the file itself; `ParentReturns`,
`ParentFallsShort` and `RoundFails` are the ways a round with a parent ends.
`ReadDir`, `FindFiles` and `GetAttr` look entries up by their paths. All files
of a chain have cluster blocks of one size here; `QcowMedia` has the bytes. A
path is the sequence of digits after its prefix, and numbers are written with
`Radix` in place of 10 and directories end at `MaxListed` in place of 999, so
that numbers of two digits and directories that are too large occur in small
chains.

### QcowHeader

An open in three steps, each of which can refuse the file: `ReadFileHeader`
(`libqcow_file_header_read_data` and the checks of it), `SetShifts` and
`SetTables` (`libqcow_internal_file_open_read`, first the shifts and masks, then
the sizes). A mask is the number of its bits. The widths of the format (64-bit
numbers, sectors of 512, references of 8 bytes) are constants, so that TLC can
go through headers in narrow numbers and TLAPS need not know them. The numbers
of the model are unbounded: where the code divides to find out whether a product
would wrap around, so does the model, and that the product does not is part of
`OffsetsSplit`.

### QcowDeflate, QcowAdler32 and DeflateFormat

The state is that of the calls in progress: `byte_stream_offset` and
`bit_buffer` (a sequence of bits, the next one first) of the bit stream, the two
trees and the tree of code sizes, `code_size_array`, the match of which the
distance comes next, `uncompressed_data` (up to the offset the code keeps), and
the words of the checksum. `at` says where in the code the next step is: the
header of a block, a stored block, fixed or dynamic trees, the sizes of codes
one symbol at a time, a literal or the size of a match, its distance, the
trailer, a byte of the checksum. Where the code can fail, an action `Cannot...`
leads to `error`. What a helper of the code returns is a set in the model, empty
when it fails: `Values` is `libqcow_bit_stream_get_value`, `Trees` is
`libqcow_huffman_tree_build`, `Symbols` is
`libqcow_huffman_tree_get_symbol_from_bit_stream`.

`DeflateFormat` is the other side: messages are sequences of blocks of literals
and matches, `Text` is what they say and `Encoding` their bytes. It shares no
definition with the inflater: codes are numbered by rank, the tables of match
sizes and distances are rules, the checksum is a sum. `IsMessage` is what a writer
may say: any number of blocks of the three forms, with any codes that do not take up
more than there is, matches that go back to what the text has, and repetitions of
sizes that cross from one tree to the other. `IsWritten` relates data to it: the
data is the message, whole with anything behind it, or cut. One thing a writer may
do by the letter of RFC 1951 it has not: a dynamic block without any code for
distances (section 3.2.7). The library refuses that
(`libqcow_huffman_tree.c:351`), zlib never writes it, and no test or comment of the
repository speaks of it.

### QcowCluster and QcowFormat

Starts with a file that is opened and read at one of its `offsets`, or with a
call of the inflater on its own. `GetClusterBlockOffset` takes the offset and
the reference apart with the shifts of `QcowHeader`; `ReadClusterBlock` reads
the bytes of the stream and hands them to the inflater. Caches, plain blocks,
parents and sessions are those of `QcowMedia`. `WellWritten` says what the
writer of a `sound` file sees to: streams no longer than a cluster block.

`QcowFormat` is that writer. It *adds up* what the library takes apart: `IndexesOf`
divides an offset by the bytes a table and a cluster block are for, `ReferenceTo` adds
flag, size and place. `IsWrittenFile` says that a file has the header, references,
streams and media of such a writer, with any message that has the size of the cluster
block, at any place a reference has bits for (`CanReferTo`); `IsWrittenHeader` has
the limits the library puts on the size of tables, since a file beyond them is
refused. It knows compressed blocks only: where plain ones are read from is a matter
of `QcowMedia`.

### PyqcowFile

A thread of the program makes the calls of `Program`, one after the other;
`Enter` takes the interpreter lock, the arguments are referred to until `Leave`.
`AllowThreads` releases the lock and goes into the library. A callback
(`GetSize`, `Seek`, `Read`) happens when no other thread has the interpreter
lock (`WithGil`). The lock of a library file and what it does with the file are
those of `QcowFile`, with a call in as many steps as there are callbacks in it.
`references` are the reference counts of file objects and of the Python objects
they read; `handles` the libbfio handles the binding makes. `Close` and `Closed`
are the two halves of `pyqcow_file_close`, `SetParent` and `ParentIsSet` those of
`set_parent`, `OnError` the error part of `open_file_object`. When the last
reference to a file goes, `FreeLibrary` and `FreeParent` free it, its handle and
its reference to the parent. An object may raise an exception at any callback,
and end where it likes after one.

A file is opened, closed and given its parent by one thread of the program
(`FilesHaveOneOwner`), and read, looked at and dropped by all. The library tests
what these calls depend on before it waits for the lock
(`libqcow_file.c:3284-3304` for a parent), and the binding does its part of a call
before or after the library's with no lock at all: with two owners the races of
`QcowFile` are there, and some of its own (see the observations). With one, nobody
else changes between the test and the lock what was tested, so that both are one
step here.

## Runs

| Run | Shows |
| --- | --- |
| `file_promise` | with one owner thread and one reader: refinement of `MediaHandle`, no libbfio handle lost (`NoHandleLeak`) or stolen (`CallerHandlesSurvive`), a parent set once (`ParentSetOnce`) |
| `file_races` | two threads that both open, close, read and seek, with fairness: `TypeOK`, `LockHeld`, `SessionConsistent`, `IoOnLiveHandle`, `ReadIsOneExtent`, `LockIsReleased` |
| `media` | six images of three versions, two with a backing file, in any order on one handle: `TypeOK`, `ReadsMedia`, `CachesOfSession`, `ReadComplete`, `OnlyDamageFails`, `ReadEnds` |
| `mount` | seven images in chains of up to three files, FUSE and Dokan, two users: `TypeOK`, `ChainMounted`, `NoFileLost`, `ParentOutlivesChild`, `LocksFollowParents`, `CallbacksProgress`, `ReadsOverlay`, `ListedNamesOpen`, `OpeningEnds`, `FuseCallbackEnds` |
| `cluster` | headers of all versions, good and bad, files a writer laid out, and compressed data whole, cut at every byte and altered in every bit: `TypeOK`, `ShiftsDefined`, `OffsetsSplit`, `ReadsWhatWasWritten`, `BitsInOrder`, `StaysInBuffer`, `WritesText`, `OnlyDamageFails`, `CutIsNoticed`, `Terminates` |
| `python` | one thread opens, chains, closes and drops two files while another reads: `HandlesLive`, `ParentsLive`, `ReadsOwnPlace`, `CallsReturn` |
| `file_abort`, `file_stale_parent`, `file_getter_crash`, `media_stale_mask`, `mount_locked`, `python_refused_open` | what a comment or the format document says and the code does not do: see the findings |

### Bounds

`MCQcowFile`: two threads (a lock and a check outside of it need two to go
wrong); four images: one without a backing file and encrypted, one differential
one, one whose open fails half way and one libbfio cannot open; media of two
cluster blocks (the fewest that make a read of two rounds), kinds chosen so
that data, hole, unreadable block, end of media and an error in the second
round occur; one libbfio handle where leaks are the question, two where two
opens race; offsets up to 2, past the end of the media. `MaxOffset` and
`MaxCount` bound what threads ask for; nothing else is bounded. Calls of the
second thread are those of a reader in `file_promise` and those that race in
`file_races`; in the runs that expect a violation every thread does everything
(`file_stale_parent`: one owner is enough).

`MCQcowMedia`: cluster blocks of 4 bytes and 2 sectors, so that a read starts
and ends inside a block and inside a sector; level 2 tables of 2 entries;
one slot for tables and two for blocks, fewer than the images have of either.
Reads start anywhere up to the end and have up to 6 bytes: three blocks. The
images have holes in both levels, a missing table, compressed blocks with the
least and with too large a size, media that ends inside a block, files that end
inside a block and inside a sector, a block outside of the file, encryption with
blocks that are not in the order of the media, and a parent smaller than the
child. Two images have a backing file, one of them a zero flag as well; two without
one have a hole or a zero flag; one of version 2 has a stream at an odd offset: opened
after each other they reach each of the three kinds of `Misread` (without any one of
the three disjuncts TLC refutes `ReadsMedia`), and every zero and parent byte that is
right. Reads of two of the images can fail (`Unreliable`); those of the other
four, among them the ones that end inside a block, cannot, so that `ReadEnds`
cannot be met by an I/O error that happens to come.

`MCQcowMount`: three files a process can open, because a chain of three is the
shortest in which a read holds two locks and waits for a third and in which a
parent is both child and parent. The images have such a chain, a parent that is
too short, a backing file that does not exist, a backing file that is the image
itself (opening ends when no more files can be opened), and blocks that
cannot be read. Two users, since what goes wrong between callbacks does so
between two. Reads start at any block up to the end of the media and have one or
two blocks. With `Radix` 2 three files have numbers of two digits, and with
`MaxListed` 2 three files are more than a directory can have. The paths asked
for are the root, numbers with and without a leading zero, the number of no
file and one with a digit that is none. Deadlock is not checked: the program
ends when it is unmounted.

`MCQcowCluster`: references of 16 bits, sectors of 8 bytes, references of 2
bytes, so that a cluster block of 16 or 32 bytes is already more than a sector
and every field of a reference has several bits. `MCHeaders` goes through the
bits on both sides of each limit, for versions 0 to 4. The three sound files
have cluster blocks in the first and in the last of their tables, a media size
that ends inside a block, streams that end with a sector, inside one and with
the file, and one as long as the block it holds; each is damaged in twelve ways too
(`Damaged`: shorter, with references that are nonsense, encrypted, with too small a
level 1 table). Messages have all forms of
blocks, empty stored ones, overlapping matches, the first and last value of most
codes, repetitions across the border of the two trees, texts a byte longer or
shorter than the room for them, one text of 25,804 bytes that is all matches, and
one of 5,680 bytes with a checksum, which needs more than one reduction. The
bytes of texts with a checksum are small, because TLC's integers end at 2^31.

`MCPyqcowFile`: two threads, two files of which one is the other's parent, two
objects, two handles: the fewest with which a parent goes while a child is read.
The owner makes five calls, each a choice, the reader two; exceptions come at
any callback. Each file has an object of its own. `Reopens` says whether
`open_file_object` is called on a file that has a handle.

Deadlock is not checked in either: a call, and a program, ends.

### Fairness

`QcowFile!Fairness` is weak fairness of the steps of a thread that is inside a
critical section: such a thread waits for nothing the model has but the
scheduler, so an operating system runs it on. Nothing is assumed of a thread
that waits for the lock (which of them gets it is up to the lock) or that is
idle. `QcowMedia` assumes the same of a thread in the loop of a read.
`QcowMount` assumes it of `main` while it opens a chain and of a callback that
has begun. That lets `FuseCallbackEnds` be shown, since a callback of FUSE is
alone and finds every lock free. A callback of Dokan may find a lock taken each
time it looks: that it ends is not claimed, only that not all of them are stuck
(`CallbacksProgress`).

`QcowCluster` assumes weak fairness of `Next`: it is one call in one thread, and
its loops have nothing to wait for. `PyqcowFile` assumes it of the steps of each
thread inside a call, as above; whether a thread makes its next call is its own
affair. That a thread that waits for the interpreter lock or the lock of a file
gets it in the end (`CallsReturn`) follows because each other thread makes
finitely many calls.

### Findings

1. `file_abort`: nothing reads the abort flag, a read is not aborted.
2. `file_stale_parent`: the parent outlives a close and fills the holes of the
   next image.
3. `file_getter_crash`: the header getters follow a pointer they checked before
   they had the lock.
4. `media_stale_mask`: the sparse flag of version 3 outlives its image and turns
   odd offsets of a version 2 image into holes.
5. `mount_locked`: `qcowmount` means to refuse a locked source, but an encrypted
   image that was opened without keys is never locked, and neither are parents,
   which get no keys.
6. `python_refused_open`: `open_file_object` of a file that has a handle fails,
   and frees the handle the library goes on to use.

2, 4, 5 and 6 need no second thread.

### Observations

What was met on the way and has no run of its own:

* `libqcow_file.c:439`: open's second critical section marks a handle as created
  in the library that may be another one by then: after a close, and an open
  with a handle of the application in between, the next close frees that handle.
  TLC finds this when two threads of `QcowFile` both open and close;
  `CallerHandlesSurvive` holds with one that does.
* `libqcow_file.c:2755`: a block of version 3 with the zero flag is read from the
  parent, where the format document (line 518) says zeros. TLC meets it in `media`
  with image `five`; `ReadsMedia` names it (`ZeroFlagOverParent`).
* `libqcow_file.c:2764`: a parent that is shorter than its child makes the read of the
  child fail. The format document does not say what it should be; `QcowMedia` and
  `QcowMount` do as the code does and no property calls it right or wrong.
* `libqcow_file.c:2045`: a level 2 table is looked up by offset in a vector of
  elements of fixed size; how an offset that is no multiple of it is treated is
  up to libfdata.
* `libqcow_file.c:2143`: version 3 takes bit 0 of a reference for the flag also
  when the block is compressed, whose offsets may be odd. The streams of the
  version 3 file of `cluster` are at even places.
* `libqcow_file.c:2297`: a compressed reference of version 1 with a size of zero is
  read as a plain block.
* `libqcow_file.c:2423`: what a block inflates to is not compared with its size
  (a TODO in the code), and a stream that is cut right after a block that is not
  the last is taken for whole by the built-in inflater (`CutIsNoticed` says no
  more than that), where zlib returns an error.
* `pyqcow_file_object_io_handle.c:1522`: the size callback returns success after
  an exception, so the library goes on with the size it had.
* `pyqcow_file_object_io_handle.c:570`: a read callback copies as many bytes as
  Python returned and does not compare them with what was asked for.
* `pyqcow_file.c:859`: close frees the binding's handle after the library has
  closed: an `open_file_object` of another thread between the two ends in the
  error path of finding 6. `PyqcowFile` has one thread that opens and closes a
  file (`FilesHaveOneOwner`).
* `pyqcow_file_object_io_handle.c:619`: the seek and the read of two files that are
  opened on one object have two locks, and the interpreter runs other threads
  between them: one can read at the place of the other. `ReadsOwnPlace` is claimed,
  and proved, for programs that open each object once (`ObjectsApart`).
* `pyqcow_file.c:1550`: two threads that set a parent at once can leave the
  binding with a reference to one and the library with a pointer to the other;
  a file that is made its own parent waits for its own lock.
* `pyqcow_file.c:1712`: the backing filename is asked for in two calls, and
  nothing says that it is of the same size in both.

## Proofs

`QcowFileProofs` proves, for all threads, images, parents, handles, keys and
bounds, from `ImageConstants` and `FileConstants` alone:

| Theorem | |
| --- | --- |
| `TypeCorrect` | `Spec => []TypeOK` |
| `LockCorrect` | `Spec => []LockHeld` |
| `SessionCorrect` | `Spec => []SessionConsistent` |
| `IoCorrect` | `Spec => []IoOnLiveHandle` |
| `ReadCorrect` | `Spec => []ReadIsOneExtent` |

None of these is inductive alone. `IInv` is `TypeOK`, `LockHeld`,
`SessionConsistent` and `ReadIsOneExtent` (`IoOnLiveHandle` follows) with

* `HandlesInHand`, `HandleOfFile`, `HandlesOfCaller`: a libbfio handle that a
  thread is opening is open and nobody else's; the file's handle is open, with
  the image of the header; what the application made and has not freed is a
  handle of an image. Without them it cannot be shown that a close, a free or
  another open leaves the handle of an open or a read alone;
* `HeaderRead`: between the two steps of an open the header is that of the
  handle in hand, there is no table yet, and the file has no handle: what makes
  a failed open leave a file that is wholly closed;
* `QuietWhenFreed`: there is no call in progress on a file that was freed, so
  that `Initialize` disturbs no one.

`Invariance` has one lemma per action, `IInv /\ Action => IInv'`, each with one
step per conjunct the action can disturb. TLC checked `IInv` as an invariant on
the instance of `file_races` before it was proved.

Some properties of the file do not hold for all threads, because of races in the
code: two opens of two threads can leave a handle to nobody or steal one of the
application (`libqcow_file.c:439`), two can set a parent, and a getter can meet a
close. They are proved from one more assumption, `OneOwnerOnly`: at most one thread
opens, closes, sets a parent, keys or a password, and asks for what is only there
while a file is open. The other threads, as many as there are, read, seek, ask for the offset
and the backing filename, signal an abort, and free the file at the end. `file_promise` is an
instance of it.

| Theorem | |
| --- | --- |
| `HandlesKept` | `OneOwnerOnly` gives `Spec => []NoHandleLeak` |
| `CallerHandlesSafe` | ... `Spec => CallerHandlesSurvive` |
| `ParentStays` | ... `Spec => ParentSetOnce` |
| `GettersAnswer` | ... `Spec => []NoCrash`, which `file_getter_crash` refutes without it |
| `FileImplementsMedia` | ... `Spec => ImplementsMediaHandle` |

Their invariant is `OwnedInv` beside `IInv`: what the check outside of the lock
found is still so inside (`CheckStands`), a handle is the library's exactly when
the open that made it or the file knows so (`OwnersKnown`, in which the file may
be between the two critical sections of open), a freed file has nothing left
(`NothingWhenFreed`), and where a read in progress was started from and how much
it was asked for can be told from what it has (`OffsetsInv`). The last is what
the refinement needs: a read of many rounds takes effect at its last one, and
must then be the read of `MediaHandle` from the offset at which nobody was inside
(`settled_offset`). `NextMaps` goes through the steps: `StartMaps` to
`GettersMap` say which step of `MediaHandle` each is, and the rounds and the first steps of an
open are stutters. TLC checked `OwnedInv` on the instance of `file_promise`.

`QcowMediaProofs` proves, for any images, sizes of clusters, tables and caches, and
any sequence of sessions on one handle, from `MediaConstants` and
`WellWrittenImages`:

| Theorem | |
| --- | --- |
| `TypeCorrect` | `Spec => []TypeOK` |
| `CachesCorrect` | `Spec => []CachesOfSession` |
| `CompleteCorrect` | `Spec => []ReadComplete` |
| `ReadsCorrect` | `Spec => []ReadsMedia` |
| `FailuresCorrect` | `Spec => []OnlyDamageFails` |
| `ReadsFormatCorrect` | `NoneMisread` gives `Spec => []ReadsFormat` |

`ReadsFormat` is `ReadsMedia` without an exception: every byte delivered is `MediaByte`.
`NoneMisread` is about the images that are opened on the handle, in any order: where one
has a backing file, none has the zero flag and no other has a hole; where one is
of version 3, those of other versions have no odd offset. Of a handle that is used for one
image this only says that the image does not have both a backing file and a zero
flag. Images `one` and `two` of `MCQcowMedia` are such (TLC finds `ReadsFormat` true of them),
all six together are not.

Its `IInv` has `MaskOfVersion3`, `ParentOfBacked` (a parent is set only for an image
that has a backing file), the contents of the caches (`CachesInv`), `ReadInv`
and the properties themselves. What a cache holds must be said for every offset
that can find it there: `PlainBlock` says a cached block is of the image, as large
as the file has it, and decrypted as the sectors of *every* media offset that
refers to it, unless it is the last of the file, whose decryption failed and
which is never looked up (`Garbage`). The lemmas before the invariant follow the
code: `Masked` and the parts of an offset, what `Lookups` finds with whatever is
in the slot, what `CompressedBlocks` and `PlainBlocks` return and leave in the
caches, that the bytes a round takes from a block are `MediaByte` of their
offsets, and that what it takes for a hole is one or is `Misread` (`BytesOfHole`). TLC checked this `IInv` on the images of `media` and of `media_stale_mask`.

`QcowMountProofs` proves, for chains of any length, any number of files and
users, FUSE and Dokan, from `MountConstants`, and `ListingsCorrect` from
`ListedNumbersHaveFourDigits` too:

| Theorem | |
| --- | --- |
| `TypeCorrect` | `Spec => []TypeOK` |
| `ChainCorrect` | `Spec => []ChainMounted` |
| `FilesCorrect` | `Spec => []NoFileLost` |
| `ParentsCorrect` | `Spec => []ParentOutlivesChild` |
| `LocksCorrect` | `Spec => []LocksFollowParents` |
| `ProgressCorrect` | `Spec => []CallbacksProgress` |
| `ReadsCorrect` | `Spec => []ReadsOverlay` |
| `ListingsCorrect` | `Spec => []ListedNamesOpen` |

Its `IInv` is `MainInv` and `CallbackInv`. `MainInv` is about the files and what
`main` keeps of them: in each phase what is in hand is a path of open files from
the image down (`HandOpen`, `HandOfPhase`), the array is a path from the base up
(`ArrayChain`), the last file in hand is the one that comes after the array
(`HandOverArray`: what makes a chain of the two when all calls have returned),
and the array is closed from its end (`ArrayOpen`). Callbacks change nothing of
this. `CallbackInv` says that they are in progress only while the files are
served, that each entry is of a file of the array, which locks a user has
(`LocksOf`), and that the frames of a stack are further towards the base one
after the other (`DescendsOf`). From the last follows that a read is in no file
twice, so that the lock it releases is not one it still needs; and
`ProgressCorrect`: of the users who wait take the one whose file is nearest to
the base; who has its lock is further down, so it waits for a file nearer still
or does not wait.

`ReadsCorrect` rests on `IInv` and on a second invariant, `OverlayInv`. A read is of
one file of the array, and its frames are in that file and those below it, one
each; all but the last of them found a hole at the cluster where the callback is
(`FramesAt`), and the buffer has the overlay of all clusters before that one
(`Delivers`), with the one a parent has just read and its child has not yet
counted (`BufferedOf`). The current offset of a file is shared by everybody who
reads it. `FramesAt` says of a frame only while it has its file's lock that the
offset is where the frame has come to: `LocksOf` gives that nobody else moves it
then, and the frame sets it when it gets the lock. `StoredCell` and `NothingStored`
say which cluster the overlay is when a frame stores it, and when no file further
down does; `AnswerOf` is what is left when the frames are gone.

`ListingsCorrect` is about two pieces of code that have to agree and share none: the
callback that writes a number into each name, by taking remainders, and
`get_file_by_path`, which multiplies the digits up again and gives up after four of them.
`AllWrittenWithMore` and `NumberOfNextDigit` go from one number of digits to the
next, which `ListedNumbersHaveFourDigits` says is often enough: the code lists no
more than 999 files. `ListingInv` says that the names a user has so far are those of
the first files of the array, and that the number of files it took at its start is
not more than there are, though the array could only change when the user is gone.
TLC checked all three invariants on the instance of `mount` first.

`QcowClusterProofs` proves, for any widths of numbers, sectors and references, any
files and whatever bytes they have, from `HeaderConstants`, `FilesHaveHeaders`,
`FilesHaveContents` and `CallsAreInputs`:

| Theorem | |
| --- | --- |
| `ShiftsCorrect`, `SplitCorrect` | `HeaderSpec => []ShiftsDefined`, `HeaderSpec => []OffsetsSplit` |
| `ClusterInvariance` | `Spec => []ClusterInv` |
| `TypeCorrect` | `Spec => []TypeOK` |
| `ShiftsOfReadsCorrect`, `SplitOfReadsCorrect` | `Spec => []ShiftsDefined`, `Spec => []OffsetsSplit` |
| `PartsStayInTables` | `Spec => []PartsInTables`: the parts of an offset make it up again and lead into their tables |
| `ReadStaysInBuffer`, `ReadKeepsBitsInOrder` | `Spec => []StaysInBuffer`, `Spec => []BitsInOrder` |

`WellWritten`, what a writer promises, is not among these assumptions: the theorems hold
of every file. With it and with what the writers of the two references are, all that
concerns what is read:

| Theorem | |
| --- | --- |
| `ReadsCorrect` | `AreWrittenFiles(Files)` gives `Spec => []ReadsWhatWasWritten` |
| `ReadInflatesWhatWasWritten`, `ReadRefusesOnlyDamage`, `ReadNoticesCuts` | ... with `AreWritten(Calls)`, `Spec => []WritesText`, `[]OnlyDamageFails`, `[]CutIsNoticed` |

`AreWrittenFiles` says nothing of files that are not `sound`, and `AreWritten` nothing
of data that was altered: all of these may be among the constants as well. That the
hypotheses are met by what the run `cluster` uses TLC evaluates in it (`CallsAreWritten`,
`FilesAreWritten`), so that they are met at all.

The provers know nothing of powers but what the library says of
sets: a set of n members has `2 ^ n` subsets. `PowerOfSum` is that the subsets of two
sets that have nothing in common are the pairs of subsets of each, and from it come the divisions
by powers. `HeaderInv` adds to the types that the
shifts are those of the header the code compared (`ShiftsFollow`), that the
tables follow from them (`TablesFollow`), and that the index shift, which is only
compared with the sizes, was below the width when the open succeeded
(`IndexShiftTested`). `ClusterInv` has it for every file that is opened, with the types
of a read (`ReadInv`), with `InflaterInv` below, and with `CallInv`: the inflater is
as good as new until a read calls it. So a read starts where
`NothingInflatedInv` says the invariant of the inflater holds, of data that is any
part of the file. TLC checked the parts and `PartsInTables` on the instance of
`cluster` first.

For `ReadsCorrect` the invariant goes on (`ReadsInv`): of a file that was written nothing
is refused, a reference that was found is the one `QcowFormat` made for the offset but for
its flag, and the inflater gets the bytes written there, with whatever follows
(`FileInv`); where the inflater runs, its own invariant holds (`InflatesInv`). Each
step rests on a lemma that a reader's operator undoes a writer's:

* `WrittenOpens`: no limit of the three steps of an open refuses the header;
* `IndexesAreTheWriters`, `OffsetHasTable`: shift and mask of an offset are the writer's
  quotients, and its table is one of those that open counted, which version 1 works out
  from the size of the media;
* `ReferenceIsTakenApart`, `PointerIsTakenApart`: flag, size and place of a sum are those
  that were added. The size of a stream never reaches into the flag (`SizeFits`), which is
  what `CanReferTo` is for, and a place that is even leaves the sparse flag of version 3
  alone;
* `EnoughIsRead`: what is read, counted in sectors or bytes and stopped by the end of the
  next cluster block or of the file, is never less than the stream.

`QcowDeflateProofs` proves, for every data, with or without
the header of zlib, and every size of the buffer, from `CallsAreInputs`, and the last
three, of data that was written, with the hypothesis `AreWritten`:

| Theorem | |
| --- | --- |
| `ReducedIsRemainder` | what the two folds and the subtraction leave of a word of 32 bits is its remainder by 65521 |
| `InflaterTypeCorrect` | `InflaterSpec => []InflaterTypeOK` |
| `NothingWrittenPastBuffer` | `InflaterSpec => []StaysInBuffer` |
| `BitsStayInOrder` | `InflaterSpec => []BitsInOrder` |
| `SymbolsStayInTables` | `InflaterSpec => []SymbolsInTables`: a decoded symbol is one of its tree's codes |
| `ChecksumNeverOverflows` | the words of the checksum stay below 2^32 between reductions |
| `ComparedWithAdler32` | `InflaterSpec => []ChecksumIsAdler32`: what has a checksum and is taken has that Adler-32 |
| `InflatesWhatWasWritten` | `AreWritten(Calls)` gives `InflaterSpec => []WritesText` |
| `RefusesOnlyDamage` | ... `InflaterSpec => []OnlyDamageFails` |
| `NoticesCuts` | ... `InflaterSpec => []CutIsNoticed` |

`InflaterInv` is their inductive invariant (`InflaterInvariant`), in parts:

* `StreamInv`: the bits left over are the last ones of the last byte loaded,
  fewer than eight. It is kept by `Values`, whatever number of bits it is asked
  for, and by going to the next whole byte; with it a stored block copies the
  bytes that come next and no others;
* `TreesInv`: where symbols are decoded, the trees are those of at most 288, 30
  and 19 codes: their counts add up to no more than their symbols. A tree is built
  from whatever sizes the data has, so this is where over- and underfilled code
  spaces matter (`CodeOfTree`, `CodesAfterFirst`: the codes of a size come after
  those of all smaller ones, so that a code minus the first of its size is an
  index into the symbols);
* `SizesInv`: no repetition makes more sizes of codes than were announced; without
  it the trees are not those of so many codes;
* `OutputInv`: each write was compared with the room left for it, and a match is
  of at most 258 bytes;
* `ChecksumInv`: how much the words can have grown since they were reduced
  (`AtMost`), for at most 5552 bytes, none of which is past the output.

The operators these rest on are defined by recursion over sizes, bits and symbols.
The library's induction theorems cannot be used for them, since they take the
formula as an operator; `RecursiveFunctions` gets existence and induction from the
least number (`LeastNatural`) with the step as a function, and the `...ByRecursion`
lemmas apply it to each operator.
The theorems are about `InflaterSpec`, the inflater on its own; `QcowClusterProofs`
takes the invariant over to the reads that call it.

`ComparedWithAdler32` needs a second invariant, `AdlerInv`: the words are the sums of
their definition (`Sums`, reduced after every byte) but for multiples of 65521, and
equal to them right after a reduction; nothing is added before the last byte is
written. TLC, whose words of 32 bits never fill up on the short texts of `cluster`,
checked it there; that the deferred reduction is right for long ones only the
proof says.

The last three theorems compare the inflater with the writer. `Comes(q, bits)` says that
the data has these bits from position `q` on, as far as it goes. Its invariant is
`WritesInv`: there is a message that the data was written with, the step the inflater is at is
one of reading it, and its position is where that step is in the bits of the message
(`Progress`): before block `j`, in it, after size `i` of its trees or item `i` of its
items, or behind a block; and what is written is the text up to there. Every action is
shown to go to the next of these places (`...Progress`), every `Cannot...` to
happen only when the data is cut or there is no room. What this needs, piece by piece:

* numbers and bytes: what is read where the bits of a number come is that number, across
  any border of bytes; where the data is cut within them, nothing is read
  (`NumberIsRead`, `ReadsWhatComes`);
* codes: the tree the library builds from sizes numbers the codes as the writer does by
  rank (`NumberOfCode`), it builds one for all sizes a writer may use
  (`SpaceIsLeft`, `TreeIsBuilt`), and a search from the shortest code finds the code that was
  written before any other (`AfterShorterCodes`, `SizeIsFound`), so no code is the
  beginning of another;
* tables: the 29 sizes and 30 distances of the code are those of the writer's rule
  (`SizesAreInTables`, `DistancesAreInTables`), and a size has one code
  (`SizeCodeIs`);
* texts: byte by byte copies are what a match means, also where it overlaps itself
  (`CopiedIs`); blocks and items make the text longer and change nothing of it
  (`TextsAreBeginnings`);
* checksum: the sums by rows of the reference, each byte as often as there are bytes from it
  to the end, are the two words of Adler-32 (`ChecksumIsOfSums`).

`InflationInv` puts `InflaterInv`, `AdlerInv`, `TrailerInv` (a checksum is looked for only
where there is a header) and `WritesInv` together. The message and the position are under
an existential quantifier and never change in a call, so that the proofs fix them once.
TLC checked the three properties and the hypothesis on the instance of `cluster`; of
`WritesInv` the proof is all there is, since TLC cannot look for a message.

`PyqcowFileProofs` proves, for any program, any number of threads, files, objects
and libbfio handles, from `PyqcowConstants`, `CallsHaveArguments` and
`FilesHaveOneOwner`:

| Theorem | |
| --- | --- |
| `Invariance` | `~Reopens` gives `Spec => []IInv` |
| `HandlesCorrect` | ... `Spec => []HandlesLive`, which `python_refused_open` refutes without it |
| `ParentsCorrect` | ... `Spec => []ParentsLive` |
| `PlacesCorrect` | ... with `ObjectsApart`, `Spec => []ReadsOwnPlace` |

`~Reopens` is that the program calls `open_file_object` only on a file that has no
handle: a call on another is finding 6. `ObjectsApart` is that no two files are
opened on one object. The parts of `IInv`:

* `CountInv`: the reference count of each file and object *is* the number of
  variables, calls in progress, children and handles that refer to it. Everything
  rests on this: that something is not freed is shown by naming what it is counted
  for. Each action is shown to change the count by as much as the number
  (`CountsMore`, `CountsLess`), with the theorems of the library on cardinalities;
* `CallInv`, `ChainInv`: a thread in a call is where that call goes, the files a
  read is in are different ones and locked by it;
* `HandleInv`, `OpenInv`: file objects have live handles, no two the same, and the
  library either the one of its file object or none. It has none whenever the binding
  is about to free one: after a failed open, after a close. That this is still so
  when the binding comes to it is where one owner is needed (`SameOwner`);
* `FreeInv`: a file that is being freed has no reference, and gets none again
  (`ZeroStays`);
* `ParentInv`: the parent the library points to is the one the file object refers
  to, or is about to, with the call's own reference in the meantime.

`PlaceInv` is for `ReadsOwnPlace`: between the seek and the read of a thread the
object stays at the place that was sought, since who moves an object has the lock
of the file that is opened on it. TLC checked `IInv` and `PlaceInv` on the instance
of `python` first.

Only model-checked: the liveness properties (`LockIsReleased`, `ReadEnds`,
`OpeningEnds`, `FuseCallbackEnds`, `Terminates`, `CallsReturn`), which are out of the
prover's reach. Each invariant and each action property that a passing run checks is
proved; some of them with hypotheses, which the tables name.

## Plan

1. `QcowFile`, `QcowMedia`, `QcowMount`, `QcowHeader`, `QcowDeflate`,
   `QcowCluster`, `PyqcowFile`, with their runs and proof modules: this much is
   built.
2. `QcowChain`: files as each other's parents in an application's hands: what a
   child reads while its parent is closed, opened again or given a parent.

## Not modelled

Everything that `PROJECT.json` lists as `not_modelled`, which has no behaviour
worth a model: option parsing, output, type registration, the signature check.
Of what is partly modelled: zlib, which a build may use instead of the inflater
here, is a library, and AES another; the conversions of arguments of the Python
binding; the signal handler of the tools, which nothing attaches. What a chain
reads after its parent was closed or changed is in the plan. In-image snapshots,
LUKS and writing are not in the code.

## Running it

    tlc -workers 2 -config FileRaces.cfg MCQcowFile
    tlapm QcowFileProofs.tla
    tlapm QcowMediaProofs.tla
    tlapm QcowMountProofs.tla
    tlc -workers 2 -config Cluster.cfg MCQcowCluster
    tlc -workers 2 -config Python.cfg MCPyqcowFile
    tlapm QcowDeflateLemmas.tla
    tlapm QcowDeflateProofs.tla
    tlapm QcowClusterProofs.tla
    tlapm PyqcowFileProofs.tla
