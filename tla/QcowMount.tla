------------------------------ MODULE QcowMount ------------------------------
(***************************************************************************)
(* qcowmount: an image is opened with the chain of its backing files, the  *)
(* files of the chain are served as /qcow1, /qcow2, ... to the callbacks   *)
(* of FUSE or Dokan, and closed again.                                     *)
(*                                                                         *)
(* mount_handle_open recurses through the backing filenames: opening holds *)
(* the files of the calls in progress in hand, the image first.  A read    *)
(* recurses through the parents, and takes the lock of each file on its    *)
(* way: the stack of a user holds the reads in progress, the file of the   *)
(* entry first.  Media is counted in cluster blocks, of one size for all   *)
(* files of a chain.                                                       *)
(***************************************************************************)
EXTENDS Integers, Sequences, FiniteSetsExt, SequencesExt

CONSTANTS
  Names,       \* the image files there are, by filename
  BackingName, \* BackingName[n]: the backing filename of image n, or NoName
  Openable,    \* the images that exist and that libqcow can open
  Encrypted,   \* the images that are encrypted
  MediaSize,   \* MediaSize[n]: cluster blocks of the media of image n
  Block,       \* Block[n][c]: cluster block c of image n
  Users,       \* the file handles of the sub system: who opens and reads
  Subsystems,  \* a subset of {"fuse", "dokan"}
  KeyOptions,  \* a subset of BOOLEAN: whether keys are given to qcowmount
  Paths,       \* the paths that users ask for: see RootPath
  Radix,       \* 10
  MaxListed,   \* 999, the most files a directory can have
  Files,       \* the files (libqcow_file_t) the system lets a process open
  MaxOffset,   \* bound: the largest offset that is read from
  MaxCount,    \* bound: the largest number of cluster blocks of one read
  NoName, NoFile, NoUser

BlockKinds == {"data", "hole", "bad"}

ASSUME MountConstants ==
  /\ NoName \notin Names
  /\ BackingName \in [Names -> Names \cup {NoName}]
  /\ Openable \subseteq Names
  /\ Encrypted \subseteq Names
  /\ MediaSize \in [Names -> Nat]
  /\ DOMAIN Block = Names
  /\ \A n \in Names : Block[n] \in [0..(MediaSize[n] - 1) -> BlockKinds]
  /\ NoUser \notin Users
  /\ Subsystems \subseteq {"fuse", "dokan"}
  /\ KeyOptions \subseteq BOOLEAN
  /\ Radix \in Nat \ {0, 1}
  /\ MaxListed \in Nat
  /\ IsFiniteSet(Files)
  /\ MaxOffset \in Nat
  /\ MaxCount \in Nat
  /\ NoFile \notin Files

(* 999 has no more digits than mount_file_system_get_file_by_path reads. *)
ASSUME ListedNumbersHaveFourDigits ==
  MaxListed < Radix * Radix * Radix * Radix

(* A path is what follows the prefix "/qcow", digit by digit; the root     *)
(* directory "/" has a path that no digits have.                           *)
RootPath == <<-1>>

VARIABLES
  subsystem,      \* what qcowmount was built with
  phase,          \* where main is
  hand,           \* the files of the calls of open_parent in progress
  files_array,    \* mount_file_system
  state,          \* state[f]: "none", "open" or "freed"
  image,          \* image[f]: the image file f was opened with
  parent_file,    \* parent_file[f]: a member of Files or NoFile
  keyed,          \* keyed[f]: keys were set before the open
  current_offset,
  writer,         \* writer[f]: the user who holds the lock of f, or NoUser
  entry,          \* entry[u]: the file entry of an open file handle
  call,           \* where the callback for a user is
  stack,          \* the reads it has in progress
  buffer,         \* the cluster blocks read so far
  asked,          \* what the callback was asked to read
  total,          \* the directory entries there are to list
  listed,         \* the names of the directory entries filled so far
  status          \* what the callback returns

files == <<state, image, parent_file, keyed>>
main == <<subsystem, phase, hand, files_array>>
listing == <<total, listed>>
callbacks == <<entry, call, stack, buffer, asked, listing, status>>
vars == <<main, files, current_offset, writer, callbacks>>

NoEntry == [open |-> FALSE, file |-> NoFile]
EntryOf(f) == [open |-> TRUE, file |-> f]
NothingAsked == [offset |-> 0, count |-> 0]

Init ==
  /\ subsystem \in Subsystems
  /\ phase = "start"
  /\ hand = <<>>
  /\ files_array = <<>>
  /\ state = [f \in Files |-> "none"]
  /\ image = [f \in Files |-> NoName]
  /\ parent_file = [f \in Files |-> NoFile]
  /\ keyed = [f \in Files |-> FALSE]
  /\ current_offset = [f \in Files |-> 0]
  /\ writer = [f \in Files |-> NoUser]
  /\ entry = [u \in Users |-> NoEntry]
  /\ call = [u \in Users |-> "idle"]
  /\ stack = [u \in Users |-> <<>>]
  /\ buffer = [u \in Users |-> <<>>]
  /\ asked = [u \in Users |-> NothingAsked]
  /\ total = [u \in Users |-> 0]
  /\ listed = [u \in Users |-> <<>>]
  /\ status = [u \in Users |-> "none"]

-----------------------------------------------------------------------------
(* Opening and closing: main is the only thread.                           *)

Unallocated == {f \in Files : state[f] = "none"}

(* libqcow_file_initialize and libqcow_file_open.  The lock, which open    *)
(* clears and nothing sets, is what mount_handle_is_locked is about.       *)
CanOpen(n) == n \in Openable /\ Unallocated # {}

OpenFile(n, k) ==
  LET f == CHOOSE f \in Unallocated : TRUE IN
  /\ state' = [state EXCEPT ![f] = "open"]
  /\ image' = [image EXCEPT ![f] = n]
  /\ keyed' = [keyed EXCEPT ![f] = k]
  /\ hand' = Append(hand, f)
  /\ UNCHANGED parent_file

(* libqcow_file_free, which closes an open file. *)
FreeFile(f) == state' = [state EXCEPT ![f] = "freed"]

(* mount_handle_open up to the call of mount_handle_open_parent, with the  *)
(* options that main was given: the image and whether there are keys.      *)
MountHandleOpen(n, k) ==
  /\ phase = "start"
  /\ \/ /\ CanOpen(n)
        /\ OpenFile(n, k)
        /\ phase' = "open_parent"
     \/ /\ ~CanOpen(n)
        /\ phase' = "unwind"
        /\ UNCHANGED <<hand, files>>
  /\ UNCHANGED <<subsystem, files_array, current_offset, writer, callbacks>>

InHand == Last(hand)

(* mount_handle_open_parent for the last file in hand, up to its recursive *)
(* call.  Keys and password are those of the image and not of its parents. *)
OpenParent ==
  LET n == BackingName[image[InHand]] IN
  /\ phase = "open_parent"
  /\ \/ /\ n = NoName
        /\ phase' = "append"
        /\ UNCHANGED <<hand, files>>
     \/ /\ n # NoName
        /\ CanOpen(n)
        /\ OpenFile(n, FALSE)
        /\ UNCHANGED phase
     \/ /\ n # NoName
        /\ ~CanOpen(n)
        /\ phase' = "unwind"
        /\ UNCHANGED <<hand, files>>
  /\ UNCHANGED <<subsystem, files_array, current_offset, writer, callbacks>>

(* Mutant: the child is appended in place of the parent. *)
AppendChild ==
  LET child == hand[Len(hand) - 1] IN
  /\ phase = "append"
  /\ Len(hand) > 1
  /\ parent_file' = [parent_file EXCEPT ![child] = InHand]
  /\ files_array' = Append(files_array, child)
  /\ hand' = Front(hand)
  /\ UNCHANGED <<subsystem, phase, state, image, keyed, current_offset,
                 writer, callbacks>>

(* Mutant: a parent that cannot be appended is not freed. *)
AppendParentOrLose ==
  LET child == hand[Len(hand) - 1] IN
  /\ phase = "append"
  /\ Len(hand) > 1
  /\ parent_file' = [parent_file EXCEPT ![child] = InHand]
  /\ hand' = Front(hand)
  /\ \/ files_array' = Append(files_array, InHand) /\ UNCHANGED phase
     \/ phase' = "unwind" /\ UNCHANGED files_array
  /\ UNCHANGED <<subsystem, state, image, keyed, current_offset, writer,
                 callbacks>>

(* The rest of mount_handle_open_parent: the parent is set and appended.   *)
AppendParent ==
  LET child == hand[Len(hand) - 1] IN
  /\ phase = "append"
  /\ Len(hand) > 1
  /\ parent_file' = [parent_file EXCEPT ![child] = InHand]
  /\ \/ /\ files_array' = Append(files_array, InHand)
        /\ hand' = Front(hand)
        /\ UNCHANGED phase
     \/ /\ phase' = "unwind"    \* the array cannot grow
        /\ UNCHANGED <<hand, files_array>>
  /\ UNCHANGED <<subsystem, state, image, keyed, current_offset, writer,
                 callbacks>>

(* The rest of mount_handle_open, to the loop of FUSE or Dokan. *)
AppendImage ==
  /\ phase = "append"
  /\ Len(hand) = 1
  /\ \/ /\ files_array' = Append(files_array, InHand)
        /\ hand' = <<>>
        /\ phase' = "mounted"
     \/ /\ phase' = "unwind"    \* the array cannot grow
        /\ UNCHANGED <<hand, files_array>>
  /\ UNCHANGED <<subsystem, files, current_offset, writer, callbacks>>

(* Mutant: the calls of open_parent do not return. *)
UnwindInPlace ==
  /\ phase = "unwind"
  /\ hand # <<>>
  /\ FreeFile(InHand)
  /\ UNCHANGED <<main, image, parent_file, keyed, current_offset, writer,
                 callbacks>>

(* on_error of the calls of open_parent in progress, then of open: each    *)
(* frees its own file.  Parents that were appended stay in the array.      *)
Unwind ==
  /\ phase = "unwind"
  /\ hand # <<>>
  /\ FreeFile(InHand)
  /\ hand' = Front(hand)
  /\ UNCHANGED <<subsystem, phase, files_array, image, parent_file, keyed,
                 current_offset, writer, callbacks>>

(* on_error of main: mount_handle_free, which does not free the files.     *)
GiveUp ==
  /\ phase = "unwind"
  /\ hand = <<>>
  /\ phase' = "ended"
  /\ files_array' = <<>>
  /\ UNCHANGED <<subsystem, hand, files, current_offset, writer, callbacks>>

Quiet == \A u \in Users : call[u] = "idle"

(* fuse_destroy calls mount_fuse_destroy when the loop has ended; with     *)
(* Dokan nothing is closed.                                                *)
Unmount ==
  /\ phase = "mounted"
  /\ Quiet
  /\ phase' = IF subsystem = "fuse" THEN "close" ELSE "ended"
  /\ UNCHANGED <<subsystem, hand, files_array, files, current_offset, writer,
                 callbacks>>

OpenFiles == {i \in DOMAIN files_array : state[files_array[i]] = "open"}

(* Mutant: the files are closed from the first to the last. *)
CloseFirst ==
  /\ phase = "close"
  /\ \E i \in OpenFiles : /\ \A j \in OpenFiles : i <= j
                          /\ FreeFile(files_array[i])
  /\ phase' \in {"close", "ended"}
  /\ UNCHANGED <<subsystem, hand, files_array, image, parent_file, keyed,
                 current_offset, writer, callbacks>>

(* One round of mount_handle_close: the last file that is not closed yet.  *)
(* What the array points to is freed but stays in the array.  When a close *)
(* fails that file is freed, and the others are not closed.                *)
CloseLast ==
  /\ phase = "close"
  /\ \E i \in OpenFiles : /\ \A j \in OpenFiles : j <= i
                          /\ FreeFile(files_array[i])
  /\ phase' \in {"close", "ended"}
  /\ UNCHANGED <<subsystem, hand, files_array, image, parent_file, keyed,
                 current_offset, writer, callbacks>>

(* The end of mount_fuse_destroy: mount_handle_free. *)
Destroy ==
  /\ phase = "close"
  /\ OpenFiles = {}
  /\ phase' = "ended"
  /\ files_array' = <<>>
  /\ UNCHANGED <<subsystem, hand, files, current_offset, writer, callbacks>>

-----------------------------------------------------------------------------
(* Paths.                                                                  *)

Digits == 0..(Radix - 1)
NumberOf(digits) ==
  LET number[k \in 0..Len(digits)] ==   \* of the first k digits
        IF k = 0 THEN 0 ELSE (number[k - 1] * Radix) + digits[k]
  IN  number[Len(digits)]

(* mount_file_system_get_file_by_path: the set of what it finds.  Numbers  *)
(* have at most 4 digits; leading zeros are read like any other.           *)
FileByPath(path) ==
  IF path = RootPath THEN {NoFile}
  ELSE IF Len(path) \in 1..4 /\ \A i \in DOMAIN path : path[i] \in Digits
          /\ NumberOf(path) \in DOMAIN files_array
       THEN {files_array[NumberOf(path)]}
       ELSE {}

(* Mutant: the index is not made a number that starts with 1. *)
PathOfIndex(index) ==
  CHOOSE path \in UNION {[1..n -> Digits] : n \in 1..4} :
    /\ NumberOf(path) = index
    /\ path[1] # 0 \/ Len(path) = 1

(* mount_file_system_get_path_from_file_index, whose index starts with 0:  *)
(* the digits of the number, with no leading zero.                         *)
PathFromFileIndex(index) ==
  CHOOSE path \in UNION {[1..n -> Digits] : n \in 1..4} :
    /\ NumberOf(path) = index + 1
    /\ path[1] # 0

-----------------------------------------------------------------------------
(* Callbacks.  FUSE calls them one at a time, Dokan from many threads.     *)

Starts(u) ==
  /\ phase = "mounted"
  /\ call[u] = "idle"
  /\ subsystem = "fuse" => Quiet

Goto(u, label) == call' = [call EXCEPT ![u] = label]

Answer(u, s) ==
  /\ Goto(u, "answer")
  /\ status' = [status EXCEPT ![u] = s]

(* mount_fuse_open, mount_fuse_opendir; mount_dokan_CreateFile,            *)
(* mount_dokan_ZwCreateFile, mount_dokan_OpenDirectory.                    *)
Open(u, path) ==
  /\ Starts(u)
  /\ entry[u] = NoEntry
  /\ \/ \E f \in FileByPath(path) :
          entry' = [entry EXCEPT ![u] = EntryOf(f)]
     \/ FileByPath(path) = {} /\ UNCHANGED entry
  /\ UNCHANGED <<main, files, current_offset, writer, call, stack, buffer,
                 asked, listing, status>>

(* mount_fuse_release, mount_fuse_releasedir; mount_dokan_CloseFile. *)
Release(u) ==
  /\ Starts(u)
  /\ entry[u] # NoEntry
  /\ entry' = [entry EXCEPT ![u] = NoEntry]
  /\ UNCHANGED <<main, files, current_offset, writer, call, stack, buffer,
                 asked, listing, status>>

(* mount_fuse_getattr and mount_dokan_GetFileInformation, which find a file *)
(* by its path and get its media size under its lock.                       *)
GetAttr(u, path) ==
  /\ Starts(u)
  /\ \A f \in FileByPath(path) \ {NoFile} : writer[f] = NoUser
  /\ Answer(u, IF FileByPath(path) = {} THEN "error" ELSE "ok")
  /\ UNCHANGED <<main, files, current_offset, writer, entry, stack, buffer,
                 asked, listing>>

(* Only the root directory has entries. *)
NumberOfSubFileEntries(f) == IF f = NoFile THEN Len(files_array) ELSE 0

List(u, f) ==
  IF NumberOfSubFileEntries(f) > MaxListed
  THEN Answer(u, "error") /\ UNCHANGED total
  ELSE /\ Goto(u, "readdir")
       /\ total' = [total EXCEPT ![u] = NumberOfSubFileEntries(f)]
       /\ UNCHANGED status

(* mount_fuse_readdir, of an entry. *)
ReadDir(u) ==
  /\ Starts(u)
  /\ subsystem = "fuse"
  /\ entry[u] # NoEntry
  /\ List(u, entry[u].file)
  /\ UNCHANGED <<main, files, current_offset, writer, entry, stack, buffer,
                 asked, listed>>

(* mount_dokan_FindFiles, of a path. *)
FindFiles(u, path) ==
  /\ Starts(u)
  /\ subsystem = "dokan"
  /\ \/ \E f \in FileByPath(path) : List(u, f)
     \/ FileByPath(path) = {} /\ Answer(u, "error") /\ UNCHANGED total
  /\ UNCHANGED <<main, files, current_offset, writer, entry, stack, buffer,
                 asked, listed>>

(* One round of their loop: the size of the file is read under its lock.   *)
ReadDirEntry(u) ==
  LET i == Len(listed[u]) + 1 IN
  /\ call[u] = "readdir"
  /\ \/ /\ i <= total[u]
        /\ writer[files_array[i]] = NoUser
        /\ listed' = [listed EXCEPT ![u] = Append(@, PathFromFileIndex(i - 1))]
        /\ UNCHANGED <<call, status>>
     \/ /\ i > total[u]
        /\ Answer(u, "ok")
        /\ UNCHANGED listed
  /\ UNCHANGED <<main, files, current_offset, writer, entry, stack, buffer,
                 asked, total>>

-----------------------------------------------------------------------------
(* Reading.                                                                *)

DataCell(n, c) == [image |-> n, block |-> c]
ZeroCell == [image |-> NoName, block |-> 0]

Frame(f, offset, rest) == [file |-> f, offset |-> offset, rest |-> rest]
Top(u) == Last(stack[u])
Replace(u, frame) == stack' = [stack EXCEPT ![u] = Append(Front(@), frame)]

(* mount_fuse_read and mount_dokan_ReadFile: the root directory has no     *)
(* file, and cannot be read.                                               *)
Read(u, offset, count) ==
  /\ Starts(u)
  /\ entry[u] # NoEntry
  /\ asked' = [asked EXCEPT ![u] = [offset |-> offset, count |-> count]]
  /\ IF entry[u].file = NoFile
     THEN Answer(u, "error") /\ UNCHANGED stack
     ELSE /\ Goto(u, "grab")
          /\ stack' = [stack EXCEPT
                         ![u] = <<Frame(entry[u].file, offset, count)>>]
          /\ UNCHANGED status
  /\ UNCHANGED <<main, files, current_offset, writer, entry, buffer, listing>>

(* Mutant: the lock is not grabbed, as in a build without threads. *)
SeekOnly(u) ==
  LET f == Top(u).file IN
  /\ call[u] = "grab"
  /\ current_offset' = [current_offset EXCEPT ![f] = Top(u).offset]
  /\ Goto(u, "round")
  /\ UNCHANGED <<main, files, writer, entry, stack, buffer, asked, listing,
                 status>>

(* The start of libqcow_file_read_buffer_at_offset: the lock is grabbed,   *)
(* and the current offset of the file, which all its readers share, set.   *)
Grab(u) ==
  LET f == Top(u).file IN
  /\ call[u] = "grab"
  /\ writer[f] = NoUser
  /\ writer' = [writer EXCEPT ![f] = u]
  /\ current_offset' = [current_offset EXCEPT ![f] = Top(u).offset]
  /\ Goto(u, "round")
  /\ UNCHANGED <<main, files, entry, stack, buffer, asked, listing, status>>

(* The current offset is not in the media. *)
MediaEnds(u) == current_offset[Top(u).file] >= MediaSize[image[Top(u).file]]

(* The loop of the read has ended: nothing is left to read in the buffer   *)
(* or in the media.                                                        *)
LoopEnds(u) ==
  \/ Top(u).rest = 0
  \/ MediaEnds(u)

KindAt(u) == Block[image[Top(u).file]][current_offset[Top(u).file]]

(* A round of the loop that does not need the parent. *)
RoundOwn(u) ==
  LET f == Top(u).file IN
  /\ call[u] = "round"
  /\ ~LoopEnds(u)
  /\ \/ KindAt(u) = "data"
     \/ KindAt(u) = "hole" /\ parent_file[f] = NoFile
  /\ buffer' = [buffer EXCEPT ![u] = Append(@,
       IF KindAt(u) = "data" THEN DataCell(image[f], current_offset[f])
       ELSE ZeroCell)]
  /\ current_offset' = [current_offset EXCEPT ![f] = @ + 1]
  /\ Replace(u, [Top(u) EXCEPT !.rest = @ - 1])
  /\ UNCHANGED <<main, files, writer, entry, call, asked, listing, status>>

(* A round that asks the parent for the cluster block. *)
RoundParent(u) ==
  LET f == Top(u).file IN
  /\ call[u] = "round"
  /\ ~LoopEnds(u)
  /\ KindAt(u) = "hole"
  /\ parent_file[f] # NoFile
  /\ stack' = [stack EXCEPT
       ![u] = Append(@, Frame(parent_file[f], current_offset[f], 1))]
  /\ Goto(u, "grab")
  /\ UNCHANGED <<main, files, current_offset, writer, entry, buffer, asked,
                 listing, status>>

(* Mutant: the locks stay grabbed. *)
AbandonLocked(u) ==
  /\ stack' = [stack EXCEPT ![u] = <<>>]
  /\ Answer(u, "error")
  /\ UNCHANGED <<main, files, current_offset, writer, entry, buffer, asked,
                 listing>>

(* Every read in progress returns an error, and releases its lock. *)
Abandon(u) ==
  /\ writer' = [f \in Files |-> IF writer[f] = u THEN NoUser ELSE writer[f]]
  /\ stack' = [stack EXCEPT ![u] = <<>>]
  /\ Answer(u, "error")
  /\ UNCHANGED <<main, files, current_offset, entry, buffer, asked, listing>>

(* The cluster block cannot be read. *)
RoundFails(u) ==
  /\ call[u] = "round"
  /\ ~LoopEnds(u)
  /\ KindAt(u) = "bad"
  /\ Abandon(u)

(* The parent has less media than the child: the child takes a read that   *)
(* is short for an error.                                                  *)
ParentFallsShort(u) ==
  /\ call[u] = "round"
  /\ LoopEnds(u)
  /\ Len(stack[u]) > 1
  /\ Top(u).rest > 0
  /\ Abandon(u)

(* Mutant: the lock of the parent is not released. *)
ParentStaysLocked(u) ==
  LET child == stack[u][Len(stack[u]) - 1] IN
  /\ call[u] = "round"
  /\ LoopEnds(u)
  /\ Len(stack[u]) > 1
  /\ Top(u).rest = 0
  /\ current_offset' = [current_offset EXCEPT ![child.file] = @ + 1]
  /\ stack' = [stack EXCEPT
       ![u] = Append(Front(Front(@)), [child EXCEPT !.rest = @ - 1])]
  /\ UNCHANGED <<main, files, writer, entry, call, buffer, asked, listing,
                 status>>

(* The read of the parent ends, and the round of the child with it. *)
ParentReturns(u) ==
  LET child == stack[u][Len(stack[u]) - 1] IN
  /\ call[u] = "round"
  /\ LoopEnds(u)
  /\ Len(stack[u]) > 1
  /\ Top(u).rest = 0
  /\ writer' = [writer EXCEPT ![Top(u).file] = NoUser]
  /\ current_offset' = [current_offset EXCEPT ![child.file] = @ + 1]
  /\ stack' = [stack EXCEPT
       ![u] = Append(Front(Front(@)), [child EXCEPT !.rest = @ - 1])]
  /\ UNCHANGED <<main, files, entry, call, buffer, asked, listing, status>>

(* The read of the entry ends. *)
ReadReturns(u) ==
  /\ call[u] = "round"
  /\ LoopEnds(u)
  /\ Len(stack[u]) = 1
  /\ writer' = [writer EXCEPT ![Top(u).file] = NoUser]
  /\ stack' = [stack EXCEPT ![u] = <<>>]
  /\ Answer(u, "ok")
  /\ UNCHANGED <<main, files, current_offset, entry, buffer, asked, listing>>

(* The callback returns. *)
Return(u) ==
  /\ call[u] = "answer"
  /\ Goto(u, "idle")
  /\ buffer' = [buffer EXCEPT ![u] = <<>>]
  /\ asked' = [asked EXCEPT ![u] = NothingAsked]
  /\ total' = [total EXCEPT ![u] = 0]
  /\ listed' = [listed EXCEPT ![u] = <<>>]
  /\ status' = [status EXCEPT ![u] = "none"]
  /\ UNCHANGED <<main, files, current_offset, writer, entry, stack>>

-----------------------------------------------------------------------------
MainStep ==
  \/ \E n \in Names, k \in KeyOptions : MountHandleOpen(n, k)
  \/ OpenParent
  \/ AppendParent
  \/ AppendImage
  \/ Unwind
  \/ GiveUp

CallbackStep(u) ==
  \/ ReadDirEntry(u)
  \/ Grab(u)
  \/ RoundOwn(u)
  \/ RoundParent(u)
  \/ RoundFails(u)
  \/ ParentFallsShort(u)
  \/ ParentReturns(u)
  \/ ReadReturns(u)
  \/ Return(u)

Next ==
  \/ MainStep
  \/ Unmount
  \/ CloseLast
  \/ Destroy
  \/ \E u \in Users :
       \/ \E path \in Paths :
            Open(u, path) \/ GetAttr(u, path) \/ FindFiles(u, path)
       \/ Release(u)
       \/ ReadDir(u)
       \/ \E offset \in 0..MaxOffset, count \in 1..MaxCount :
            Read(u, offset, count)
       \/ CallbackStep(u)

(* main and a callback that has begun are run on by the system. *)
Fairness ==
  /\ WF_vars(MainStep)
  /\ \A u \in Users : WF_vars(CallbackStep(u))

Spec == Init /\ [][Next]_vars /\ Fairness

-----------------------------------------------------------------------------
(* Properties.                                                             *)

Phases == {"start", "open_parent", "append", "unwind", "mounted", "close",
           "ended"}
Calls == {"idle", "readdir", "grab", "round", "answer"}
Cells == [image : Names \cup {NoName}, block : Nat]
ListedPaths == {PathFromFileIndex(i - 1) : i \in 1..MaxListed}

(* Every variable has its type. *)
TypeOK ==
  /\ subsystem \in Subsystems
  /\ phase \in Phases
  /\ hand \in Seq(Files)
  /\ files_array \in Seq(Files)
  /\ state \in [Files -> {"none", "open", "freed"}]
  /\ image \in [Files -> Names \cup {NoName}]
  /\ parent_file \in [Files -> Files \cup {NoFile}]
  /\ keyed \in [Files -> BOOLEAN]
  /\ current_offset \in [Files -> Nat]
  /\ writer \in [Files -> Users \cup {NoUser}]
  /\ entry \in [Users -> [open : BOOLEAN, file : Files \cup {NoFile}]]
  /\ call \in [Users -> Calls]
  /\ stack \in [Users -> Seq([file : Files, offset : Nat, rest : Nat])]
  /\ buffer \in [Users -> Seq(Cells)]
  /\ asked \in [Users -> [offset : Nat, count : Nat]]
  /\ total \in [Users -> 0..MaxListed]
  /\ listed \in [Users -> Seq(ListedPaths)]
  /\ status \in [Users -> {"none", "ok", "error"}]

(* What mount_handle_open leaves behind is the chain of the image: each    *)
(* file is open, with the image that its child names as backing file, and  *)
(* is the parent of the next one; the first has no backing file.           *)
ChainMounted ==
  phase = "mounted" =>
    /\ files_array # <<>>
    /\ IsInjective(files_array)
    /\ BackingName[image[files_array[1]]] = NoName
    /\ parent_file[files_array[1]] = NoFile
    /\ \A i \in DOMAIN files_array : state[files_array[i]] = "open"
    /\ \A i \in 2..Len(files_array) :
         /\ parent_file[files_array[i]] = files_array[i - 1]
         /\ BackingName[image[files_array[i]]] = image[files_array[i - 1]]

(* No open fails with a file forgotten: as long as the mount handle is     *)
(* there, a file that is open is in its array or in hand of the call that  *)
(* opened it.                                                              *)
NoFileLost ==
  phase # "ended" =>
    {f \in Files : state[f] = "open"}
      \subseteq ToSet(hand) \cup ToSet(files_array)

(* A file of the array is not freed before its children, and a callback    *)
(* uses open files only.                                                   *)
ParentOutlivesChild ==
  /\ \A f \in ToSet(files_array) :
       state[f] = "open" /\ parent_file[f] # NoFile
         => state[parent_file[f]] = "open"
  /\ \A u \in Users : call[u] # "idle" =>
       /\ entry[u].file # NoFile => state[entry[u].file] = "open"
       /\ \A i \in DOMAIN stack[u] : state[stack[u][i].file] = "open"

(* A read holds the locks of the files it is in, each the parent of the    *)
(* one before, and no other; it waits for that of the last one at most.    *)
LocksFollowParents ==
  \A u \in Users :
    LET s == stack[u]
        held == IF call[u] = "grab" THEN Len(s) - 1 ELSE Len(s)
    IN  /\ call[u] \in {"grab", "round"} <=> s # <<>>
        /\ \A i \in 1..(Len(s) - 1) :
             parent_file[s[i].file] = s[i + 1].file
        /\ {f \in Files : writer[f] = u} = {s[i].file : i \in 1..held}

WaitsFor(u, f) ==
  \/ call[u] = "grab" /\ Top(u).file = f
  \/ /\ call[u] = "readdir"
     /\ Len(listed[u]) < total[u]
     /\ files_array[Len(listed[u]) + 1] = f

(* Callbacks do not all wait for each other: one at least has the lock it  *)
(* wants, or does not want any.                                            *)
CallbacksProgress ==
  (\E u \in Users : call[u] # "idle") =>
    \E u \in Users : /\ call[u] # "idle"
                     /\ \A f \in Files : WaitsFor(u, f) => writer[f] = NoUser

Layer(k) == image[files_array[k]]
Has(k, c) == c < MediaSize[Layer(k)]

(* Cluster block c of the media of the k-th file: that of the last layer,  *)
(* from the k-th down, which stores it.                                    *)
OverlayCell(k, c) ==
  LET stored == {j \in 1..k : Has(j, c) /\ Block[Layer(j)][c] = "data"}
  IN  IF stored = {} THEN ZeroCell ELSE DataCell(Layer(Max(stored)), c)

(* On the way to what is stored there is a layer whose block cannot be     *)
(* read, or which is too short.                                            *)
Damaged(k, c) ==
  \E j \in 1..k :
    /\ ~Has(j, c) \/ Block[Layer(j)][c] = "bad"
    /\ \A i \in (j + 1)..k : Has(i, c) /\ Block[Layer(i)][c] = "hole"

(* A read of /qcowN delivers the media of the N-th layer of the chain, all *)
(* of what was asked for and the media has, whatever other callbacks read  *)
(* of the same files; it fails only where the chain is damaged.            *)
ReadsOverlay ==
  \A u \in Users :
    LET a == asked[u] IN
    a # NothingAsked /\ entry[u].file # NoFile =>
      \E k \in DOMAIN files_array :
        LET wanted == {c \in a.offset..(a.offset + a.count - 1) : Has(k, c)} IN
        /\ files_array[k] = entry[u].file
        /\ \A j \in DOMAIN buffer[u] :
             buffer[u][j] = OverlayCell(k, a.offset + j - 1)
        /\ status[u] = "ok" => Len(buffer[u]) = Cardinality(wanted)
        /\ status[u] = "error" => \E c \in wanted : Damaged(k, c)

(* The names that a directory lists open the files they stand for. *)
ListedNamesOpen ==
  \A u \in Users : \A i \in DOMAIN listed[u] :
    FileByPath(listed[u][i]) = {files_array[i]}

(* mount_handle_open comes back, also when an image is its own backing     *)
(* file: the system runs out of files first.                               *)
OpeningEnds == phase = "start" ~> phase \in {"mounted", "ended"}

(* A callback of FUSE, which calls one at a time, returns: a read never    *)
(* waits for a lock that it has itself.                                    *)
FuseCallbackEnds ==
  \A u \in Users :
    (subsystem = "fuse" /\ call[u] # "idle") ~> call[u] = "idle"

(* qcowmount.c:390-398 refuses a source that is locked ("Unable to unlock  *)
(* source image"): what is served was opened with keys if it is encrypted. *)
(* Refuted: open clears is_locked whether keys were set or not, and the    *)
(* parents are never given any.                                            *)
LockedIsRefused ==
  phase = "mounted" =>
    \A i \in DOMAIN files_array :
      image[files_array[i]] \in Encrypted => keyed[files_array[i]]
=============================================================================
