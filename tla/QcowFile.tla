------------------------------ MODULE QcowFile ------------------------------
(***************************************************************************)
(* One libqcow_file_t shared by several threads: the life cycle of the     *)
(* handle (initialize, open, close, free), the settings that surround it   *)
(* (keys, parent file, abort flag) and the reads of the media, with the    *)
(* read/write lock that protects them.                                     *)
(*                                                                         *)
(* Every API function looks at some field before it grabs the lock, and    *)
(* acts on it after: a call is an Enter step (the unlocked check) followed *)
(* by the steps of its critical section.  A critical section that only     *)
(* unlocked checks could observe half way, and which leaves them nothing   *)
(* new to see, is one step; opening and reading, which do I/O in pieces,   *)
(* take several and hold the lock (writer) across them.                    *)
(*                                                                         *)
(* Media is counted in cluster blocks.  What a cluster block of an image   *)
(* is (stored, a hole, unreadable) is given by Block; how the library      *)
(* finds that out is the subject of QcowMedia.                             *)
(***************************************************************************)
EXTENDS QcowImage

CONSTANTS
  MayCall,      \* MayCall[t]: the API functions thread t calls
  Handles,      \* libbfio handles, allocated by the application or by open
  OpenOutcome,  \* what opening an image comes to: see Outcomes
  NoThread, NoHandle

(* "missing": libbfio cannot open the file; "bad_header", "bad_tables":   *)
(* open_read fails before or after the backing filename is read.          *)
Outcomes == {"ok", "missing", "bad_header", "bad_tables"}

(* The functions of the API.  One name stands for the functions that have *)
(* the same checks and the same locking: get_media_size also for          *)
(* get_format_version and get_number_of_snapshots, get_backing_filename   *)
(* for the four getters of the backing filename and its size,             *)
(* set_password for its UTF-8 and its UTF-16 form, open also for           *)
(* open_wide.                                                              *)
ApiCalls ==
  {"open", "open_file_io_handle", "close", "set_parent_file", "set_keys",
   "set_password", "read_buffer", "read_buffer_at_offset", "seek_offset",
   "get_offset",
   "get_media_size", "get_backing_filename", "is_locked", "signal_abort",
   "free"}

ASSUME FileConstants ==
  /\ MayCall \in [Threads -> SUBSET ApiCalls]
  /\ OpenOutcome \in [Images -> Outcomes]
  /\ NoThread \notin Threads
  /\ NoHandle \notin Handles

-----------------------------------------------------------------------------
VARIABLES
  (* the fields of libqcow_internal_file *)
  allocated,          \* initialize was called, free not yet
  file_io_handle,     \* a member of Handles or NoHandle
  opened_in_library,  \* file_io_handle_opened_in_library
  created_in_library, \* file_io_handle_created_in_library
  current_offset,
  is_locked,
  abort,              \* io_handle->abort
  file_header,        \* the image whose header was read, or NoImage
  backing_filename,   \* TRUE when there is one
  tables,             \* the tables, vectors and caches that are allocated
  context_key,        \* the key of the encryption context, or NoKey
  key_data,
  parent_file,
  (* the threads and the lock *)
  writer,             \* the thread that holds the lock for write, or NoThread
  pc,                 \* where each thread is
  hnd,                \* the libbfio handle the thread is opening
  created,            \* the handle was made by libqcow_file_open
  opened,             \* the local file_io_handle_opened_in_library
  rest,               \* cluster blocks the read still has to deliver
  buffer,             \* the cells the read has delivered so far
  reply,              \* what the last call of the thread returned
  (* outside of the library *)
  handles,            \* the state of each libbfio handle
  (* history *)
  settled_offset      \* current_offset when no read was last in progress

fileFields == <<file_io_handle, opened_in_library, created_in_library,
                current_offset, is_locked, abort, file_header,
                backing_filename, tables, context_key>>
settings == <<key_data, parent_file>>
locals == <<hnd, created, opened, rest, buffer>>
vars == <<allocated, fileFields, settings, writer, pc, locals, reply,
          handles, settled_offset>>

AllTables == {"level1_table", "level2_table_vector", "level2_table_cache",
              "cluster_block_vector", "cluster_block_cache",
              "compressed_cluster_block_cache"}

(* The places where a thread waits for the lock, and those where it has it. *)
Waiting == {"open_wait", "open_mark", "close", "set_parent_file", "set_keys",
            "set_password", "read_buffer", "read_buffer_at_offset",
            "seek_offset", "get_offset", "get_media_size", "get_backing_filename",
            "is_locked"}
Locked == {"open_read", "open_tables", "reading"}
Labels == {"idle", "crashed"} \cup Waiting \cup Locked

HandleStates == [state : {"none", "closed", "open"},
                 image : Images \cup {NoImage},
                 owner : {"nobody", "caller", "library"}]
NoSuchHandle == [state |-> "none", image |-> NoImage, owner |-> "nobody"]

Init ==
  /\ allocated = TRUE
  /\ file_io_handle = NoHandle
  /\ opened_in_library = FALSE
  /\ created_in_library = FALSE
  /\ current_offset = 0
  /\ is_locked = TRUE
  /\ abort = FALSE
  /\ file_header = NoImage
  /\ backing_filename = FALSE
  /\ tables = {}
  /\ context_key = NoKey
  /\ key_data = ZeroKey
  /\ parent_file = NoParent
  /\ writer = NoThread
  /\ pc = [t \in Threads |-> "idle"]
  /\ hnd = [t \in Threads |-> NoHandle]
  /\ created = [t \in Threads |-> FALSE]
  /\ opened = [t \in Threads |-> FALSE]
  /\ rest = [t \in Threads |-> 0]
  /\ buffer = [t \in Threads |-> <<>>]
  /\ reply = [t \in Threads |-> NoReply]
  /\ handles = [h \in Handles |-> NoSuchHandle]
  /\ settled_offset = 0

-----------------------------------------------------------------------------
(* Building blocks of the actions.                                         *)

(* Thread t is free to call function c. *)
Calls(t, c) == allocated /\ pc[t] = "idle" /\ c \in MayCall[t]

(* The lock can be grabbed, for write, or for read by a critical section   *)
(* of one step.                                                            *)
LockFree == writer = NoThread

Goto(t, label) == pc' = [pc EXCEPT ![t] = label]

Return(t, r) ==
  /\ Goto(t, "idle")
  /\ reply' = [reply EXCEPT ![t] = r]

(* A call is refused by its unlocked check. *)
Refuse(t) ==
  /\ Return(t, Error)
  /\ UNCHANGED <<allocated, fileFields, settings, writer, locals, handles,
                 settled_offset>>

(* Mutant: a parent that was set is not looked at. *)
CheckWithoutParent(c) ==
  CASE c = "set_parent_file" -> backing_filename
    [] c \in {"set_keys", "set_password"} -> file_io_handle = NoHandle
    [] c = "get_media_size"  -> file_header # NoImage
    [] c = "is_locked"       -> TRUE
    [] OTHER                 -> file_io_handle # NoHandle

(* The unlocked check of a call that then grabs the lock. *)
Check(c) ==
  CASE c = "set_parent_file" -> backing_filename /\ parent_file = NoParent
    [] c \in {"set_keys", "set_password"} -> file_io_handle = NoHandle
    [] c = "get_media_size"  -> file_header # NoImage
    [] c = "is_locked"       -> TRUE
    [] OTHER                 -> file_io_handle # NoHandle

LockingCalls == Waiting \ {"open_wait", "open_mark"}

Enter(t, c) ==
  /\ c \in LockingCalls
  /\ Calls(t, c)
  /\ \/ /\ Check(c)
        /\ Goto(t, c)
        /\ reply' = [reply EXCEPT ![t] = NoReply]
        /\ UNCHANGED <<allocated, fileFields, settings, writer, locals,
                       handles, settled_offset>>
     \/ ~Check(c) /\ Refuse(t)

-----------------------------------------------------------------------------
(* Opening.                                                                *)

(* libqcow_file_open: a handle of its own for the file, then               *)
(* libqcow_file_open_file_io_handle up to the grab of the lock.            *)
Open(t, h, i) ==
  /\ Calls(t, "open")
  /\ handles[h].state = "none"
  /\ IF file_io_handle # NoHandle \/ OpenOutcome[i] = "missing"
     THEN Refuse(t)
     ELSE /\ handles' = [handles EXCEPT
                ![h] = [state |-> "open", image |-> i, owner |-> "library"]]
          /\ hnd' = [hnd EXCEPT ![t] = h]
          /\ created' = [created EXCEPT ![t] = TRUE]
          /\ opened' = [opened EXCEPT ![t] = TRUE]
          /\ Goto(t, "open_wait")
          /\ reply' = [reply EXCEPT ![t] = NoReply]
          /\ UNCHANGED <<allocated, fileFields, settings, writer, rest,
                         buffer, settled_offset>>

(* No call in progress has the handle, and it is not that of the file. *)
InUse(h) == h = file_io_handle \/ \E t \in Threads : hnd[t] = h

(* libqcow_file_open_file_io_handle with a handle of the application, which *)
(* is opened when it is not yet open.                                       *)
OpenFileIoHandle(t, h) ==
  /\ Calls(t, "open_file_io_handle")
  /\ handles[h].owner = "caller"
  /\ ~InUse(h)
  /\ IF \/ file_io_handle # NoHandle
        \/ handles[h].state = "closed"
           /\ OpenOutcome[handles[h].image] = "missing"
     THEN Refuse(t)
     ELSE /\ handles' = [handles EXCEPT ![h].state = "open"]
          /\ hnd' = [hnd EXCEPT ![t] = h]
          /\ created' = [created EXCEPT ![t] = FALSE]
          /\ opened' = [opened EXCEPT ![t] = handles[h].state = "closed"]
          /\ Goto(t, "open_wait")
          /\ reply' = [reply EXCEPT ![t] = NoReply]
          /\ UNCHANGED <<allocated, fileFields, settings, writer, rest,
                         buffer, settled_offset>>

OpenGrab(t) ==
  /\ pc[t] = "open_wait"
  /\ LockFree
  /\ writer' = t
  /\ Goto(t, "open_read")
  /\ UNCHANGED <<allocated, fileFields, settings, locals, reply, handles,
                 settled_offset>>

(* Mutant: the lock stays grabbed. *)
OpenFailedLocked(t) ==
  /\ handles' = IF created[t]
                THEN [handles EXCEPT ![hnd[t]] = NoSuchHandle]
                ELSE handles
  /\ hnd' = [hnd EXCEPT ![t] = NoHandle]
  /\ Return(t, Error)
  /\ UNCHANGED <<allocated, settings, created, opened, rest, buffer, writer,
                 file_io_handle, opened_in_library, created_in_library,
                 current_offset, is_locked, abort, settled_offset>>

(* Mutant: libqcow_file_open forgets its handle. *)
OpenFailedLeaking(t) ==
  /\ writer' = NoThread
  /\ hnd' = [hnd EXCEPT ![t] = NoHandle]
  /\ Return(t, Error)
  /\ UNCHANGED <<allocated, settings, created, opened, rest, buffer, handles,
                 file_io_handle, opened_in_library, created_in_library,
                 current_offset, is_locked, abort, settled_offset>>

(* The end of a failed open: the lock is released, and libqcow_file_open   *)
(* frees the handle it made.  libqcow_file_open_file_io_handle does not    *)
(* close the handle of the application, also when it had opened it.        *)
OpenFailed(t) ==
  /\ writer' = NoThread
  /\ handles' = IF created[t]
                THEN [handles EXCEPT ![hnd[t]] = NoSuchHandle]
                ELSE handles
  /\ hnd' = [hnd EXCEPT ![t] = NoHandle]
  /\ Return(t, Error)
  /\ UNCHANGED <<allocated, settings, created, opened, rest, buffer,
                 file_io_handle, opened_in_library, created_in_library,
                 current_offset, is_locked, abort, settled_offset>>

(* The checks at the start of libqcow_internal_file_open_read. *)
AlreadyRead == file_header # NoImage \/ backing_filename \/ tables # {}

(* libqcow_internal_file_open_read up to the encryption context: unlocked   *)
(* checks can see the header and the backing filename before the open ends. *)
OpenReadHeader(t) ==
  LET i == handles[hnd[t]].image IN
  /\ pc[t] = "open_read"
  /\ \/ /\ AlreadyRead \/ OpenOutcome[i] = "bad_header"
        /\ OpenFailed(t)
        /\ UNCHANGED <<file_header, backing_filename, tables, context_key>>
     \/ /\ ~AlreadyRead /\ OpenOutcome[i] # "bad_header"
        /\ file_header' = i
        /\ backing_filename' = Backing[i]
        /\ context_key' = SessionKey(i, key_data)
        /\ Goto(t, "open_tables")
        /\ UNCHANGED <<allocated, file_io_handle, opened_in_library,
                       created_in_library, current_offset, is_locked, abort,
                       tables, settings, writer, locals, reply, handles,
                       settled_offset>>

(* Mutant: the level 1 table is not freed. *)
OpenReadCleanupPartial ==
  /\ file_header' = NoImage
  /\ backing_filename' = FALSE
  /\ context_key' = NoKey
  /\ tables' = {"level1_table"}

(* The on_error part of libqcow_internal_file_open_read. *)
OpenReadCleanup ==
  /\ file_header' = NoImage
  /\ backing_filename' = FALSE
  /\ context_key' = NoKey
  /\ tables' = {}

(* The rest of libqcow_internal_file_open_read and, when it succeeds, the  *)
(* assignments of libqcow_file_open_file_io_handle before the release.     *)
OpenReadTables(t) ==
  /\ pc[t] = "open_tables"
  /\ \/ /\ OpenOutcome[file_header] = "bad_tables"
        /\ OpenReadCleanup
        /\ OpenFailed(t)
     \/ /\ OpenOutcome[file_header] # "bad_tables"
        /\ tables' = AllTables
        /\ is_locked' = FALSE
        /\ file_io_handle' = hnd[t]
        /\ opened_in_library' = opened[t]
        /\ hnd' = [hnd EXCEPT ![t] = NoHandle]
        /\ writer' = NoThread
        /\ IF created[t]
           THEN Goto(t, "open_mark") /\ UNCHANGED reply
           ELSE Return(t, Ok)
        /\ UNCHANGED <<allocated, created_in_library, current_offset, abort,
                       file_header, backing_filename, context_key, settings,
                       created, opened, rest, buffer, handles,
                       settled_offset>>

(* The second critical section of libqcow_file_open. *)
OpenMarkCreated(t) ==
  /\ pc[t] = "open_mark"
  /\ LockFree
  /\ created_in_library' = TRUE
  /\ Return(t, Ok)
  /\ UNCHANGED <<allocated, file_io_handle, opened_in_library,
                 current_offset, is_locked, abort, file_header,
                 backing_filename, tables, context_key, settings, writer,
                 locals, handles, settled_offset>>

-----------------------------------------------------------------------------
(* Closing.                                                                *)

(* Mutant: what the library opened it also frees. *)
ReleaseOpenedHandle ==
  handles' =
    IF file_io_handle = NoHandle THEN handles
    ELSE [handles EXCEPT ![file_io_handle] =
            IF opened_in_library THEN NoSuchHandle ELSE @]

(* What libqcow_file_close does to the handle of the file. *)
ReleaseHandle ==
  handles' =
    IF file_io_handle = NoHandle THEN handles
    ELSE IF created_in_library
    THEN [handles EXCEPT ![file_io_handle] = NoSuchHandle]
    ELSE IF opened_in_library
    THEN [handles EXCEPT ![file_io_handle].state = "closed"]
    ELSE handles

(* The fields libqcow_file_close resets; parent_file and key_data it keeps. *)
ResetFields ==
  /\ file_io_handle' = NoHandle
  /\ opened_in_library' = FALSE
  /\ created_in_library' = FALSE
  /\ current_offset' = 0
  /\ is_locked' = TRUE
  /\ abort' = FALSE
  /\ file_header' = NoImage
  /\ backing_filename' = FALSE
  /\ tables' = {}
  /\ context_key' = NoKey

(* Mutant: the lock is not grabbed. *)
CloseUnlocked(t) ==
  /\ pc[t] = "close"
  /\ ReleaseHandle
  /\ ResetFields
  /\ settled_offset' = 0
  /\ Return(t, Ok)
  /\ UNCHANGED <<allocated, settings, writer, locals>>

Close(t) ==
  /\ pc[t] = "close"
  /\ LockFree
  /\ ReleaseHandle
  /\ ResetFields
  /\ settled_offset' = 0
  /\ Return(t, Ok)
  /\ UNCHANGED <<allocated, settings, writer, locals>>

(* libqcow_file_free: the application calls it when no other call on the   *)
(* file is in progress; it closes the file first when it is open.          *)
Free(t) ==
  /\ Calls(t, "free")
  /\ \A u \in Threads : pc[u] = "idle"
  /\ IF file_io_handle # NoHandle THEN ReleaseHandle ELSE UNCHANGED handles
  /\ ResetFields
  /\ settled_offset' = 0
  /\ key_data' = ZeroKey
  /\ parent_file' = NoParent
  /\ allocated' = FALSE
  /\ Return(t, Ok)
  /\ UNCHANGED <<writer, locals>>

(* libqcow_file_initialize: every field is set to 0 and is_locked to 1.    *)
Initialize(t) ==
  /\ ~allocated
  /\ "free" \in MayCall[t]
  /\ allocated' = TRUE
  /\ ResetFields
  /\ key_data' = ZeroKey
  /\ parent_file' = NoParent
  /\ settled_offset' = 0
  /\ UNCHANGED <<writer, pc, locals, reply, handles>>

-----------------------------------------------------------------------------
(* Settings.                                                               *)

SetParentFile(t, p) ==
  /\ pc[t] = "set_parent_file"
  /\ LockFree
  /\ parent_file' = p
  /\ Return(t, Ok)
  /\ UNCHANGED <<allocated, fileFields, key_data, writer, locals, handles,
                 settled_offset>>

SetKeys(t, k) ==
  /\ pc[t] = "set_keys"
  /\ LockFree
  /\ key_data' = k
  /\ Return(t, Ok)
  /\ UNCHANGED <<allocated, fileFields, parent_file, writer, locals,
                 handles, settled_offset>>

(* The password becomes the key; one that cannot be converted wipes it.    *)
SetPassword(t, k) ==
  /\ pc[t] = "set_password"
  /\ LockFree
  /\ \/ key_data' = k /\ Return(t, Ok)
     \/ key_data' = ZeroKey /\ Return(t, Error)
  /\ UNCHANGED <<allocated, fileFields, parent_file, writer, locals,
                 handles, settled_offset>>

(* libqcow_file_signal_abort takes no lock. *)
SignalAbort(t) ==
  /\ Calls(t, "signal_abort")
  /\ abort' = TRUE
  /\ Return(t, Ok)
  /\ UNCHANGED <<allocated, file_io_handle, opened_in_library,
                 created_in_library, current_offset, is_locked, file_header,
                 backing_filename, tables, context_key, settings, writer,
                 locals, handles, settled_offset>>

-----------------------------------------------------------------------------
(* Reading.                                                                *)

(* Seeking and reading start with the same checks, under the lock. *)
Readable == file_header # NoImage /\ (backing_filename => parent_file # NoParent)

unchangedByRead == <<allocated, file_io_handle, opened_in_library,
                     created_in_library, is_locked, file_header,
                     backing_filename, tables, context_key, settings, hnd,
                     created, opened, handles>>

(* Mutant: the error path of a read returns without releasing the lock. *)
ReadErrorLocked(t) ==
  /\ Return(t, Error)
  /\ rest' = [rest EXCEPT ![t] = 0]
  /\ buffer' = [buffer EXCEPT ![t] = <<>>]
  /\ settled_offset' = current_offset
  /\ UNCHANGED <<unchangedByRead, current_offset, abort, writer>>

ReadError(t) ==
  /\ writer' = NoThread
  /\ Return(t, Error)
  /\ rest' = [rest EXCEPT ![t] = 0]
  /\ buffer' = [buffer EXCEPT ![t] = <<>>]
  /\ settled_offset' = current_offset
  /\ UNCHANGED <<unchangedByRead, current_offset, abort>>

(* The start of libqcow_internal_file_read_buffer_from_file_io_handle at   *)
(* offset o: the abort flag is cleared; a read from the end of the media   *)
(* on, or of nothing, returns 0.                                           *)
StartRead(t, o, n) ==
  /\ current_offset' = o
  /\ abort' = FALSE
  /\ IF o >= MediaSize[file_header] \/ n = 0
     THEN /\ Return(t, Ok)
          /\ settled_offset' = o
          /\ UNCHANGED <<writer, rest, buffer>>
     ELSE /\ writer' = t
          /\ Goto(t, "reading")
          /\ rest' = [rest EXCEPT ![t] = n]
          /\ buffer' = [buffer EXCEPT ![t] = <<>>]
          /\ UNCHANGED <<reply, settled_offset>>
  /\ UNCHANGED unchangedByRead

ReadBuffer(t, n) ==
  /\ pc[t] = "read_buffer"
  /\ LockFree
  /\ IF Readable THEN StartRead(t, current_offset, n) ELSE ReadError(t)

(* The seek and the read are one critical section. *)
ReadBufferAtOffset(t, o, n) ==
  /\ pc[t] = "read_buffer_at_offset"
  /\ LockFree
  /\ IF Readable THEN StartRead(t, o, n) ELSE ReadError(t)

(* A cluster block was copied to the buffer: the read goes on, or ends when *)
(* it has all it asked for or is at the end of the media.                   *)
Deliver(t, cell) ==
  LET next == Append(buffer[t], cell) IN
  /\ current_offset' = current_offset + 1
  /\ IF rest[t] = 1 \/ current_offset + 1 >= MediaSize[file_header]
     THEN /\ writer' = NoThread
          /\ Return(t, Reply("ok", next, 0))
          /\ rest' = [rest EXCEPT ![t] = 0]
          /\ buffer' = [buffer EXCEPT ![t] = <<>>]
          /\ settled_offset' = current_offset + 1
     ELSE /\ rest' = [rest EXCEPT ![t] = @ - 1]
          /\ buffer' = [buffer EXCEPT ![t] = next]
          /\ UNCHANGED <<writer, pc, reply, settled_offset>>
  /\ UNCHANGED <<unchangedByRead, abort>>

(* One round of the loop of the internal read.  A read of the parent is a  *)
(* call on another file, which can fail; an error half way leaves          *)
(* current_offset after the cluster blocks that were read.                 *)
ReadClusterBlock(t) ==
  LET kind == Block[file_header][current_offset] IN
  /\ pc[t] = "reading"
  /\ \/ /\ kind = "data"
        /\ Deliver(t, DataCell(file_header, current_offset, context_key))
     \/ /\ kind = "hole" /\ parent_file # NoParent
        /\ \/ Deliver(t, ParentCell(parent_file, current_offset))
           \/ ReadError(t)
     \/ /\ kind = "hole" /\ parent_file = NoParent
        /\ Deliver(t, ZeroCell)
     \/ kind = "bad" /\ ReadError(t)

(* The offset libqcow_internal_file_seek_offset comes to. *)
SeekTarget(whence, delta) ==
  LET base == [set |-> 0, cur |-> current_offset,
               end |-> MediaSize[file_header]]
  IN  base[whence] + delta

(* Mutant: the lock is not grabbed. *)
SeekUnlocked(t, whence, delta) ==
  /\ pc[t] = "seek_offset"
  /\ IF Readable /\ SeekTarget(whence, delta) >= 0
     THEN /\ SeekTarget(whence, delta) <= MaxOffset
          /\ current_offset' = SeekTarget(whence, delta)
          /\ settled_offset' = SeekTarget(whence, delta)
          /\ Return(t, Reply("ok", <<>>, SeekTarget(whence, delta)))
     ELSE /\ Return(t, Error)
          /\ UNCHANGED <<current_offset, settled_offset>>
  /\ UNCHANGED <<unchangedByRead, abort, writer, rest, buffer>>

(* Mutant: the new offset is not checked. *)
SeekUnchecked(t, whence, delta) ==
  /\ pc[t] = "seek_offset"
  /\ LockFree
  /\ Readable
  /\ SeekTarget(whence, delta) <= MaxOffset
  /\ current_offset' = SeekTarget(whence, delta)
  /\ settled_offset' = SeekTarget(whence, delta)
  /\ Return(t, Reply("ok", <<>>, SeekTarget(whence, delta)))
  /\ UNCHANGED <<unchangedByRead, abort, writer, rest, buffer>>

Seek(t, whence, delta) ==
  /\ pc[t] = "seek_offset"
  /\ LockFree
  /\ IF Readable /\ SeekTarget(whence, delta) >= 0
     THEN /\ SeekTarget(whence, delta) <= MaxOffset
          /\ current_offset' = SeekTarget(whence, delta)
          /\ settled_offset' = SeekTarget(whence, delta)
          /\ Return(t, Reply("ok", <<>>, SeekTarget(whence, delta)))
     ELSE /\ Return(t, Error)
          /\ UNCHANGED <<current_offset, settled_offset>>
  /\ UNCHANGED <<unchangedByRead, abort, writer, rest, buffer>>

-----------------------------------------------------------------------------
(* Getters.                                                                *)

Get(t, c, r) ==
  /\ pc[t] = c
  /\ LockFree
  /\ Return(t, r)
  /\ UNCHANGED <<allocated, fileFields, settings, writer, locals, handles,
                 settled_offset>>

(* Mutant: the offset is read without the lock. *)
GetOffsetUnlocked(t) ==
  /\ pc[t] = "get_offset"
  /\ Return(t, Reply("ok", <<>>, current_offset))
  /\ UNCHANGED <<allocated, fileFields, settings, writer, locals, handles,
                 settled_offset>>

GetOffset(t) == Get(t, "get_offset", Reply("ok", <<>>, current_offset))

(* libqcow_file_get_media_size follows file_header, which it checked before *)
(* it had the lock; the process does not survive a NULL pointer.            *)
GetMediaSize(t) ==
  \/ /\ file_header # NoImage
     /\ Get(t, "get_media_size", Reply("ok", <<>>, MediaSize[file_header]))
  \/ /\ file_header = NoImage
     /\ pc[t] = "get_media_size"
     /\ LockFree
     /\ Goto(t, "crashed")
     /\ reply' = [reply EXCEPT ![t] = Reply("crash", <<>>, 0)]
     /\ UNCHANGED <<allocated, fileFields, settings, writer, locals, handles,
                    settled_offset>>

(* 1 when there is a backing filename, 0 when there is none. *)
GetBackingFilename(t) ==
  Get(t, "get_backing_filename",
      Reply("ok", <<>>, IF backing_filename THEN 1 ELSE 0))

IsLocked(t) ==
  Get(t, "is_locked", Reply("ok", <<>>, IF is_locked THEN 1 ELSE 0))

-----------------------------------------------------------------------------
(* The application and its libbfio handles.                                *)

CallerAllocates(h, i) ==
  /\ handles[h].state = "none"
  /\ handles' = [handles EXCEPT
       ![h] = [state |-> "closed", image |-> i, owner |-> "caller"]]
  /\ UNCHANGED <<allocated, fileFields, settings, writer, pc, locals, reply,
                 settled_offset>>

(* The application frees a handle, which closes it, once the library has   *)
(* given it back.                                                          *)
CallerFrees(h) ==
  /\ handles[h].owner = "caller"
  /\ ~InUse(h)
  /\ handles' = [handles EXCEPT ![h] = NoSuchHandle]
  /\ UNCHANGED <<allocated, fileFields, settings, writer, pc, locals, reply,
                 settled_offset>>

-----------------------------------------------------------------------------
OpenSteps(t) ==
  \/ OpenGrab(t) \/ OpenReadHeader(t) \/ OpenReadTables(t)
  \/ OpenMarkCreated(t)

(* A step of a call that was entered. *)
CallStep(t) ==
  \/ OpenSteps(t)
  \/ Close(t)
  \/ \E p \in Parents : SetParentFile(t, p)
  \/ \E k \in Keys : SetKeys(t, k) \/ SetPassword(t, k)
  \/ \E n \in 0..MaxCount : ReadBuffer(t, n)
  \/ \E o \in 0..MaxOffset, n \in 0..MaxCount : ReadBufferAtOffset(t, o, n)
  \/ ReadClusterBlock(t)
  \/ \E w \in {"set", "cur", "end"}, d \in (-MaxOffset)..MaxOffset :
       Seek(t, w, d)
  \/ GetOffset(t) \/ GetMediaSize(t) \/ GetBackingFilename(t) \/ IsLocked(t)

Start(t) ==
  \/ \E c \in LockingCalls : Enter(t, c)
  \/ \E h \in Handles, i \in Images : Open(t, h, i)
  \/ \E h \in Handles : OpenFileIoHandle(t, h)
  \/ SignalAbort(t)
  \/ Free(t)
  \/ Initialize(t)

Next ==
  \/ \E t \in Threads : Start(t) \/ CallStep(t)
  \/ \E h \in Handles, i \in Images : CallerAllocates(h, i)
  \/ \E h \in Handles : CallerFrees(h)

Spec == Init /\ [][Next]_vars

(* A thread that has entered a call is scheduled: the steps of its critical *)
(* sections are taken.  Which waiting thread gets the lock is left open.    *)
Fairness == \A t \in Threads : WF_vars(pc[t] \in Locked /\ CallStep(t))

FairSpec == Spec /\ Fairness

-----------------------------------------------------------------------------
(* Properties.                                                             *)

(* Every variable has its type. *)
TypeOK ==
  /\ allocated \in BOOLEAN
  /\ file_io_handle \in Handles \cup {NoHandle}
  /\ opened_in_library \in BOOLEAN
  /\ created_in_library \in BOOLEAN
  /\ current_offset \in Nat
  /\ is_locked \in BOOLEAN
  /\ abort \in BOOLEAN
  /\ file_header \in Images \cup {NoImage}
  /\ backing_filename \in BOOLEAN
  /\ tables \in SUBSET AllTables
  /\ context_key \in Keys \cup {NoKey}
  /\ key_data \in Keys
  /\ parent_file \in Parents \cup {NoParent}
  /\ writer \in Threads \cup {NoThread}
  /\ pc \in [Threads -> Labels]
  /\ hnd \in [Threads -> Handles \cup {NoHandle}]
  /\ created \in [Threads -> BOOLEAN]
  /\ opened \in [Threads -> BOOLEAN]
  /\ rest \in [Threads -> Nat]
  /\ buffer \in [Threads -> Seq(Cell)]
  /\ reply \in [Threads -> Replies]
  /\ handles \in [Handles -> HandleStates]
  /\ settled_offset \in Nat

(* A thread is between the steps of a critical section exactly when it is  *)
(* the one that holds the lock.                                            *)
LockHeld == \A t \in Threads : pc[t] \in Locked <=> writer = t

(* The file has a handle.  A file between two calls of the API is wholly    *)
(* open or wholly closed: an open that failed, or that found the file open  *)
(* already, leaves nothing behind and destroys nothing.                     *)
HasHandle == file_io_handle # NoHandle

WhollyOpen ==
  /\ file_header # NoImage
  /\ backing_filename = Backing[file_header]
  /\ (context_key # NoKey) = Encrypted[file_header]
  /\ tables = AllTables
  /\ ~is_locked

WhollyClosed ==
  /\ file_header = NoImage
  /\ ~backing_filename
  /\ context_key = NoKey
  /\ tables = {}
  /\ is_locked
  /\ ~opened_in_library

OpenInProgress == \E t \in Threads : pc[t] = "open_tables"

SessionConsistent ==
  ~OpenInProgress => IF HasHandle THEN WhollyOpen ELSE WhollyClosed

(* The I/O of a read, and of an open that is reading its tables, goes to a  *)
(* libbfio handle that is open and that is the one whose header was read,   *)
(* whatever other threads close, open or free in between.                   *)
IoOnLiveHandle ==
  \A t \in Threads :
    LET h == IF pc[t] = "reading" THEN file_io_handle ELSE hnd[t] IN
    pc[t] \in {"reading", "open_tables"} =>
      /\ h # NoHandle
      /\ handles[h].state = "open"
      /\ handles[h].image = file_header

(* What thread t has read so far is a run of consecutive cluster blocks     *)
(* that ends at the current offset, of the image that is open now, with its *)
(* key and its parent, and there is more to read.                           *)
OneExtent(t) ==
  LET got == Len(buffer[t]) IN
  /\ file_header # NoImage
  /\ got <= current_offset
  /\ current_offset < MediaSize[file_header]
  /\ rest[t] > 0
  /\ \A j \in 1..got :
       buffer[t][j] = Content(file_header, context_key, parent_file,
                              current_offset - got + j - 1)

(* A read that takes several rounds is of one image and one extent: no seek, *)
(* close, open or setting of another thread gets between two of its rounds.  *)
ReadIsOneExtent == \A t \in Threads : pc[t] = "reading" => OneExtent(t)

(* A libbfio handle that libqcow_file_open made is held by the file or by   *)
(* the open in progress, until it is freed.                                 *)
NoHandleLeak ==
  \A h \in Handles : handles[h].owner = "library" => InUse(h)

(* The library never frees a libbfio handle of the application: one that is *)
(* the file's stays the application's.                                      *)
CallerHandlesSurvive ==
  [][\A h \in Handles :
       handles[h].owner = "caller" /\ InUse(h) =>
         handles'[h].owner = "caller"]_vars

(* Another parent never takes the place of one that was set: only free      *)
(* takes it away.                                                           *)
ParentSetOnce ==
  [][parent_file # NoParent /\ allocated' => parent_file' = parent_file]_vars

(* A critical section that was started comes to its release on every path,  *)
(* the error paths included.                                                *)
LockIsReleased == []<>(writer = NoThread)

(* The file does what MediaHandle promises.  Until a read is at its end its  *)
(* offset is the one it started from.                                        *)
Media == INSTANCE MediaHandle WITH
  image <- IF HasHandle THEN file_header ELSE NoImage,
  key <- IF HasHandle THEN context_key ELSE NoKey,
  next_key <- key_data,
  parent <- parent_file,
  offset <- settled_offset

ImplementsMediaHandle == Media!Spec

-----------------------------------------------------------------------------
(* Statements of the documentation and of comments that the code does not   *)
(* live up to: each is refuted by a run.                                    *)

(* libqcow_file.c:264 "Signals a file to abort its current activity": once  *)
(* it is signalled, a read in progress delivers no more.                    *)
AbortStopsRead ==
  [][\A t \in Threads :
       abort /\ pc[t] = "reading" => buffer'[t] = <<>>]_vars

(* The file format: "if the cluster block offset is 0 and the image has a   *)
(* backing file" the block is in the backing file, otherwise it is sparse.  *)
ParentOnlyWithBacking ==
  \A t \in Threads : pc[t] = "reading" /\ ~Backing[file_header] =>
    \A j \in 1..Len(buffer[t]) : buffer[t][j].source \notin Parents

(* A getter answers or returns -1. *)
NoCrash == \A t \in Threads : pc[t] # "crashed"
=============================================================================
