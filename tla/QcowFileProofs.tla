--------------------------- MODULE QcowFileProofs ---------------------------
(***************************************************************************)
(* Theorems about QcowFile, for every number of threads, of handles and of *)
(* images, and for every choice of the calls each thread makes.            *)
(***************************************************************************)
EXTENDS QcowFile, TLAPS

(***************************************************************************)
(* The inductive invariant.  LockHeld, SessionConsistent, IoOnLiveHandle    *)
(* and ReadIsOneExtent are not inductive: that a close spares a read needs  *)
(* LockHeld; that an open finds a file without a handle needs               *)
(* SessionConsistent; and that no one else changes the handle an open       *)
(* works on needs to know who holds which handle.                           *)
(***************************************************************************)
Opening == {"open_wait", "open_read", "open_tables"}

(* A thread has a libbfio handle in hand exactly while it opens one; it is *)
(* open, of an image, and no other thread's and not that of the file.      *)
HandlesInHand ==
  /\ \A t \in Threads : pc[t] \in Opening <=> hnd[t] # NoHandle
  /\ \A t \in Threads : hnd[t] # NoHandle =>
       /\ hnd[t] # file_io_handle
       /\ handles[hnd[t]].state = "open"
       /\ handles[hnd[t]].image \in Images
  /\ \A t, u \in Threads : hnd[t] = hnd[u] /\ hnd[t] # NoHandle => t = u

HandleOfFile ==
  HasHandle => /\ handles[file_io_handle].state = "open"
               /\ handles[file_io_handle].image = file_header

HandlesOfCaller ==
  \A h \in Handles : handles[h].owner = "caller" =>
    handles[h].state # "none" /\ handles[h].image \in Images

(* An open that reads its tables works on a file that was wholly closed.   *)
HeaderRead ==
  \A t \in Threads : pc[t] = "open_tables" =>
    /\ ~HasHandle
    /\ file_header = handles[hnd[t]].image
    /\ backing_filename = Backing[file_header]
    /\ (context_key # NoKey) = Encrypted[file_header]
    /\ tables = {}
    /\ is_locked
    /\ ~opened_in_library

QuietWhenFreed == ~allocated => \A t \in Threads : pc[t] = "idle"

IInv ==
  /\ TypeOK
  /\ LockHeld
  /\ QuietWhenFreed
  /\ HandlesInHand
  /\ HandleOfFile
  /\ HandlesOfCaller
  /\ HeaderRead
  /\ SessionConsistent
  /\ ReadIsOneExtent

(* The replies of the model, and the cells a read delivers, are well typed. *)
LEMMA ReplyType ==
  ASSUME NEW status \in {"none", "ok", "error", "crash"},
         NEW cells \in Seq(Cell), NEW value \in Int
  PROVE  Reply(status, cells, value) \in Replies
BY DEF Reply, Replies

LEMMA SimpleReplies ==
  /\ Ok \in Replies
  /\ Error \in Replies
  /\ NoReply \in Replies
BY DEF Ok, Error, NoReply, Reply, Replies

LEMMA CellType ==
  /\ ZeroCell \in Cell
  /\ \A i \in Images, c \in Nat, k \in Keys \cup {NoKey} :
       DataCell(i, c, k) \in Cell
  /\ \A p \in Parents, c \in Nat : ParentCell(p, c) \in Cell
BY DEF Cell, ZeroCell, DataCell, ParentCell

LEMMA InitType == Init => TypeOK
<1> SUFFICES ASSUME Init
             PROVE  TypeOK
  OBVIOUS
<1> USE ImageConstants, SimpleReplies DEF ImageConstants, Init
<1>1. /\ file_io_handle \in Handles \cup {NoHandle}
      /\ current_offset \in Nat
      /\ tables \in SUBSET AllTables
      /\ context_key \in Keys \cup {NoKey}
      /\ key_data \in Keys
  OBVIOUS
<1>2. "idle" \in Labels
  BY DEF Labels
<1>3. /\ pc \in [Threads -> Labels]
      /\ hnd \in [Threads -> Handles \cup {NoHandle}]
      /\ created \in [Threads -> BOOLEAN]
      /\ rest \in [Threads -> Nat]
  BY <1>2
<1>4. NoSuchHandle \in HandleStates
  BY DEF NoSuchHandle, HandleStates
<1>5. reply \in [Threads -> Replies] /\ handles \in [Handles -> HandleStates]
  BY <1>4
<1>6. buffer \in [Threads -> Seq(Cell)]
  OBVIOUS
<1>7. QED
  BY <1>1, <1>3, <1>5, <1>6 DEF TypeOK

(* Changing the state of a handle keeps its type. *)
LEMMA HandleStateType ==
  ASSUME TypeOK, NEW h \in Handles, NEW s \in {"none", "closed", "open"}
  PROVE  [handles EXCEPT ![h].state = s] \in [Handles -> HandleStates]
<1>1. handles[h] \in HandleStates
  BY DEF TypeOK
<1>2. [handles[h] EXCEPT !.state = s] \in HandleStates
  BY <1>1 DEF HandleStates
<1>3. QED
  BY <1>2 DEF TypeOK

LEMMA NoSuchHandleType ==
  ASSUME TypeOK, NEW h \in Handles
  PROVE  [handles EXCEPT ![h] = NoSuchHandle] \in [Handles -> HandleStates]
BY DEF TypeOK, HandleStates, NoSuchHandle

LEMMA ReleaseHandleType ==
  ASSUME TypeOK, ReleaseHandle
  PROVE  handles' \in [Handles -> HandleStates]
BY HandleStateType, NoSuchHandleType DEF TypeOK, ReleaseHandle

LEMMA RefuseType ==
  ASSUME TypeOK, NEW t \in Threads, Refuse(t)
  PROVE  TypeOK'
BY SimpleReplies
   DEF TypeOK, Refuse, Return, Goto, Labels, fileFields, settings, locals

LEMMA StartType ==
  ASSUME TypeOK, NEW t \in Threads, Start(t)
  PROVE  TypeOK'
<1> USE SimpleReplies
<1>1. ASSUME NEW c \in LockingCalls, Enter(t, c)
      PROVE  TypeOK'
  <2>1. c \in Labels
    BY <1>1 DEF LockingCalls, Labels
  <2>2. QED
    BY <1>1, <2>1 DEF TypeOK, Enter, Refuse, Return, Goto, Labels,
         fileFields, settings, locals
<1>2. ASSUME NEW h \in Handles, NEW i \in Images, Open(t, h, i)
      PROVE  TypeOK'
  <2>1. CASE Refuse(t)
    BY <2>1, RefuseType
  <2>2. CASE ~Refuse(t)
    <3>1. /\ handles' = [handles EXCEPT
                ![h] = [state |-> "open", image |-> i, owner |-> "library"]]
          /\ hnd' = [hnd EXCEPT ![t] = h]
          /\ created' = [created EXCEPT ![t] = TRUE]
          /\ opened' = [opened EXCEPT ![t] = TRUE]
          /\ Goto(t, "open_wait")
          /\ reply' = [reply EXCEPT ![t] = NoReply]
          /\ UNCHANGED <<allocated, fileFields, settings, writer, rest,
                         buffer, settled_offset>>
      BY <1>2, <2>2 DEF Open
    <3>2. [state |-> "open", image |-> i, owner |-> "library"] \in HandleStates
      BY DEF HandleStates
    <3>3. handles' \in [Handles -> HandleStates]
      BY <3>1, <3>2 DEF TypeOK
    <3>4. QED
      BY <3>1, <3>3 DEF TypeOK, Goto, Labels, Waiting, fileFields, settings
  <2>3. QED
    BY <2>1, <2>2
<1>3. ASSUME NEW h \in Handles, OpenFileIoHandle(t, h)
      PROVE  TypeOK'
  <2>1. CASE Refuse(t)
    BY <2>1, RefuseType
  <2>2. CASE ~Refuse(t)
    <3>1. /\ handles' = [handles EXCEPT ![h].state = "open"]
          /\ hnd' = [hnd EXCEPT ![t] = h]
          /\ created' = [created EXCEPT ![t] = FALSE]
          /\ opened' = [opened EXCEPT ![t] = handles[h].state = "closed"]
          /\ Goto(t, "open_wait")
          /\ reply' = [reply EXCEPT ![t] = NoReply]
          /\ UNCHANGED <<allocated, fileFields, settings, writer, rest,
                         buffer, settled_offset>>
      BY <1>3, <2>2 DEF OpenFileIoHandle
    <3>2. handles' \in [Handles -> HandleStates]
      BY <3>1, HandleStateType
    <3>3. QED
      BY <3>1, <3>2 DEF TypeOK, Goto, Labels, Waiting, fileFields, settings
  <2>3. QED
    BY <2>1, <2>2
<1>4. CASE SignalAbort(t)
  BY <1>4 DEF TypeOK, SignalAbort, Return, Goto, Labels, settings, locals
<1>6. CASE Free(t)
  BY <1>6, ReleaseHandleType, ImageConstants, FileConstants
     DEF ImageConstants, TypeOK, Free, ResetFields, Return, Goto, Labels, locals
<1>7. CASE Initialize(t)
  BY <1>7, ImageConstants
     DEF ImageConstants, TypeOK, Initialize, ResetFields, locals
<1>8. QED
  BY <1>1, <1>2, <1>3, <1>4, <1>6, <1>7 DEF Start


(* Who is inside a critical section holds the lock, and is alone there. *)
LEMMA NobodyInside ==
  ASSUME IInv, LockFree
  PROVE  \A t \in Threads : pc[t] \notin Locked
BY FileConstants DEF FileConstants, IInv, LockHeld, LockFree

LEMMA AloneInside ==
  ASSUME IInv, NEW t \in Threads, pc[t] \in Locked
  PROVE  /\ writer = t
         /\ \A u \in Threads : u # t => pc[u] \notin Locked
BY FileConstants DEF FileConstants, IInv, LockHeld

(* A failed open keeps the types. *)
LEMMA OpenFailedType ==
  ASSUME TypeOK, NEW t \in Threads, OpenFailed(t),
         \/ OpenReadCleanup
         \/ UNCHANGED <<file_header, backing_filename, tables, context_key>>
  PROVE  TypeOK'
<1>1. NoSuchHandle \in HandleStates
  BY DEF NoSuchHandle, HandleStates
<1>2. handles' \in [Handles -> HandleStates]
  BY <1>1 DEF TypeOK, OpenFailed
<1>3. /\ file_header' \in Images \cup {NoImage}
      /\ backing_filename' \in BOOLEAN
      /\ tables' \in SUBSET AllTables
      /\ context_key' \in Keys \cup {NoKey}
  BY DEF TypeOK, OpenReadCleanup
<1>4. QED
  BY <1>2, <1>3, SimpleReplies
     DEF TypeOK, OpenFailed, Return, Goto, Labels, settings

LEMMA OpenStepsType ==
  ASSUME IInv, NEW t \in Threads, OpenSteps(t)
  PROVE  TypeOK'
<1> USE SimpleReplies
<1>0. TypeOK
  BY DEF IInv
<1>1. CASE OpenGrab(t)
  BY <1>0, <1>1 DEF TypeOK, OpenGrab, Goto, Labels, Locked, fileFields,
     settings, locals
<1>2. CASE OpenReadHeader(t)
  <2> DEFINE i == handles[hnd[t]].image
  <2>1. CASE OpenFailed(t) /\ UNCHANGED <<file_header, backing_filename, tables, context_key>>
    BY <1>0, <2>1, OpenFailedType
  <2>2. CASE /\ file_header' = i
             /\ backing_filename' = Backing[i]
             /\ context_key' = SessionKey(i, key_data)
             /\ Goto(t, "open_tables")
             /\ UNCHANGED <<allocated, file_io_handle, opened_in_library,
                       created_in_library, current_offset, is_locked, abort,
                       tables, settings, writer, locals, reply, handles,
                       settled_offset>>
    <3>1. i \in Images
      BY <1>2 DEF OpenReadHeader, IInv, HandlesInHand, Opening
    <3>2. Backing[i] \in BOOLEAN /\ SessionKey(i, key_data) \in Keys \cup {NoKey}
      BY <1>0, <3>1, ImageConstants DEF ImageConstants, TypeOK, SessionKey
    <3>3. file_header' \in Images /\ backing_filename' \in BOOLEAN
          /\ context_key' \in Keys \cup {NoKey}
      BY <2>2, <3>1, <3>2
    <3>4. QED
      BY <1>0, <2>2, <3>3 DEF TypeOK, Goto, Labels, Locked, settings, locals
  <2>3. QED
    BY <1>2, <2>1, <2>2 DEF OpenReadHeader
<1>3. CASE OpenReadTables(t)
  <2>1. CASE OpenReadCleanup /\ OpenFailed(t)
    BY <1>0, <2>1, OpenFailedType
  <2>2. CASE ~(OpenReadCleanup /\ OpenFailed(t))
    <3>1. /\ tables' = AllTables
          /\ is_locked' = FALSE
          /\ file_io_handle' = hnd[t]
          /\ opened_in_library' = opened[t]
          /\ hnd' = [hnd EXCEPT ![t] = NoHandle]
          /\ writer' = NoThread
          /\ \/ Goto(t, "open_mark") /\ UNCHANGED reply
             \/ Return(t, Ok)
          /\ UNCHANGED <<allocated, created_in_library, current_offset, abort,
                       file_header, backing_filename, context_key, settings,
                       created, opened, rest, buffer, handles,
                       settled_offset>>
      BY <1>3, <2>2 DEF OpenReadTables
    <3>2. pc' \in [Threads -> Labels] /\ reply' \in [Threads -> Replies]
      BY <1>0, <3>1 DEF TypeOK, Return, Goto, Labels, Waiting
    <3>3. QED
      BY <1>0, <3>1, <3>2 DEF TypeOK, settings
  <2>3. QED
    BY <2>1, <2>2
<1>4. CASE OpenMarkCreated(t)
  BY <1>0, <1>4 DEF TypeOK, OpenMarkCreated, Return, Goto, Labels, settings,
     locals
<1>5. QED
  BY <1>1, <1>2, <1>3, <1>4 DEF OpenSteps

(* Reading keeps the types. *)
LEMMA ReadErrorType ==
  ASSUME TypeOK, NEW t \in Threads, ReadError(t)
  PROVE  TypeOK'
<1>1. <<>> \in Seq(Cell)
  OBVIOUS
<1>2. /\ buffer' \in [Threads -> Seq(Cell)]
      /\ rest' \in [Threads -> Nat]
      /\ writer' \in Threads \cup {NoThread}
  BY <1>1 DEF ReadError, TypeOK
<1>3. pc' \in [Threads -> Labels] /\ reply' \in [Threads -> Replies]
  BY SimpleReplies DEF ReadError, Return, Goto, TypeOK, Labels
<1>4. QED
  BY <1>2, <1>3 DEF TypeOK, ReadError, unchangedByRead, settings

LEMMA StartReadType ==
  ASSUME TypeOK, NEW t \in Threads, NEW o \in Nat, NEW n \in Nat,
         StartRead(t, o, n)
  PROVE  TypeOK'
<1>0. <<>> \in Seq(Cell)
  OBVIOUS
<1>1. /\ writer' \in Threads \cup {NoThread}
      /\ rest' \in [Threads -> Nat]
      /\ pc' \in [Threads -> Labels]
      /\ reply' \in [Threads -> Replies]
      /\ buffer' \in [Threads -> Seq(Cell)]
      /\ settled_offset' \in Nat
  BY <1>0, SimpleReplies DEF StartRead, TypeOK, Return, Goto, Labels, Locked
<1>2. current_offset' \in Nat /\ abort' \in BOOLEAN
  BY DEF StartRead
<1>3. QED
  BY <1>1, <1>2 DEF TypeOK, StartRead, unchangedByRead, settings

LEMMA DeliverType ==
  ASSUME TypeOK, NEW t \in Threads, NEW cell \in Cell, rest[t] > 0,
         Deliver(t, cell)
  PROVE  TypeOK'
<1> DEFINE next == Append(buffer[t], cell)
<1>1. next \in Seq(Cell) /\ <<>> \in Seq(Cell)
  BY DEF TypeOK
<1>2. \A cells \in Seq(Cell) : Reply("ok", cells, 0) \in Replies
  BY ReplyType
<1>3. current_offset' \in Nat /\ current_offset + 1 \in Nat
  BY DEF Deliver, TypeOK
<1>4. CASE rest[t] = 1 \/ current_offset + 1 >= MediaSize[file_header]
  <2>1. /\ writer' = NoThread
        /\ Return(t, Reply("ok", next, 0))
        /\ rest' = [rest EXCEPT ![t] = 0]
        /\ buffer' = [buffer EXCEPT ![t] = <<>>]
        /\ settled_offset' = current_offset + 1
        /\ UNCHANGED <<unchangedByRead, abort>>
    BY <1>4 DEF Deliver
  <2>2. reply' \in [Threads -> Replies] /\ pc' \in [Threads -> Labels]
    BY <1>1, <1>2, <2>1 DEF TypeOK, Return, Goto, Labels
  <2>3. buffer' \in [Threads -> Seq(Cell)] /\ rest' \in [Threads -> Nat]
    BY <1>1, <2>1 DEF TypeOK
  <2>4. QED
    BY <1>3, <2>1, <2>2, <2>3 DEF TypeOK, unchangedByRead, settings
<1>5. CASE ~(rest[t] = 1 \/ current_offset + 1 >= MediaSize[file_header])
  <2>1. /\ rest' = [rest EXCEPT ![t] = rest[t] - 1]
        /\ buffer' = [buffer EXCEPT ![t] = next]
        /\ UNCHANGED <<writer, pc, reply, settled_offset>>
        /\ UNCHANGED <<unchangedByRead, abort>>
    BY <1>5 DEF Deliver
  <2>2. rest[t] - 1 \in Nat
    BY DEF TypeOK
  <2>3. buffer' \in [Threads -> Seq(Cell)] /\ rest' \in [Threads -> Nat]
    BY <1>1, <2>1, <2>2 DEF TypeOK
  <2>4. QED
    BY <1>3, <2>1, <2>3 DEF TypeOK, unchangedByRead, settings
<1>6. QED
  BY <1>4, <1>5

(* The cell that a round of a read delivers is a cell. *)
LEMMA ReadClusterBlockType ==
  ASSUME IInv, NEW t \in Threads, ReadClusterBlock(t)
  PROVE  TypeOK'
<1>0. TypeOK /\ pc[t] = "reading" /\ ReadIsOneExtent
  BY DEF IInv, ReadClusterBlock
<1>1. /\ TypeOK
      /\ rest[t] > 0
      /\ file_header \in Images
  BY <1>0 DEF ReadIsOneExtent, OneExtent, TypeOK
<1>2. PICK cell : cell \in Cell /\ (Deliver(t, cell) \/ ReadError(t))
  <2>1. DataCell(file_header, current_offset, context_key) \in Cell
    BY <1>1, CellType DEF TypeOK
  <2>2. parent_file # NoParent => ParentCell(parent_file, current_offset) \in Cell
    BY <1>1, CellType DEF TypeOK
  <2>3. ZeroCell \in Cell
    BY CellType
  <2>4. QED
    BY <2>1, <2>2, <2>3 DEF ReadClusterBlock
<1>3. QED
  BY <1>1, <1>2, DeliverType, ReadErrorType

LEMMA SeekType ==
  ASSUME TypeOK, NEW t \in Threads, NEW w \in {"set", "cur", "end"},
         NEW d \in Int, Seek(t, w, d)
  PROVE  TypeOK'
<1>1. Readable => MediaSize[file_header] \in Nat
  BY ImageConstants DEF ImageConstants, TypeOK, Readable
<1>2. Readable => SeekTarget(w, d) \in Int
  <2>1. \/ SeekTarget(w, d) = d
        \/ SeekTarget(w, d) = current_offset + d
        \/ SeekTarget(w, d) = MediaSize[file_header] + d
    BY DEF SeekTarget
  <2>2. QED
    BY <1>1, <2>1 DEF TypeOK
<1>3. <<>> \in Seq(Cell)
  OBVIOUS
<1>4. Readable => Reply("ok", <<>>, SeekTarget(w, d)) \in Replies
  BY <1>2, <1>3, ReplyType
<1>5. current_offset' \in Nat /\ settled_offset' \in Nat
  BY <1>2 DEF Seek, TypeOK
<1>6. pc' \in [Threads -> Labels] /\ reply' \in [Threads -> Replies]
  BY <1>4, SimpleReplies DEF Seek, Return, Goto, TypeOK, Labels
<1>7. QED
  BY <1>5, <1>6 DEF TypeOK, Seek, unchangedByRead, settings

LEMMA GetType ==
  ASSUME TypeOK, NEW t \in Threads, NEW c, NEW value \in Int,
         Get(t, c, Reply("ok", <<>>, value))
  PROVE  TypeOK'
<1>1. <<>> \in Seq(Cell)
  OBVIOUS
<1>2. Reply("ok", <<>>, value) \in Replies
  BY <1>1, ReplyType
<1>3. pc' \in [Threads -> Labels] /\ reply' \in [Threads -> Replies]
  BY <1>2 DEF Get, Return, Goto, TypeOK, Labels
<1>4. QED
  BY <1>3 DEF TypeOK, Get, fileFields, settings, locals

LEMMA CallStepType ==
  ASSUME IInv, NEW t \in Threads, CallStep(t)
  PROVE  TypeOK'
<1>0. TypeOK
  BY DEF IInv
<1>1. CASE OpenSteps(t)
  BY <1>1, OpenStepsType
<1>2. CASE Close(t)
  <2>1. handles' \in [Handles -> HandleStates]
    BY <1>0, <1>2, ReleaseHandleType DEF Close
  <2>2. pc' \in [Threads -> Labels] /\ reply' \in [Threads -> Replies]
    BY <1>0, <1>2, SimpleReplies DEF Close, Return, Goto, TypeOK, Labels
  <2>3. QED
    BY <1>0, <1>2, <2>1, <2>2 DEF TypeOK, Close, ResetFields, settings, locals
<1>3. ASSUME NEW p \in Parents, SetParentFile(t, p)
      PROVE  TypeOK'
  BY <1>0, <1>3, SimpleReplies
     DEF TypeOK, SetParentFile, Return, Goto, Labels, fileFields, locals
<1>4. ASSUME NEW k \in Keys, SetKeys(t, k) \/ SetPassword(t, k)
      PROVE  TypeOK'
  <2>1. key_data' \in Keys /\ parent_file' = parent_file
    BY <1>4, ImageConstants DEF ImageConstants, SetKeys, SetPassword
  <2>2. pc' \in [Threads -> Labels] /\ reply' \in [Threads -> Replies]
    BY <1>0, <1>4, SimpleReplies
       DEF SetKeys, SetPassword, Return, Goto, TypeOK, Labels
  <2>3. QED
    BY <1>0, <1>4, <2>1, <2>2
       DEF TypeOK, SetKeys, SetPassword, fileFields, locals
<1>5. ASSUME NEW n \in 0..MaxCount, ReadBuffer(t, n)
      PROVE  TypeOK'
  <2>1. n \in Nat /\ current_offset \in Nat
    BY <1>0, ImageConstants DEF ImageConstants, TypeOK
  <2>2. QED
    BY <1>0, <1>5, <2>1, StartReadType, ReadErrorType DEF ReadBuffer
<1>6. ASSUME NEW o \in 0..MaxOffset, NEW n \in 0..MaxCount,
             ReadBufferAtOffset(t, o, n)
      PROVE  TypeOK'
  <2>1. n \in Nat /\ o \in Nat
    BY ImageConstants DEF ImageConstants
  <2>2. QED
    BY <1>0, <1>6, <2>1, StartReadType, ReadErrorType DEF ReadBufferAtOffset
<1>7. CASE ReadClusterBlock(t)
  BY <1>7, ReadClusterBlockType
<1>8. ASSUME NEW w \in {"set", "cur", "end"},
             NEW d \in (-MaxOffset)..MaxOffset, Seek(t, w, d)
      PROVE  TypeOK'
  <2>1. d \in Int
    BY ImageConstants DEF ImageConstants
  <2>2. QED
    BY <1>0, <1>8, <2>1, SeekType
<1>9. CASE GetOffset(t)
  <2>1. current_offset \in Int
    BY <1>0 DEF TypeOK
  <2>2. QED
    BY <1>0, <1>9, <2>1, GetType DEF GetOffset
<1>10. CASE GetMediaSize(t)
  <2>1. CASE file_header # NoImage
    <3>1. MediaSize[file_header] \in Int
      BY <1>0, <2>1, ImageConstants DEF ImageConstants, TypeOK
    <3>2. QED
      BY <1>0, <1>10, <2>1, <3>1, GetType DEF GetMediaSize
  <2>2. CASE file_header = NoImage
    <3>1. <<>> \in Seq(Cell)
      OBVIOUS
    <3>2. \A cells \in Seq(Cell) : Reply("crash", cells, 0) \in Replies
      BY ReplyType
    <3>3. pc' \in [Threads -> Labels] /\ reply' \in [Threads -> Replies]
      BY <1>0, <1>10, <2>2, <3>1, <3>2 DEF GetMediaSize, TypeOK, Goto, Labels
    <3>4. QED
      BY <1>0, <1>10, <2>2, <3>3
         DEF TypeOK, GetMediaSize, fileFields, settings, locals
  <2>3. QED
    BY <2>1, <2>2
<1>11. CASE GetBackingFilename(t)
  BY <1>0, <1>11, GetType DEF GetBackingFilename
<1>12. CASE IsLocked(t)
  BY <1>0, <1>12, GetType DEF IsLocked
<1>13. QED
  BY <1>1, <1>2, <1>3, <1>4, <1>5, <1>6, <1>7, <1>8, <1>9, <1>10, <1>11,
     <1>12 DEF CallStep

LEMMA NextType == IInv /\ [Next]_vars => TypeOK'
<1> SUFFICES ASSUME IInv, [Next]_vars
             PROVE  TypeOK'
  OBVIOUS
<1>0. TypeOK
  BY DEF IInv
<1>1. ASSUME NEW t \in Threads, Start(t)
      PROVE  TypeOK'
  BY <1>0, <1>1, StartType
<1>2. ASSUME NEW t \in Threads, CallStep(t)
      PROVE  TypeOK'
  BY <1>2, CallStepType
<1>3. ASSUME NEW h \in Handles, NEW i \in Images, CallerAllocates(h, i)
      PROVE  TypeOK'
  <2>1. [state |-> "closed", image |-> i, owner |-> "caller"] \in HandleStates
    BY DEF HandleStates
  <2>2. handles' \in [Handles -> HandleStates]
    BY <1>0, <1>3, <2>1 DEF CallerAllocates, TypeOK
  <2>3. QED
    BY <1>0, <1>3, <2>2
       DEF CallerAllocates, TypeOK, fileFields, settings, locals
<1>4. ASSUME NEW h \in Handles, CallerFrees(h)
      PROVE  TypeOK'
  <2>1. handles' \in [Handles -> HandleStates]
    BY <1>0, <1>4, NoSuchHandleType DEF CallerFrees
  <2>2. QED
    BY <1>0, <1>4, <2>1 DEF CallerFrees, TypeOK, fileFields, settings, locals
<1>5. CASE UNCHANGED vars
  BY <1>0, <1>5 DEF TypeOK, vars, fileFields, settings, locals
<1>6. QED
  BY <1>1, <1>2, <1>3, <1>4, <1>5 DEF Next

-----------------------------------------------------------------------------
(* The other conjuncts of IInv.                                            *)

LEMMA InitIInv == Init => IInv
<1> SUFFICES ASSUME Init
             PROVE  IInv
  OBVIOUS
<1>1. TypeOK
  BY InitType
<1>2. LockHeld /\ ReadIsOneExtent /\ HeaderRead
  BY FileConstants
     DEF FileConstants, Init, LockHeld, ReadIsOneExtent, HeaderRead, Locked
<1>3. QuietWhenFreed /\ HandlesInHand /\ HandleOfFile /\ SessionConsistent
  BY DEF Init, QuietWhenFreed, HandlesInHand, Opening, HandleOfFile,
     SessionConsistent, HasHandle, WhollyClosed
<1>4. HandlesOfCaller
  BY DEF Init, HandlesOfCaller, NoSuchHandle
<1>5. QED
  BY <1>1, <1>2, <1>3, <1>4 DEF IInv

(* A step of a thread that neither has the lock nor a handle in hand, and   *)
(* that leaves what the others rely on alone.                               *)
LEMMA QuietStep ==
  ASSUME IInv, TypeOK', NEW t \in Threads, NEW label,
         allocated, allocated',
         pc[t] \notin Opening \cup Locked,
         label \notin Opening \cup Locked,
         Goto(t, label),
         UNCHANGED <<file_io_handle, opened_in_library, is_locked,
                     file_header, backing_filename, tables, context_key, hnd,
                     writer, handles>>,
         \A u \in Threads : pc[u] = "reading" =>
           /\ rest'[u] = rest[u]
           /\ buffer'[u] = buffer[u]
           /\ UNCHANGED <<current_offset, parent_file>>
  PROVE  IInv'
<1> USE DEF IInv
<1>1. pc' = [pc EXCEPT ![t] = label] /\ pc \in [Threads -> Labels]
  BY DEF Goto, TypeOK
<1>2. LockHeld'
  BY <1>1 DEF LockHeld
<1>3. QuietWhenFreed'
  BY DEF QuietWhenFreed
<1>4. HandlesInHand'
  BY <1>1 DEF HandlesInHand
<1>5. HandleOfFile' /\ HandlesOfCaller'
  BY DEF HandleOfFile, HasHandle, HandlesOfCaller
<1>6. \A u \in Threads : pc'[u] = "open_tables" <=> pc[u] = "open_tables"
  BY <1>1 DEF Opening
<1>7. HeaderRead'
  BY <1>6 DEF HeaderRead, HasHandle
<1>8. SessionConsistent'
  BY <1>6 DEF SessionConsistent, OpenInProgress, HasHandle, WhollyOpen,
     WhollyClosed
<1>9. \A u \in Threads : pc'[u] = "reading" <=> pc[u] = "reading"
  BY <1>1 DEF Locked
<1>10. ReadIsOneExtent'
  BY <1>9 DEF ReadIsOneExtent, OneExtent
<1>11. QED
  BY <1>2, <1>3, <1>4, <1>5, <1>7, <1>8, <1>10

(* A step that starts to open a libbfio handle that is in nobody's hands.   *)
LEMMA TakeHandle ==
  ASSUME IInv, TypeOK', NEW t \in Threads, NEW h \in Handles,
         allocated, pc[t] = "idle", ~InUse(h),
         handles'[h].state = "open", handles'[h].image \in Images,
         \A g \in Handles : g # h => handles'[g] = handles[g],
         hnd' = [hnd EXCEPT ![t] = h],
         Goto(t, "open_wait"),
         UNCHANGED <<allocated, fileFields, settings, writer, rest, buffer,
                     settled_offset>>
  PROVE  IInv'
<1> USE DEF IInv, fileFields, settings
<1>1. /\ pc' = [pc EXCEPT ![t] = "open_wait"]
      /\ pc \in [Threads -> Labels]
      /\ hnd \in [Threads -> Handles \cup {NoHandle}]
      /\ handles \in [Handles -> HandleStates]
      /\ file_io_handle \in Handles \cup {NoHandle}
  BY DEF Goto, TypeOK
<1>2. LockHeld'
  BY <1>1 DEF LockHeld, Locked
<1>3. QuietWhenFreed'
  BY DEF QuietWhenFreed
<1>4. h # NoHandle /\ h # file_io_handle /\ \A u \in Threads : hnd[u] # h
  BY FileConstants DEF FileConstants, InUse
<1>5. HandlesInHand'
  BY <1>1, <1>4 DEF HandlesInHand, Opening
<1>6. HandleOfFile'
  BY <1>1, <1>4 DEF HandleOfFile, HasHandle
<1>7. HandlesOfCaller'
  BY <1>1 DEF HandlesOfCaller
<1>8. \A u \in Threads : pc'[u] = "open_tables" <=> pc[u] = "open_tables"
  BY <1>1
<1>9. \A u \in Threads : pc[u] = "open_tables" =>
         hnd'[u] = hnd[u] /\ handles'[hnd[u]] = handles[hnd[u]]
  BY <1>1, <1>4 DEF HandlesInHand, Opening
<1>10. HeaderRead'
  BY <1>8, <1>9 DEF HeaderRead, HasHandle
<1>11. SessionConsistent'
  BY <1>8 DEF SessionConsistent, OpenInProgress, HasHandle, WhollyOpen,
     WhollyClosed
<1>12. \A u \in Threads : pc'[u] = "reading" <=> pc[u] = "reading"
  BY <1>1
<1>13. ReadIsOneExtent'
  BY <1>12 DEF ReadIsOneExtent, OneExtent
<1>14. QED
  BY <1>2, <1>3, <1>5, <1>6, <1>7, <1>10, <1>11, <1>13

LEMMA OpenGrabStep ==
  ASSUME IInv, TypeOK', NEW t \in Threads, OpenGrab(t)
  PROVE  IInv'
<1> USE DEF IInv
<1>1. /\ pc[t] = "open_wait"
      /\ pc' = [pc EXCEPT ![t] = "open_read"]
      /\ writer' = t
      /\ pc \in [Threads -> Labels]
      /\ UNCHANGED <<allocated, fileFields, settings, locals, handles>>
  BY DEF OpenGrab, Goto, TypeOK
<1>2. \A u \in Threads : pc[u] \notin Locked
  BY NobodyInside DEF OpenGrab
<1>3. LockHeld'
  BY <1>1, <1>2 DEF LockHeld, Locked
<1>4. QuietWhenFreed' /\ HandlesOfCaller'
  BY <1>1 DEF QuietWhenFreed, HandlesOfCaller
<1>5. HandlesInHand' /\ HandleOfFile'
  BY <1>1 DEF HandlesInHand, Opening, HandleOfFile, HasHandle, fileFields, locals
<1>6. \A u \in Threads : /\ pc[u] # "open_tables" /\ pc'[u] # "open_tables"
                         /\ pc'[u] # "reading"
  BY <1>1, <1>2 DEF Locked
<1>7. HeaderRead' /\ ReadIsOneExtent'
  BY <1>6 DEF HeaderRead, ReadIsOneExtent
<1>8. SessionConsistent'
  BY <1>1, <1>6 DEF SessionConsistent, OpenInProgress, HasHandle, WhollyOpen,
     WhollyClosed, fileFields
<1>9. QED
  BY <1>3, <1>4, <1>5, <1>7, <1>8

(* An open that fails gives its handle back and leaves a closed file.       *)
LEMMA OpenFailedStep ==
  ASSUME IInv, TypeOK', NEW t \in Threads, OpenFailed(t),
         \/ /\ pc[t] = "open_read"
            /\ UNCHANGED <<file_header, backing_filename, tables, context_key>>
         \/ pc[t] = "open_tables" /\ OpenReadCleanup
  PROVE  IInv'
<1> USE DEF IInv
<1>1. /\ pc' = [pc EXCEPT ![t] = "idle"]
      /\ pc \in [Threads -> Labels]
      /\ hnd' = [hnd EXCEPT ![t] = NoHandle]
      /\ hnd \in [Threads -> Handles \cup {NoHandle}]
      /\ writer' = NoThread
      /\ handles \in [Handles -> HandleStates]
      /\ UNCHANGED <<allocated, file_io_handle, opened_in_library, is_locked>>
  BY DEF OpenFailed, Return, Goto, TypeOK
<1>2. /\ pc[t] \in Locked
      /\ pc[t] \in Opening
      /\ \A u \in Threads : u # t => pc[u] \notin Locked
  BY AloneInside DEF Locked, Opening
<1>3. LockHeld'
  BY <1>1, <1>2, FileConstants DEF FileConstants, LockHeld, Locked
<1>4. hnd[t] \in Handles /\ hnd[t] # file_io_handle
  BY <1>1, <1>2 DEF HandlesInHand
<1>5. \A g \in Handles : g # hnd[t] => handles'[g] = handles[g]
  BY <1>1 DEF OpenFailed
<1>6. handles'[hnd[t]] = handles[hnd[t]] \/ handles'[hnd[t]] = NoSuchHandle
  BY <1>1, <1>4 DEF OpenFailed
<1>7. QuietWhenFreed'
  BY <1>1 DEF QuietWhenFreed
<1>8. HandlesInHand'
  BY <1>1, <1>4, <1>5, FileConstants
     DEF FileConstants, HandlesInHand, Opening
<1>9. HandlesOfCaller'
  BY <1>5, <1>6 DEF HandlesOfCaller, NoSuchHandle
<1>10. \A u \in Threads : pc'[u] # "open_tables" /\ pc'[u] # "reading"
  BY <1>1, <1>2 DEF Locked
<1>11. HeaderRead' /\ ReadIsOneExtent'
  BY <1>10 DEF HeaderRead, ReadIsOneExtent
<1>12. CASE pc[t] = "open_read"
  <2>1. UNCHANGED <<file_header, backing_filename, tables, context_key>>
    BY <1>12
  <2>2. ~OpenInProgress
    BY <1>2, <1>12 DEF OpenInProgress, Locked
  <2>3. SessionConsistent'
    BY <1>1, <2>1, <2>2 DEF SessionConsistent, HasHandle, WhollyOpen,
       WhollyClosed
  <2>4. HandleOfFile'
    BY <1>1, <1>4, <1>5, <2>1 DEF HandleOfFile, HasHandle, TypeOK
  <2>5. QED
    BY <1>3, <1>7, <1>8, <1>9, <1>11, <2>3, <2>4
<1>13. CASE pc[t] = "open_tables"
  <2>1. OpenReadCleanup
    BY <1>13
  <2>2. ~HasHandle /\ is_locked /\ ~opened_in_library
    BY <1>13 DEF HeaderRead
  <2>3. SessionConsistent' /\ HandleOfFile'
    BY <1>1, <2>1, <2>2 DEF SessionConsistent, HasHandle, HandleOfFile,
       WhollyClosed, OpenReadCleanup
  <2>4. QED
    BY <1>3, <1>7, <1>8, <1>9, <1>11, <2>3
<1>14. QED
  BY <1>12, <1>13

LEMMA OpenReadHeaderStep ==
  ASSUME IInv, TypeOK', NEW t \in Threads, OpenReadHeader(t)
  PROVE  IInv'
<1> USE DEF IInv
<1> DEFINE i == handles[hnd[t]].image
<1>1. CASE OpenFailed(t) /\ UNCHANGED <<file_header, backing_filename, tables, context_key>>
  BY <1>1, OpenFailedStep DEF OpenReadHeader
<1>2. CASE /\ ~AlreadyRead
           /\ file_header' = i
           /\ backing_filename' = Backing[i]
           /\ context_key' = SessionKey(i, key_data)
           /\ Goto(t, "open_tables")
           /\ UNCHANGED <<allocated, file_io_handle, opened_in_library,
                          created_in_library, current_offset, is_locked,
                          abort, tables, settings, writer, locals, reply,
                          handles, settled_offset>>
  <2>1. /\ pc[t] = "open_read"
        /\ pc' = [pc EXCEPT ![t] = "open_tables"]
        /\ pc \in [Threads -> Labels]
    BY <1>2 DEF OpenReadHeader, Goto, TypeOK
  <2>2. /\ \A u \in Threads : u # t => pc[u] \notin Locked
        /\ writer = t
    BY <2>1, AloneInside DEF Locked
  <2>3. i \in Images
    BY <2>1 DEF HandlesInHand, Opening
  <2>4. ~OpenInProgress /\ ~HasHandle
    BY <1>2, <2>1, <2>2
       DEF OpenInProgress, Locked, SessionConsistent, WhollyOpen, AlreadyRead
  <2>5. LockHeld'
    BY <1>2, <2>1, <2>2 DEF LockHeld, Locked
  <2>6. QuietWhenFreed' /\ HandlesOfCaller'
    BY <1>2, <2>1 DEF QuietWhenFreed, HandlesOfCaller
  <2>7. HandlesInHand' /\ HandleOfFile'
    BY <1>2, <2>1, <2>4 DEF HandlesInHand, Opening, HandleOfFile, HasHandle,
       locals
  <2>8. \A u \in Threads : /\ pc'[u] = "open_tables" <=> u = t
                           /\ pc'[u] # "reading"
    BY <2>1, <2>2 DEF Locked
  <2>9. (SessionKey(i, key_data) # NoKey) = Encrypted[i]
    BY <2>3, ImageConstants DEF ImageConstants, SessionKey, TypeOK
  <2>10. tables = {} /\ is_locked /\ ~opened_in_library
    BY <2>4 DEF SessionConsistent, WhollyClosed
  <2>11. HeaderRead'
    BY <1>2, <2>4, <2>8, <2>9, <2>10 DEF HeaderRead, HasHandle, locals
  <2>12. ReadIsOneExtent' /\ SessionConsistent'
    BY <2>8 DEF ReadIsOneExtent, SessionConsistent, OpenInProgress
  <2>13. QED
    BY <2>5, <2>6, <2>7, <2>11, <2>12
<1>3. QED
  BY <1>1, <1>2 DEF OpenReadHeader

LEMMA OpenReadTablesStep ==
  ASSUME IInv, TypeOK', NEW t \in Threads, OpenReadTables(t)
  PROVE  IInv'
<1> USE DEF IInv
<1>1. CASE OpenReadCleanup /\ OpenFailed(t)
  BY <1>1, OpenFailedStep DEF OpenReadTables
<1>2. ASSUME NEW label \in {"open_mark", "idle"}, Goto(t, label),
             tables' = AllTables,
             is_locked' = FALSE,
             file_io_handle' = hnd[t],
             opened_in_library' = opened[t],
             hnd' = [hnd EXCEPT ![t] = NoHandle],
             writer' = NoThread,
             UNCHANGED <<allocated, file_header, backing_filename,
                         context_key, handles>>
      PROVE  IInv'
  <2>1. /\ pc[t] = "open_tables"
        /\ pc' = [pc EXCEPT ![t] = label]
        /\ pc \in [Threads -> Labels]
        /\ hnd \in [Threads -> Handles \cup {NoHandle}]
    BY <1>2 DEF OpenReadTables, Goto, TypeOK
  <2>2. \A u \in Threads : u # t => pc[u] \notin Locked
    BY <2>1, AloneInside DEF Locked
  <2>3. /\ hnd[t] \in Handles
        /\ handles[hnd[t]].state = "open"
        /\ handles[hnd[t]].image \in Images
        /\ \A u \in Threads : u # t => hnd[u] # hnd[t]
    BY <2>1 DEF HandlesInHand, Opening
  <2>4. LockHeld'
    BY <1>2, <2>1, <2>2, FileConstants DEF FileConstants, LockHeld, Locked
  <2>5. QuietWhenFreed' /\ HandlesOfCaller'
    BY <1>2, <2>1 DEF QuietWhenFreed, HandlesOfCaller
  <2>6. HandlesInHand'
    BY <1>2, <2>1, <2>3, FileConstants
       DEF FileConstants, HandlesInHand, Opening
  <2>7. HandleOfFile'
    BY <1>2, <2>1, <2>3 DEF HandleOfFile, HeaderRead, HasHandle
  <2>8. \A u \in Threads : pc'[u] # "open_tables" /\ pc'[u] # "reading"
    BY <1>2, <2>1, <2>2 DEF Locked
  <2>9. HeaderRead' /\ ReadIsOneExtent'
    BY <2>8 DEF HeaderRead, ReadIsOneExtent
  <2>10. file_header # NoImage /\ hnd[t] # NoHandle
    BY <2>1, <2>3, ImageConstants, FileConstants
       DEF ImageConstants, FileConstants, HeaderRead
  <2>11. SessionConsistent'
    BY <1>2, <2>1, <2>10
       DEF SessionConsistent, HeaderRead, HasHandle, WhollyOpen
  <2>12. QED
    BY <2>4, <2>5, <2>6, <2>7, <2>9, <2>11
<1>3. QED
  BY <1>1, <1>2 DEF OpenReadTables, Return

(* Closing, freeing and initializing happen when no one has the lock, and  *)
(* touch no handle but that of the file.                                    *)
LEMMA ResetStep ==
  ASSUME IInv, TypeOK', NEW t \in Threads,
         ReleaseHandle \/ UNCHANGED handles,
         ResetFields,
         \A u \in Threads : pc[u] \notin Locked,
         pc[t] \notin Opening,
         Goto(t, "idle") \/ UNCHANGED pc,
         allocated' \/ \A u \in Threads : pc'[u] = "idle",
         UNCHANGED <<writer, hnd>>
  PROVE  IInv'
<1> USE DEF IInv
<1>1. /\ pc' = [pc EXCEPT ![t] = "idle"] \/ pc' = pc
      /\ pc \in [Threads -> Labels]
      /\ handles \in [Handles -> HandleStates]
      /\ hnd \in [Threads -> Handles \cup {NoHandle}]
  BY DEF Goto, TypeOK
<1>2. LockHeld'
  BY <1>1 DEF LockHeld, Locked
<1>3. QuietWhenFreed'
  BY DEF QuietWhenFreed
<1>4. \A g \in Handles :
        \/ handles'[g] = handles[g]
        \/ g = file_io_handle /\ handles'[g] = NoSuchHandle
        \/ /\ g = file_io_handle
           /\ handles'[g].state = "closed"
           /\ handles'[g].owner = handles[g].owner
           /\ handles'[g].image = handles[g].image
  BY <1>1 DEF ReleaseHandle, HandleStates
<1>5. file_io_handle' = NoHandle
  BY DEF ResetFields
<1>6. \A u \in Threads : hnd[u] # NoHandle =>
         hnd[u] \in Handles /\ handles'[hnd[u]] = handles[hnd[u]]
  BY <1>1, <1>4 DEF HandlesInHand
<1>7. HandlesInHand'
  BY <1>1, <1>5, <1>6 DEF HandlesInHand, Opening
<1>8. HandlesOfCaller'
  BY <1>4 DEF HandlesOfCaller, NoSuchHandle
<1>9. \A u \in Threads : pc'[u] # "open_tables" /\ pc'[u] # "reading"
  BY <1>1 DEF Locked
<1>10. HeaderRead' /\ ReadIsOneExtent'
  BY <1>9 DEF HeaderRead, ReadIsOneExtent
<1>11. SessionConsistent' /\ HandleOfFile'
  BY DEF ResetFields, SessionConsistent, HandleOfFile, HasHandle, WhollyClosed
<1>12. QED
  BY <1>2, <1>3, <1>7, <1>8, <1>10, <1>11

(* The application changes a handle that the library does not hold.         *)
LEMMA CallerStep ==
  ASSUME IInv, TypeOK', NEW h \in Handles, ~InUse(h),
         \/ handles'[h] = NoSuchHandle
         \/ handles'[h].state # "none" /\ handles'[h].image \in Images,
         \A g \in Handles : g # h => handles'[g] = handles[g],
         UNCHANGED <<allocated, fileFields, settings, writer, pc, locals>>
  PROVE  IInv'
<1> USE DEF IInv, fileFields, settings, locals
<1>1. LockHeld' /\ QuietWhenFreed'
  BY DEF LockHeld, QuietWhenFreed
<1>2. \A u \in Threads : hnd[u] # NoHandle => handles'[hnd[u]] = handles[hnd[u]]
  BY DEF InUse, TypeOK
<1>3. HandlesInHand'
  BY <1>2 DEF HandlesInHand
<1>4. HandleOfFile'
  BY DEF InUse, HandleOfFile, HasHandle, TypeOK
<1>5. HandlesOfCaller'
  BY DEF HandlesOfCaller, NoSuchHandle
<1>6. \A u \in Threads : pc[u] = "open_tables" => hnd[u] # NoHandle
  BY DEF HandlesInHand, Opening
<1>7. HeaderRead'
  BY <1>2, <1>6 DEF HeaderRead, HasHandle
<1>8. SessionConsistent' /\ ReadIsOneExtent'
  BY DEF SessionConsistent, OpenInProgress, HasHandle, WhollyOpen,
     WhollyClosed, ReadIsOneExtent, OneExtent
<1>9. QED
  BY <1>1, <1>3, <1>4, <1>5, <1>7, <1>8

LEMMA StartStep ==
  ASSUME IInv, TypeOK', NEW t \in Threads, Start(t)
  PROVE  IInv'
<1> USE DEF IInv
<1>0. pc \in [Threads -> Labels]
  BY DEF TypeOK
<1>1. ASSUME allocated, pc[t] = "idle", Refuse(t)
      PROVE  IInv'
  BY <1>1, QuietStep DEF Refuse, Return, fileFields, settings, locals,
     Opening, Locked
<1>2. ASSUME NEW c \in LockingCalls, Enter(t, c)
      PROVE  IInv'
  <2>1. CASE Refuse(t)
    BY <1>1, <1>2, <2>1 DEF Enter, Calls
  <2>2. CASE ~Refuse(t)
    <3>1. /\ allocated /\ pc[t] = "idle" /\ Goto(t, c)
          /\ UNCHANGED <<allocated, fileFields, settings, writer, locals,
                         handles, settled_offset>>
      BY <1>2, <2>2 DEF Enter, Calls
    <3>2. c \notin Opening \cup Locked /\ "idle" \notin Opening \cup Locked
      BY DEF LockingCalls, Waiting, Opening, Locked
    <3>3. QED
      BY <3>1, <3>2, QuietStep DEF fileFields, settings, locals
  <2>3. QED
    BY <2>1, <2>2
<1>3. ASSUME NEW h \in Handles, NEW i \in Images, Open(t, h, i)
      PROVE  IInv'
  <2>1. CASE Refuse(t)
    BY <1>1, <1>3, <2>1 DEF Open, Calls
  <2>2. CASE ~Refuse(t)
    <3>1. /\ handles' = [handles EXCEPT
                ![h] = [state |-> "open", image |-> i, owner |-> "library"]]
          /\ hnd' = [hnd EXCEPT ![t] = h]
          /\ Goto(t, "open_wait")
          /\ UNCHANGED <<allocated, fileFields, settings, writer, rest,
                         buffer, settled_offset>>
          /\ allocated /\ pc[t] = "idle" /\ handles[h].state = "none"
          /\ file_io_handle = NoHandle
      BY <1>3, <2>2 DEF Open, Calls
    <3>2. ~InUse(h)
      BY <3>1, FileConstants DEF FileConstants, InUse, HandlesInHand
    <3>3. /\ handles'[h].state = "open"
          /\ handles'[h].image \in Images
          /\ \A g \in Handles : g # h => handles'[g] = handles[g]
      BY <3>1 DEF TypeOK
    <3>4. QED
      BY <3>1, <3>2, <3>3, TakeHandle
  <2>3. QED
    BY <2>1, <2>2
<1>4. ASSUME NEW h \in Handles, OpenFileIoHandle(t, h)
      PROVE  IInv'
  <2>1. CASE Refuse(t)
    BY <1>1, <1>4, <2>1 DEF OpenFileIoHandle, Calls
  <2>2. CASE ~Refuse(t)
    <3>1. /\ handles' = [handles EXCEPT ![h].state = "open"]
          /\ hnd' = [hnd EXCEPT ![t] = h]
          /\ Goto(t, "open_wait")
          /\ UNCHANGED <<allocated, fileFields, settings, writer, rest,
                         buffer, settled_offset>>
          /\ allocated /\ pc[t] = "idle" /\ handles[h].owner = "caller"
          /\ ~InUse(h)
      BY <1>4, <2>2 DEF OpenFileIoHandle, Calls
    <3>2. handles \in [Handles -> HandleStates] /\ handles[h].image \in Images
      BY <3>1 DEF TypeOK, HandlesOfCaller
    <3>3. /\ handles'[h].state = "open"
          /\ handles'[h].image \in Images
          /\ \A g \in Handles : g # h => handles'[g] = handles[g]
      BY <3>1, <3>2 DEF HandleStates
    <3>4. QED
      BY <3>1, <3>3, TakeHandle
  <2>3. QED
    BY <2>1, <2>2
<1>5. CASE SignalAbort(t)
  <2>1. /\ allocated /\ pc[t] = "idle" /\ Goto(t, "idle")
        /\ "idle" \notin Opening \cup Locked
        /\ UNCHANGED <<allocated, file_io_handle, opened_in_library,
                       current_offset, is_locked, file_header,
                       backing_filename, tables, context_key, settings,
                       writer, locals, handles>>
    BY <1>5 DEF SignalAbort, Calls, Return, Opening, Locked
  <2>2. QED
    BY <2>1, QuietStep DEF settings, locals
<1>6. CASE Free(t)
  <2>1. /\ ReleaseHandle \/ UNCHANGED handles
        /\ ResetFields
        /\ Goto(t, "idle")
        /\ \A u \in Threads : pc[u] = "idle"
        /\ UNCHANGED <<writer, hnd>>
    BY <1>6 DEF Free, Return, locals
  <2>2. \A u \in Threads : pc'[u] = "idle" /\ pc[u] \notin Locked \cup Opening
    BY <1>0, <2>1 DEF Goto, Locked, Opening
  <2>3. QED
    BY <2>1, <2>2, ResetStep
<1>7. CASE Initialize(t)
  <2>1. /\ UNCHANGED <<handles, pc, writer, hnd>> /\ ResetFields
        /\ allocated' /\ ~allocated
    BY <1>7 DEF Initialize, locals
  <2>2. \A u \in Threads : pc[u] \notin Locked \cup Opening
    BY <2>1 DEF QuietWhenFreed, Locked, Opening
  <2>3. QED
    BY <2>1, <2>2, ResetStep
<1>8. QED
  BY <1>2, <1>3, <1>4, <1>5, <1>6, <1>7 DEF Start

(* A read that starts has delivered nothing; the lock keeps the rest away. *)
LEMMA StartReadStep ==
  ASSUME IInv, TypeOK', NEW t \in Threads, NEW o \in Nat, NEW n \in Nat,
         pc[t] \in {"read_buffer", "read_buffer_at_offset"},
         LockFree, Readable, StartRead(t, o, n)
  PROVE  IInv'
<1> USE DEF IInv
<1>1. /\ \A u \in Threads : pc[u] \notin Locked
      /\ pc[t] \notin Opening \cup Locked
      /\ allocated
      /\ UNCHANGED unchangedByRead
      /\ writer = NoThread
  BY NobodyInside DEF QuietWhenFreed, StartRead, Opening, Locked, LockFree
<1>2. CASE o >= MediaSize[file_header] \/ n = 0
  <2>1. Goto(t, "idle") /\ "idle" \notin Opening \cup Locked
        /\ UNCHANGED writer
    BY <1>2 DEF StartRead, Return, Opening, Locked
  <2>2. \A u \in Threads : pc[u] # "reading"
    BY <1>1 DEF Locked
  <2>3. QED
    BY <1>1, <2>1, <2>2, QuietStep DEF unchangedByRead
<1>3. CASE ~(o >= MediaSize[file_header] \/ n = 0)
  <2>1. /\ writer' = t
        /\ pc' = [pc EXCEPT ![t] = "reading"]
        /\ rest' = [rest EXCEPT ![t] = n]
        /\ buffer' = [buffer EXCEPT ![t] = <<>>]
        /\ current_offset' = o
        /\ pc \in [Threads -> Labels]
        /\ rest \in [Threads -> Nat]
        /\ buffer \in [Threads -> Seq(Cell)]
    BY <1>3 DEF StartRead, Goto, TypeOK
  <2>2. LockHeld'
    BY <1>1, <2>1 DEF LockHeld, Locked
  <2>3. QuietWhenFreed' /\ HandlesOfCaller' /\ HandleOfFile'
    BY <1>1 DEF QuietWhenFreed, HandlesOfCaller, HandleOfFile, HasHandle,
       unchangedByRead
  <2>4. HandlesInHand'
    BY <1>1, <2>1 DEF HandlesInHand, Opening, unchangedByRead
  <2>5. \A u \in Threads : /\ pc[u] # "open_tables" /\ pc'[u] # "open_tables"
                           /\ pc'[u] = "reading" => u = t
    BY <1>1, <2>1 DEF Locked
  <2>6. HeaderRead'
    BY <2>5 DEF HeaderRead
  <2>7. SessionConsistent'
    BY <1>1, <2>5 DEF SessionConsistent, OpenInProgress, HasHandle,
       WhollyOpen, WhollyClosed, unchangedByRead
  <2>8. file_header' # NoImage /\ o < MediaSize[file_header'] /\ n > 0
    <3>1. file_header' = file_header /\ file_header \in Images
      BY <1>1 DEF unchangedByRead, Readable, TypeOK
    <3>2. MediaSize[file_header] \in Nat
      BY <3>1, ImageConstants DEF ImageConstants
    <3>3. QED
      BY <1>3, <3>1, <3>2 DEF Readable
  <2>9. /\ buffer'[t] = <<>> /\ Len(buffer'[t]) = 0
        /\ rest'[t] = n
        /\ \A j \in 1..Len(buffer'[t]) : FALSE
    BY <2>1
  <2>10. OneExtent(t)'
    BY <2>1, <2>8, <2>9 DEF OneExtent
  <2>11. ReadIsOneExtent'
    BY <2>5, <2>10 DEF ReadIsOneExtent
  <2>12. QED
    BY <2>2, <2>3, <2>4, <2>6, <2>7, <2>11
<1>4. QED
  BY <1>2, <1>3

(* A thread leaves a read, which it had or had not started.                *)
LEMMA LeaveReadStep ==
  ASSUME IInv, TypeOK', NEW t \in Threads,
         Goto(t, "idle"), writer' = NoThread, UNCHANGED unchangedByRead,
         \/ pc[t] \in {"read_buffer", "read_buffer_at_offset"} /\ LockFree
         \/ pc[t] = "reading"
  PROVE  IInv'
<1> USE DEF IInv
<1>1. /\ pc' = [pc EXCEPT ![t] = "idle"]
      /\ pc \in [Threads -> Labels]
      /\ writer' = NoThread
      /\ UNCHANGED unchangedByRead
  BY DEF Goto, TypeOK
<1>2. pc[t] # "open_tables" /\ pc[t] \notin Opening
  BY DEF Opening
<1>3. \A u \in Threads : u # t => pc[u] \notin Locked
  BY NobodyInside, AloneInside DEF Locked
<1>4. LockHeld'
  BY <1>1, <1>3, FileConstants DEF FileConstants, LockHeld, Locked
<1>5. QuietWhenFreed' /\ HandlesOfCaller' /\ HandleOfFile'
  BY <1>1 DEF QuietWhenFreed, HandlesOfCaller, HandleOfFile, HasHandle,
     unchangedByRead
<1>6. HandlesInHand'
  BY <1>1, <1>2 DEF HandlesInHand, Opening, unchangedByRead
<1>7. \A u \in Threads : /\ pc[u] # "open_tables" /\ pc'[u] # "open_tables"
                         /\ pc'[u] # "reading"
  BY <1>1, <1>2, <1>3 DEF Locked
<1>8. HeaderRead' /\ ReadIsOneExtent'
  BY <1>7 DEF HeaderRead, ReadIsOneExtent
<1>9. SessionConsistent'
  BY <1>1, <1>7 DEF SessionConsistent, OpenInProgress, HasHandle,
     WhollyOpen, WhollyClosed, unchangedByRead
<1>10. QED
  BY <1>4, <1>5, <1>6, <1>8, <1>9

LEMMA DeliverStep ==
  ASSUME IInv, TypeOK', NEW t \in Threads, NEW cell, Deliver(t, cell),
         pc[t] = "reading",
         cell = Content(file_header, context_key, parent_file, current_offset)
  PROVE  IInv'
<1> USE DEF IInv
<1>1. CASE rest[t] = 1 \/ current_offset + 1 >= MediaSize[file_header]
  <2>1. Goto(t, "idle") /\ writer' = NoThread /\ UNCHANGED unchangedByRead
    BY <1>1 DEF Deliver, Return
  <2>2. QED
    BY <2>1, LeaveReadStep
<1>2. CASE ~(rest[t] = 1 \/ current_offset + 1 >= MediaSize[file_header])
  <2>1. /\ UNCHANGED <<writer, pc>>
        /\ UNCHANGED unchangedByRead
        /\ current_offset' = current_offset + 1
        /\ rest' = [rest EXCEPT ![t] = rest[t] - 1]
        /\ buffer' = [buffer EXCEPT ![t] = Append(buffer[t], cell)]
        /\ rest \in [Threads -> Nat]
        /\ buffer \in [Threads -> Seq(Cell)]
        /\ current_offset \in Nat
    BY <1>2 DEF Deliver, TypeOK
  <2>2. LockHeld' /\ QuietWhenFreed'
    BY <2>1 DEF LockHeld, QuietWhenFreed, unchangedByRead
  <2>3. HandlesInHand' /\ HandleOfFile' /\ HandlesOfCaller'
    BY <2>1 DEF HandlesInHand, HandleOfFile, HandlesOfCaller, HasHandle,
       unchangedByRead
  <2>4. HeaderRead'
    BY <2>1 DEF HeaderRead, HasHandle, unchangedByRead
  <2>5. SessionConsistent'
    BY <2>1 DEF SessionConsistent, OpenInProgress, HasHandle, WhollyOpen,
       WhollyClosed, unchangedByRead
  <2>6. OneExtent(t)
    BY DEF ReadIsOneExtent
  <2> DEFINE got == Len(buffer[t])
  <2>7. /\ file_header \in Images
        /\ MediaSize[file_header] \in Nat
        /\ got \in Nat
        /\ got <= current_offset
        /\ rest[t] > 0
    BY <2>1, <2>6, ImageConstants DEF ImageConstants, OneExtent, TypeOK
  <2>8. /\ Len(buffer'[t]) = got + 1
        /\ buffer'[t][got + 1] = cell
        /\ \A j \in 1..got : buffer'[t][j] = buffer[t][j]
    BY <2>1
  <2>9. \A j \in 1..(got + 1) :
          buffer'[t][j] = Content(file_header, context_key, parent_file,
                                  (current_offset + 1) - (got + 1) + j - 1)
    <3>1. ASSUME NEW j \in 1..got
          PROVE  buffer'[t][j] = Content(file_header, context_key, parent_file,
                                  (current_offset + 1) - (got + 1) + j - 1)
      <4>1. (current_offset + 1) - (got + 1) + j - 1 = current_offset - got + j - 1
        BY <2>1, <2>7
      <4>2. buffer[t][j] = Content(file_header, context_key, parent_file,
                                   current_offset - got + j - 1)
        BY <2>6 DEF OneExtent
      <4>3. QED
        BY <2>8, <4>1, <4>2
    <3>2. (current_offset + 1) - (got + 1) + (got + 1) - 1 = current_offset
      BY <2>1, <2>7
    <3>3. buffer'[t][got + 1] = Content(file_header, context_key, parent_file,
                           (current_offset + 1) - (got + 1) + (got + 1) - 1)
      BY <2>8, <3>2
    <3>4. \A j \in 1..(got + 1) : j \in 1..got \/ j = got + 1
      BY <2>7
    <3>5. QED
      BY <3>1, <3>3, <3>4
  <2>10. UNCHANGED <<file_header, context_key, parent_file>>
    BY <2>1 DEF unchangedByRead, settings
  <2>11. /\ got + 1 <= current_offset + 1
         /\ current_offset + 1 < MediaSize[file_header]
         /\ rest'[t] > 0
         /\ file_header # NoImage
    BY <1>2, <2>1, <2>6, <2>7 DEF OneExtent
  <2>12. OneExtent(t)'
    BY <2>1, <2>8, <2>9, <2>10, <2>11 DEF OneExtent
  <2>13. \A u \in Threads : pc'[u] = "reading" => u = t
    BY <2>1, AloneInside DEF Locked
  <2>14. ReadIsOneExtent'
    BY <2>12, <2>13 DEF ReadIsOneExtent
  <2>15. QED
    BY <2>2, <2>3, <2>4, <2>5, <2>14
<1>3. QED
  BY <1>1, <1>2

LEMMA ReadClusterBlockStep ==
  ASSUME IInv, TypeOK', NEW t \in Threads, ReadClusterBlock(t)
  PROVE  IInv'
<1> DEFINE cell == Content(file_header, context_key, parent_file, current_offset)
<1>1. pc[t] = "reading"
  BY DEF ReadClusterBlock
<1>2. Deliver(t, cell) \/ ReadError(t)
  BY DEF ReadClusterBlock, Content
<1>3. CASE Deliver(t, cell)
  BY <1>1, <1>3, DeliverStep
<1>4. CASE ReadError(t)
  BY <1>1, <1>4, LeaveReadStep DEF ReadError, Return
<1>5. QED
  BY <1>2, <1>3, <1>4

(* The steps of the calls that hold the lock for one step only.            *)
LEMMA ShortCallStep ==
  ASSUME IInv, TypeOK', NEW t \in Threads,
         \/ \E p \in Parents : SetParentFile(t, p)
         \/ \E k \in Keys : SetKeys(t, k) \/ SetPassword(t, k)
         \/ \E w \in {"set", "cur", "end"}, d \in (-MaxOffset)..MaxOffset :
              Seek(t, w, d)
         \/ GetOffset(t) \/ GetMediaSize(t) \/ GetBackingFilename(t)
         \/ IsLocked(t) \/ OpenMarkCreated(t)
  PROVE  IInv'
<1>1. /\ pc[t] \in Waiting \ {"open_wait"}
      /\ LockFree
      /\ \E label \in {"idle", "crashed"} : Goto(t, label)
      /\ UNCHANGED <<allocated, file_io_handle, opened_in_library, is_locked,
                     file_header, backing_filename, tables, context_key, hnd,
                     writer, handles, rest, buffer>>
  <2> USE DEF Waiting, Return, fileFields, locals
  <2>1. ASSUME NEW p \in Parents, SetParentFile(t, p)
        PROVE  <1>1!:
    BY <2>1 DEF SetParentFile
  <2>2. ASSUME NEW k \in Keys, SetKeys(t, k) \/ SetPassword(t, k)
        PROVE  <1>1!:
    BY <2>2 DEF SetKeys, SetPassword
  <2>3. ASSUME NEW w \in {"set", "cur", "end"},
               NEW d \in (-MaxOffset)..MaxOffset, Seek(t, w, d)
        PROVE  <1>1!:
    BY <2>3 DEF Seek, unchangedByRead
  <2>4. CASE GetOffset(t) \/ GetBackingFilename(t) \/ IsLocked(t)
    BY <2>4 DEF GetOffset, GetBackingFilename, IsLocked, Get
  <2>5. CASE GetMediaSize(t)
    BY <2>5 DEF GetMediaSize, Get
  <2>6. CASE OpenMarkCreated(t)
    BY <2>6 DEF OpenMarkCreated
  <2>7. QED
    BY <2>1, <2>2, <2>3, <2>4, <2>5, <2>6
<1>2. PICK label \in {"idle", "crashed"} : Goto(t, label)
  BY <1>1
<1>3. /\ allocated
      /\ pc[t] \notin Opening \cup Locked
      /\ label \notin Opening \cup Locked
  BY <1>1 DEF IInv, QuietWhenFreed, Waiting, Opening, Locked
<1>4. \A u \in Threads : pc[u] # "reading"
  BY <1>1, NobodyInside DEF Locked
<1>5. QED
  BY <1>1, <1>2, <1>3, <1>4, QuietStep

LEMMA CallStepStep ==
  ASSUME IInv, TypeOK', NEW t \in Threads, CallStep(t)
  PROVE  IInv'
<1>1. CASE OpenSteps(t)
  BY <1>1, OpenGrabStep, OpenReadHeaderStep, OpenReadTablesStep,
     ShortCallStep DEF OpenSteps
<1>2. CASE Close(t)
  <2>1. /\ ReleaseHandle
        /\ ResetFields
        /\ pc[t] \notin Opening
        /\ Goto(t, "idle")
        /\ UNCHANGED <<allocated, writer, hnd>>
        /\ allocated
    BY <1>2 DEF Close, Return, locals, Opening, IInv, QuietWhenFreed
  <2>2. \A u \in Threads : pc[u] \notin Locked
    BY <1>2, NobodyInside DEF Close
  <2>3. QED
    BY <2>1, <2>2, ResetStep
<1>3. ASSUME NEW o \in Nat, NEW n \in Nat,
             pc[t] \in {"read_buffer", "read_buffer_at_offset"}, LockFree,
             IF Readable THEN StartRead(t, o, n) ELSE ReadError(t)
      PROVE  IInv'
  BY <1>3, StartReadStep, LeaveReadStep DEF ReadError, Return
<1>4. ASSUME NEW n \in 0..MaxCount, ReadBuffer(t, n)
      PROVE  IInv'
  <2>1. n \in Nat /\ current_offset \in Nat
    BY ImageConstants DEF ImageConstants, IInv, TypeOK
  <2>2. QED
    BY <1>3, <1>4, <2>1 DEF ReadBuffer
<1>5. ASSUME NEW o \in 0..MaxOffset, NEW n \in 0..MaxCount,
             ReadBufferAtOffset(t, o, n)
      PROVE  IInv'
  <2>1. n \in Nat /\ o \in Nat
    BY ImageConstants DEF ImageConstants
  <2>2. QED
    BY <1>3, <1>5, <2>1 DEF ReadBufferAtOffset
<1>6. CASE ReadClusterBlock(t)
  BY <1>6, ReadClusterBlockStep
<1>7. QED
  BY <1>1, <1>2, <1>4, <1>5, <1>6, ShortCallStep DEF CallStep

LEMMA NextIInv == IInv /\ [Next]_vars => IInv'
<1> SUFFICES ASSUME IInv, [Next]_vars
             PROVE  IInv'
  OBVIOUS
<1>0. TypeOK'
  BY NextType
<1>1. ASSUME NEW t \in Threads, Start(t)
      PROVE  IInv'
  BY <1>0, <1>1, StartStep
<1>2. ASSUME NEW t \in Threads, CallStep(t)
      PROVE  IInv'
  BY <1>0, <1>2, CallStepStep
<1>3. ASSUME NEW h \in Handles, NEW i \in Images, CallerAllocates(h, i)
      PROVE  IInv'
  <2>1. /\ handles[h].state = "none"
        /\ handles'[h].state # "none"
        /\ handles'[h].image \in Images
        /\ \A g \in Handles : g # h => handles'[g] = handles[g]
    BY <1>3 DEF CallerAllocates, IInv, TypeOK
  <2>2. ~InUse(h)
    BY <2>1, FileConstants
       DEF FileConstants, InUse, IInv, HandlesInHand, HandleOfFile, HasHandle
  <2>3. QED
    BY <1>0, <1>3, <2>1, <2>2, CallerStep DEF CallerAllocates
<1>4. ASSUME NEW h \in Handles, CallerFrees(h)
      PROVE  IInv'
  <2>1. /\ ~InUse(h)
        /\ handles'[h] = NoSuchHandle
        /\ \A g \in Handles : g # h => handles'[g] = handles[g]
    BY <1>4 DEF CallerFrees, IInv, TypeOK
  <2>2. QED
    BY <1>0, <1>4, <2>1, CallerStep DEF CallerFrees
<1>5. CASE UNCHANGED vars
  <2> USE <1>5 DEF IInv, vars, fileFields, settings, locals
  <2>1. LockHeld' /\ QuietWhenFreed' /\ HandlesInHand' /\ HandlesOfCaller'
    BY DEF LockHeld, QuietWhenFreed, HandlesInHand, HandlesOfCaller
  <2>2. HandleOfFile' /\ HeaderRead'
    BY DEF HandleOfFile, HeaderRead, HasHandle
  <2>3. SessionConsistent'
    BY DEF SessionConsistent, OpenInProgress, HasHandle, WhollyOpen,
       WhollyClosed
  <2>4. ReadIsOneExtent'
    BY DEF ReadIsOneExtent, OneExtent
  <2>5. QED
    BY <1>0, <2>1, <2>2, <2>3, <2>4
<1>6. QED
  BY <1>1, <1>2, <1>3, <1>4, <1>5 DEF Next

LEMMA Invariance == Spec => []IInv
BY InitIInv, NextIInv, PTL DEF Spec

-----------------------------------------------------------------------------
(* What follows from the inductive invariant.                              *)

(* Every variable keeps its type. *)
THEOREM TypeCorrect == Spec => []TypeOK
BY Invariance, PTL DEF IInv

(* A thread is between the steps of a critical section exactly when it is  *)
(* the one that holds the lock, whatever path a call takes out of it.      *)
THEOREM LockCorrect == Spec => []LockHeld
BY Invariance, PTL DEF IInv

(* Between two calls a file is wholly open or wholly closed.                *)
THEOREM SessionCorrect == Spec => []SessionConsistent
BY Invariance, PTL DEF IInv

(* A read of several rounds is of one extent of one image.                  *)
THEOREM ReadCorrect == Spec => []ReadIsOneExtent
BY Invariance, PTL DEF IInv

(* The I/O of a read and of an open is on a live handle of the right image. *)
THEOREM IoCorrect == Spec => []IoOnLiveHandle
<1>1. IInv => IoOnLiveHandle
  <2> SUFFICES ASSUME IInv, NEW t \in Threads,
                      pc[t] \in {"reading", "open_tables"}
               PROVE  LET h == IF pc[t] = "reading" THEN file_io_handle ELSE hnd[t]
                      IN /\ h # NoHandle
                         /\ handles[h].state = "open"
                         /\ handles[h].image = file_header
    BY DEF IoOnLiveHandle
  <2> USE DEF IInv
  <2>1. CASE pc[t] = "reading"
    <3>1. file_header # NoImage
      BY <2>1 DEF ReadIsOneExtent, OneExtent
    <3>2. ~OpenInProgress
      BY <2>1, AloneInside DEF OpenInProgress, Locked
    <3>3. HasHandle
      BY <3>1, <3>2 DEF SessionConsistent, WhollyClosed
    <3>4. QED
      BY <2>1, <3>3 DEF HandleOfFile, HasHandle
  <2>2. CASE pc[t] = "open_tables"
    <3>1. hnd[t] # NoHandle
      BY <2>2 DEF HandlesInHand, Opening
    <3>2. QED
      BY <2>2, <3>1 DEF HandlesInHand, HeaderRead
  <2>3. QED
    BY <2>1, <2>2
<1>2. QED
  BY <1>1, Invariance, PTL

-----------------------------------------------------------------------------
(* One thread owns the file: it alone opens and closes it and sets what an *)
(* open needs, and asks for what there is only of an open file.  The others *)
(* may read, seek and look at it, signal an abort, and free it.            *)
OwnerCalls ==
  {"open", "open_file_io_handle", "close", "set_parent_file", "set_keys",
   "set_password", "get_media_size"}

Owns(t) == MayCall[t] \cap OwnerCalls # {}

OneOwnerOnly == \A t, u \in Threads : Owns(t) /\ Owns(u) => t = u

(* Where only the owner is. *)
Owning ==
  {"open_wait", "open_read", "open_tables", "open_mark", "close",
   "set_parent_file", "set_keys", "set_password", "get_media_size"}

OwnerOwns == \A t \in Threads : pc[t] \in Owning => Owns(t)

(* What the unlocked check of a call found is still so when the call has    *)
(* the lock.                                                                *)
CheckStands ==
  \A t \in Threads :
    /\ pc[t] = "set_parent_file" =>
         HasHandle /\ backing_filename /\ parent_file = NoParent
    /\ pc[t] \in {"set_keys", "set_password"} => ~HasHandle
    /\ pc[t] = "get_media_size" => HasHandle
    /\ pc[t] \in Opening => ~HasHandle
    /\ pc[t] = "open_tables" => context_key = SessionKey(file_header, key_data)
    /\ pc[t] # "crashed"

(* A handle that libqcow_file_open made is in its hand, or is that of the   *)
(* file, which knows it once it is marked; one of the application never is. *)
OwnersKnown ==
  /\ NoHandleLeak
  /\ \A t \in Threads : hnd[t] # NoHandle =>
       (created[t] <=> handles[hnd[t]].owner = "library")
  /\ \A t \in Threads : pc[t] = "open_mark" =>
       HasHandle /\ handles[file_io_handle].owner = "library"
  /\ created_in_library =>
       HasHandle /\ handles[file_io_handle].owner = "library"
  /\ HasHandle /\ handles[file_io_handle].owner = "library" =>
       created_in_library \/ \E t \in Threads : pc[t] = "open_mark"

NothingWhenFreed == ~allocated => ~HasHandle /\ parent_file = NoParent

(* Where a read was started from, and what it was asked for. *)
ReadOffset(t) == current_offset - Len(buffer[t])
ReadCount(t) == Len(buffer[t]) + rest[t]

OffsetsInv ==
  /\ (\A t \in Threads : pc[t] # "reading") => settled_offset = current_offset
  /\ \A t \in Threads : pc[t] = "reading" =>
       /\ Readable
       /\ ReadOffset(t) \in {settled_offset} \cup 0..MaxOffset
       /\ ReadCount(t) \in 0..MaxCount
       /\ \A j \in 0..(Len(buffer[t]) - 1) :
            Block[file_header][ReadOffset(t) + j] # "bad"

OwnedCore == OwnerOwns /\ CheckStands /\ OwnersKnown /\ NothingWhenFreed

OwnedInv == OwnedCore /\ OffsetsInv

(* While the owner is in a call of its own, no one else is in one. *)
LEMMA OwnerAlone ==
  ASSUME OneOwnerOnly, OwnerOwns, NEW t \in Threads, Owns(t)
  PROVE  \A u \in Threads : u # t => pc[u] \notin Owning
BY DEF OneOwnerOnly, OwnerOwns

(* What a handle in hand is. *)
LEMMA InHand ==
  ASSUME IInv, NEW t \in Threads, pc[t] \in Opening
  PROVE  /\ hnd[t] \in Handles /\ hnd[t] # NoHandle /\ hnd[t] # file_io_handle
         /\ \A u \in Threads : u # t => hnd[u] # hnd[t]
BY DEF IInv, TypeOK, HandlesInHand

(* A step that changes neither the file's handle nor its settings, and      *)
(* brings its thread to a call with a check that holds.                     *)
LEMMA QuietOwned ==
  ASSUME IInv, OwnedCore, NEW t \in Threads, NEW label,
         pc[t] \notin Opening \cup {"open_mark"},
         label \notin Opening \cup {"open_mark", "crashed"},
         Goto(t, label),
         label \in Owning => Owns(t),
         label = "set_parent_file" =>
           HasHandle /\ backing_filename /\ parent_file = NoParent,
         label \in {"set_keys", "set_password"} => ~HasHandle,
         label = "get_media_size" => HasHandle,
         UNCHANGED <<allocated, file_io_handle, created_in_library, file_header,
                     backing_filename, context_key, key_data, parent_file, hnd,
                     created, handles>>
  PROVE  OwnedCore'
<1>1. pc' = [pc EXCEPT ![t] = label] /\ pc \in [Threads -> Labels]
  BY DEF Goto, IInv, TypeOK
<1>2. HasHandle' = HasHandle
  BY DEF HasHandle
<1>3. OwnerOwns'
  BY <1>1 DEF OwnedCore, OwnerOwns, Owns
<1>4. CheckStands'
  BY <1>1, <1>2 DEF OwnedCore, CheckStands, Opening
<1>5. NoHandleLeak'
  BY DEF OwnedCore, OwnersKnown, NoHandleLeak, InUse
<1>6. \A u \in Threads : (pc'[u] = "open_mark") = (pc[u] = "open_mark")
  BY <1>1
<1>7. OwnersKnown'
  BY <1>2, <1>5, <1>6 DEF OwnedCore, OwnersKnown
<1>8. NothingWhenFreed'
  BY <1>2 DEF OwnedCore, NothingWhenFreed
<1> QED
  BY <1>3, <1>4, <1>7, <1>8 DEF OwnedCore

(* A step of the owner: no one else relies on what it changes. *)
LEMMA OwnerMoves ==
  ASSUME IInv, OneOwnerOnly, OwnedCore, NEW t \in Threads, Owns(t), NEW label,
         Goto(t, label), label # "crashed",
         label = "set_parent_file" =>
           (HasHandle /\ backing_filename /\ parent_file = NoParent)',
         label \in {"set_keys", "set_password"} => ~HasHandle',
         label = "get_media_size" => HasHandle',
         label \in Opening => ~HasHandle',
         label = "open_tables" =>
           (context_key = SessionKey(file_header, key_data))'
  PROVE  /\ OwnerOwns' /\ CheckStands'
         /\ pc' = [pc EXCEPT ![t] = label]
         /\ \A u \in Threads : u # t => pc[u] \notin Owning
         /\ \A u \in Threads : pc'[u] = "open_mark" <=> u = t /\ label = "open_mark"
<1>1. pc' = [pc EXCEPT ![t] = label] /\ pc \in [Threads -> Labels]
  BY DEF Goto, IInv, TypeOK
<1>2. \A u \in Threads : u # t => pc[u] \notin Owning
  BY OwnerAlone DEF OwnedCore
<1>3. OwnerOwns'
  BY <1>1 DEF OwnedCore, OwnerOwns, Owns
<1>4. \A u \in Threads : u # t => pc'[u] = pc[u] /\ pc'[u] \notin Owning
  BY <1>1, <1>2
<1>5. pc'[t] = label
  BY <1>1
<1>6. \A u \in Threads : u # t => pc'[u] # "crashed"
  BY <1>4 DEF OwnedCore, CheckStands
<1>7. CheckStands'
  <2> SUFFICES ASSUME NEW u \in Threads
               PROVE  /\ pc'[u] = "set_parent_file" =>
                           (HasHandle /\ backing_filename /\ parent_file = NoParent)'
                      /\ pc'[u] \in {"set_keys", "set_password"} => ~HasHandle'
                      /\ pc'[u] = "get_media_size" => HasHandle'
                      /\ pc'[u] \in Opening => ~HasHandle'
                      /\ pc'[u] = "open_tables" =>
                           (context_key = SessionKey(file_header, key_data))'
                      /\ pc'[u] # "crashed"
    BY DEF CheckStands
  <2>1. CASE u = t
    BY <1>5, <2>1
  <2>2. CASE u # t
    BY <1>4, <1>6, <2>2 DEF Owning, Opening
  <2> QED
    BY <2>1, <2>2
<1> QED
  BY <1>1, <1>2, <1>3, <1>4, <1>5, <1>7 DEF Owning

(* The owner takes a libbfio handle that no one has in hand, to open it.    *)
LEMMA TakeOwned ==
  ASSUME IInv, OneOwnerOnly, OwnedCore, NEW t \in Threads, Owns(t),
         NEW h \in Handles, pc[t] = "idle", ~HasHandle,
         handles'[h].owner = "library" <=> created'[t],
         \A g \in Handles : g # h => handles'[g] = handles[g],
         \A u \in Threads : u # t => created'[u] = created[u],
         hnd' = [hnd EXCEPT ![t] = h], ~InUse(h),
         Goto(t, "open_wait"),
         UNCHANGED <<allocated, fileFields, settings>>
  PROVE  OwnedCore'
<1>1. ~HasHandle' /\ hnd \in [Threads -> Handles \cup {NoHandle}]
      /\ created_in_library' = created_in_library /\ hnd[t] = NoHandle
      /\ file_io_handle' = file_io_handle
  BY DEF HasHandle, fileFields, IInv, TypeOK, HandlesInHand, Opening
<1>2. OwnerOwns' /\ CheckStands'
  <2>1. "open_wait" \in Opening /\ "open_wait" # "open_tables"
    BY DEF Opening
  <2> QED
    BY <1>1, OwnerMoves
<1>3. NoHandleLeak'
  <2> SUFFICES ASSUME NEW g \in Handles, handles'[g].owner = "library"
               PROVE  \E u \in Threads : hnd'[u] = g
    BY DEF NoHandleLeak, InUse
  <2>1. CASE g = h
    BY <1>1, <2>1
  <2>2. CASE g # h
    <3>1. InUse(g)
      BY <2>2 DEF OwnedCore, OwnersKnown, NoHandleLeak
    <3>2. PICK u \in Threads : hnd[u] = g
      BY <3>1, FileConstants DEF FileConstants, InUse, HasHandle
    <3>3. u # t
      BY <1>1, <3>2, FileConstants DEF FileConstants
    <3> QED
      BY <1>1, <3>2, <3>3
  <2> QED
    BY <2>1, <2>2
<1>4. \A u \in Threads : hnd'[u] # NoHandle =>
        (created'[u] <=> handles'[hnd'[u]].owner = "library")
  <2> SUFFICES ASSUME NEW u \in Threads, hnd'[u] # NoHandle
               PROVE  created'[u] <=> handles'[hnd'[u]].owner = "library"
    OBVIOUS
  <2>1. CASE u = t
    BY <1>1, <2>1
  <2>2. CASE u # t
    BY <1>1, <2>2 DEF InUse, OwnedCore, OwnersKnown
  <2> QED
    BY <2>1, <2>2
<1>5. \A u \in Threads : pc'[u] # "open_mark"
  BY <1>1 DEF OwnedCore, OwnersKnown, Goto, IInv, TypeOK
<1>6. OwnersKnown'
  BY <1>1, <1>3, <1>4, <1>5 DEF OwnedCore, OwnersKnown
<1>7. NothingWhenFreed'
  BY <1>1 DEF OwnedCore, NothingWhenFreed, settings
<1> QED
  BY <1>2, <1>6, <1>7 DEF OwnedCore

LEMMA OpenFailedOwned ==
  ASSUME IInv, OneOwnerOnly, OwnedCore, NEW t \in Threads, OpenFailed(t),
         pc[t] \in {"open_read", "open_tables"}
  PROVE  OwnedCore'
<1>1. pc[t] \in Opening /\ pc[t] \in Owning
  BY DEF Opening, Owning
<1>2. Owns(t) /\ ~HasHandle /\ ~HasHandle' /\ UNCHANGED created_in_library
      /\ file_io_handle' = file_io_handle
  BY <1>1 DEF OwnedCore, OwnerOwns, CheckStands, OpenFailed, HasHandle
<1>3. OwnerOwns' /\ CheckStands'
      /\ \A u \in Threads : pc'[u] # "open_mark"
  <2>1. Goto(t, "idle") /\ "idle" \notin Opening
    BY DEF OpenFailed, Return, Opening
  <2> QED
    BY <1>2, <2>1, OwnerMoves
<1> DEFINE h == hnd[t]
<1>4. /\ h \in Handles /\ h # NoHandle
      /\ \A u \in Threads : u # t => hnd[u] # h
      /\ hnd' = [hnd EXCEPT ![t] = NoHandle]
      /\ hnd \in [Threads -> Handles \cup {NoHandle}]
      /\ handles \in [Handles -> HandleStates]
      /\ handles' = IF created[t] THEN [handles EXCEPT ![h] = NoSuchHandle]
                    ELSE handles
      /\ created' = created
  BY <1>1, InHand DEF OpenFailed, IInv, TypeOK
<1>5. created[t] <=> handles[h].owner = "library"
  BY <1>4 DEF OwnedCore, OwnersKnown
<1>6. /\ handles'[h].owner # "library"
      /\ \A g \in Handles : g # h => handles'[g] = handles[g]
  BY <1>4, <1>5 DEF NoSuchHandle
<1> HIDE DEF h
<1>7. NoHandleLeak'
  <2> SUFFICES ASSUME NEW g \in Handles, handles'[g].owner = "library"
               PROVE  \E u \in Threads : hnd'[u] = g
    BY DEF NoHandleLeak, InUse
  <2>1. g # h /\ InUse(g)
    BY <1>6 DEF OwnedCore, OwnersKnown, NoHandleLeak
  <2>2. PICK u \in Threads : hnd[u] = g
    BY <1>2, <2>1, FileConstants DEF FileConstants, InUse, HasHandle
  <2>3. u # t
    BY <2>1, <2>2 DEF h
  <2> QED
    BY <1>4, <2>2, <2>3
<1>8. \A u \in Threads : hnd'[u] # NoHandle =>
        (created'[u] <=> handles'[hnd'[u]].owner = "library")
  <2> SUFFICES ASSUME NEW u \in Threads, hnd'[u] # NoHandle
               PROVE  created'[u] <=> handles'[hnd'[u]].owner = "library"
    OBVIOUS
  <2>1. u # t /\ hnd'[u] = hnd[u] /\ hnd[u] \in Handles /\ hnd[u] # h
    BY <1>4
  <2> QED
    BY <1>4, <1>6, <2>1 DEF OwnedCore, OwnersKnown
<1>9. OwnersKnown'
  BY <1>2, <1>3, <1>7, <1>8 DEF OwnedCore, OwnersKnown
<1>10. NothingWhenFreed'
  BY <1>2 DEF OwnedCore, NothingWhenFreed, OpenFailed, settings
<1> QED
  BY <1>3, <1>9, <1>10 DEF OwnedCore

(* The file takes the handle that was opened over from the thread.          *)
LEMMA OpenedOwned ==
  ASSUME IInv, OneOwnerOnly, OwnedCore, NEW t \in Threads, pc[t] = "open_tables",
         Goto(t, IF created[t] THEN "open_mark" ELSE "idle"),
         file_io_handle' = hnd[t], hnd' = [hnd EXCEPT ![t] = NoHandle],
         UNCHANGED <<allocated, created_in_library, settings, created, handles>>
  PROVE  OwnedCore'
<1> DEFINE h == hnd[t]
           label == IF created[t] THEN "open_mark" ELSE "idle"
<1>1. pc[t] \in Opening /\ pc[t] \in Owning
  BY DEF Opening, Owning
<1>2. Owns(t) /\ ~HasHandle /\ ~created_in_library
  BY <1>1 DEF OwnedCore, OwnerOwns, CheckStands, OwnersKnown
<1>3. OwnerOwns' /\ CheckStands'
      /\ \A u \in Threads : pc'[u] = "open_mark" <=> u = t /\ label = "open_mark"
  <2>1. label \in {"open_mark", "idle"} /\ Goto(t, label)
    OBVIOUS
  <2> HIDE DEF label
  <2>2. label \notin Opening
    BY <2>1 DEF Opening
  <2> QED
    BY <1>2, <2>1, <2>2, OwnerMoves
<1>4. /\ h \in Handles /\ h # NoHandle
      /\ \A u \in Threads : u # t => hnd[u] # h
      /\ hnd \in [Threads -> Handles \cup {NoHandle}]
      /\ HasHandle' /\ handles' = handles /\ created' = created
  BY <1>1, InHand DEF IInv, TypeOK, HasHandle
<1>5. created[t] <=> handles[h].owner = "library"
  BY <1>4 DEF OwnedCore, OwnersKnown
<1>6. NoHandleLeak'
  <2> SUFFICES ASSUME NEW g \in Handles, handles[g].owner = "library"
               PROVE  g = file_io_handle' \/ \E u \in Threads : hnd'[u] = g
    BY <1>4 DEF NoHandleLeak, InUse
  <2>1. InUse(g)
    BY DEF OwnedCore, OwnersKnown, NoHandleLeak
  <2>2. PICK u \in Threads : hnd[u] = g
    BY <1>2, <2>1, FileConstants DEF FileConstants, InUse, HasHandle
  <2>3. CASE u = t
    BY <2>2, <2>3
  <2>4. CASE u # t
    BY <1>4, <2>2, <2>4
  <2> QED
    BY <2>3, <2>4
<1>7. \A u \in Threads : hnd'[u] # NoHandle =>
        (created'[u] <=> handles'[hnd'[u]].owner = "library")
  <2> SUFFICES ASSUME NEW u \in Threads, hnd'[u] # NoHandle
               PROVE  created'[u] <=> handles'[hnd'[u]].owner = "library"
    OBVIOUS
  <2>1. u # t /\ hnd'[u] = hnd[u]
    BY <1>4
  <2> QED
    BY <1>4, <2>1 DEF OwnedCore, OwnersKnown
<1>8. OwnersKnown'
  BY <1>2, <1>3, <1>4, <1>5, <1>6, <1>7 DEF OwnersKnown
<1>9. NothingWhenFreed'
  <2>1. allocated
    BY DEF IInv, QuietWhenFreed
  <2> QED
    BY <2>1 DEF NothingWhenFreed
<1> QED
  BY <1>3, <1>8, <1>9 DEF OwnedCore

(* The file lets its handle go, which is freed when it is the library's.    *)
LEMMA ReleasedOwned ==
  ASSUME IInv, OwnedCore, ResetFields,
         ReleaseHandle \/ (UNCHANGED handles /\ ~HasHandle),
         \A u \in Threads : pc[u] # "open_mark" /\ pc'[u] # "open_mark",
         UNCHANGED <<hnd, created>>
  PROVE  OwnersKnown' /\ ~HasHandle'
<1>1. ~HasHandle' /\ ~created_in_library' /\ file_io_handle' = NoHandle
  BY DEF ResetFields, HasHandle
<1>2. /\ handles \in [Handles -> HandleStates]
      /\ hnd \in [Threads -> Handles \cup {NoHandle}]
      /\ file_io_handle \in Handles \cup {NoHandle}
      /\ \A u \in Threads : hnd[u] # NoHandle => hnd[u] # file_io_handle
  BY DEF IInv, TypeOK, HandlesInHand
<1>3. \A g \in Handles : g # file_io_handle => handles'[g] = handles[g]
  BY <1>2 DEF ReleaseHandle
<1>4. HasHandle => handles'[file_io_handle].owner # "library"
  <2> SUFFICES ASSUME HasHandle PROVE handles'[file_io_handle].owner # "library"
    OBVIOUS
  <2>1. file_io_handle \in Handles /\ file_io_handle # NoHandle /\ ReleaseHandle
    BY <1>2 DEF HasHandle
  <2>2. created_in_library <=> handles[file_io_handle].owner = "library"
    BY DEF OwnedCore, OwnersKnown
  <2>3. CASE created_in_library
    BY <1>2, <2>1, <2>3 DEF ReleaseHandle, NoSuchHandle
  <2>4. CASE ~created_in_library
    <3>1. handles'[file_io_handle].owner = handles[file_io_handle].owner
      BY <1>2, <2>1, <2>4 DEF ReleaseHandle, HandleStates
    <3> QED
      BY <2>2, <2>4, <3>1
  <2> QED
    BY <2>3, <2>4
<1>5. NoHandleLeak'
  <2> SUFFICES ASSUME NEW g \in Handles, handles'[g].owner = "library"
               PROVE  \E u \in Threads : hnd[u] = g
    BY DEF NoHandleLeak, InUse
  <2>1. g # file_io_handle
    BY <1>4, FileConstants DEF FileConstants, HasHandle
  <2>2. handles[g].owner = "library"
    BY <1>3, <2>1
  <2>3. InUse(g)
    BY <2>2 DEF OwnedCore, OwnersKnown, NoHandleLeak
  <2> QED
    BY <2>1, <2>3 DEF InUse
<1>6. \A u \in Threads : hnd'[u] # NoHandle =>
        (created'[u] <=> handles'[hnd'[u]].owner = "library")
  <2> SUFFICES ASSUME NEW u \in Threads, hnd[u] # NoHandle
               PROVE  created[u] <=> handles'[hnd[u]].owner = "library"
    OBVIOUS
  <2>1. hnd[u] \in Handles /\ handles'[hnd[u]] = handles[hnd[u]]
    BY <1>2, <1>3
  <2> QED
    BY <2>1 DEF OwnedCore, OwnersKnown
<1> QED
  BY <1>1, <1>5, <1>6 DEF OwnersKnown

(* A step between idling and reading, or a call that is refused or ends.   *)
LEMMA IdleOwned ==
  ASSUME IInv, OwnedCore, NEW t \in Threads,
         pc[t] \notin Opening \cup {"open_mark"},
         NEW label \in {"idle", "reading"}, Goto(t, label),
         UNCHANGED <<allocated, file_io_handle, created_in_library, file_header,
                     backing_filename, context_key, key_data, parent_file, hnd,
                     created, handles>>
  PROVE  OwnedCore'
<1>1. label \notin Opening \cup {"open_mark", "crashed"} /\ label \notin Owning
      /\ label \notin {"set_parent_file", "set_keys", "set_password", "get_media_size"}
  BY DEF Opening, Owning
<1> QED
  BY <1>1, QuietOwned

LEMMA RefuseOwned ==
  ASSUME IInv, OwnedCore, NEW t \in Threads, pc[t] = "idle", Refuse(t)
  PROVE  OwnedCore'
<1>1. Goto(t, "idle") /\ pc[t] \notin Opening \cup {"open_mark"}
  BY DEF Refuse, Return, Opening
<1> QED
  BY <1>1, IdleOwned DEF Refuse, fileFields, settings, locals

LEMMA EnterOwned ==
  ASSUME IInv, OneOwnerOnly, OwnedCore, NEW t \in Threads,
         NEW c \in LockingCalls, Enter(t, c)
  PROVE  OwnedCore'
<1>1. CASE Refuse(t)
  BY <1>1, RefuseOwned DEF Enter, Calls
<1>2. CASE ~Refuse(t)
  <2>1. /\ Check(c) /\ Goto(t, c) /\ pc[t] = "idle" /\ c \in MayCall[t]
        /\ UNCHANGED <<allocated, fileFields, settings, writer, locals,
                       handles, settled_offset>>
    BY <1>2 DEF Enter, Calls
  <2>2. c \in Owning => Owns(t)
    BY <2>1 DEF LockingCalls, Waiting, Owning, Owns, OwnerCalls
  <2>3. Owns(t) => (file_header # NoImage => HasHandle)
                   /\ (backing_filename => HasHandle)
    <3>1. Owns(t) => ~OpenInProgress
      BY <2>1, OwnerAlone DEF OwnedCore, OpenInProgress, Owning
    <3> QED
      BY <3>1 DEF IInv, SessionConsistent, WhollyClosed
  <2>4. /\ c \notin Opening \cup {"open_mark", "crashed"}
        /\ pc[t] \notin Opening \cup {"open_mark"}
    BY <2>1 DEF LockingCalls, Waiting, Opening
  <2>5. c = "set_parent_file" => HasHandle /\ backing_filename /\ parent_file = NoParent
    BY <2>1, <2>2, <2>3 DEF Check, Owning
  <2>6. c \in {"set_keys", "set_password"} => ~HasHandle
    BY <2>1 DEF Check, HasHandle
  <2>7. c = "get_media_size" => HasHandle
    BY <2>1, <2>2, <2>3 DEF Check, Owning
  <2> QED
    BY <2>1, <2>2, <2>4, <2>5, <2>6, <2>7, QuietOwned DEF fileFields, settings, locals
<1> QED
  BY <1>1, <1>2

LEMMA OpenOwned ==
  ASSUME IInv, OneOwnerOnly, OwnedCore, NEW t \in Threads, NEW h \in Handles,
         NEW i \in Images, Open(t, h, i)
  PROVE  OwnedCore'
<1>1. CASE Refuse(t)
  BY <1>1, RefuseOwned DEF Open, Calls
<1>2. CASE ~Refuse(t)
  <2>1. /\ handles' = [handles EXCEPT
              ![h] = [state |-> "open", image |-> i, owner |-> "library"]]
        /\ hnd' = [hnd EXCEPT ![t] = h]
        /\ created' = [created EXCEPT ![t] = TRUE]
        /\ Goto(t, "open_wait")
        /\ UNCHANGED <<allocated, fileFields, settings>>
        /\ pc[t] = "idle" /\ ~HasHandle /\ handles[h].state = "none"
        /\ "open" \in MayCall[t]
    BY <1>2 DEF Open, Calls, HasHandle
  <2>2. Owns(t)
    BY <2>1 DEF Owns, OwnerCalls
  <2>3. ~InUse(h)
    BY <2>1, FileConstants DEF FileConstants, InUse, IInv, HandlesInHand, HasHandle
  <2>4. /\ handles'[h].owner = "library" /\ created'[t]
        /\ \A g \in Handles : g # h => handles'[g] = handles[g]
        /\ \A u \in Threads : u # t => created'[u] = created[u]
    BY <2>1 DEF IInv, TypeOK
  <2> QED
    BY <2>1, <2>2, <2>3, <2>4, TakeOwned
<1> QED
  BY <1>1, <1>2

LEMMA OpenFileIoHandleOwned ==
  ASSUME IInv, OneOwnerOnly, OwnedCore, NEW t \in Threads, NEW h \in Handles,
         OpenFileIoHandle(t, h)
  PROVE  OwnedCore'
<1>1. CASE Refuse(t)
  BY <1>1, RefuseOwned DEF OpenFileIoHandle, Calls
<1>2. CASE ~Refuse(t)
  <2>1. /\ handles' = [handles EXCEPT ![h].state = "open"]
        /\ hnd' = [hnd EXCEPT ![t] = h]
        /\ created' = [created EXCEPT ![t] = FALSE]
        /\ Goto(t, "open_wait")
        /\ UNCHANGED <<allocated, fileFields, settings>>
        /\ pc[t] = "idle" /\ ~HasHandle /\ ~InUse(h)
        /\ handles[h].owner = "caller"
        /\ "open_file_io_handle" \in MayCall[t]
    BY <1>2 DEF OpenFileIoHandle, Calls, HasHandle
  <2>2. Owns(t)
    BY <2>1 DEF Owns, OwnerCalls
  <2>3. /\ handles'[h].owner = "caller" /\ ~created'[t]
        /\ \A g \in Handles : g # h => handles'[g] = handles[g]
        /\ \A u \in Threads : u # t => created'[u] = created[u]
    BY <2>1 DEF IInv, TypeOK, HandleStates
  <2> QED
    BY <2>1, <2>2, <2>3, TakeOwned
<1> QED
  BY <1>1, <1>2

LEMMA OpenStepsOwned ==
  ASSUME IInv, OneOwnerOnly, OwnedCore, NEW t \in Threads, OpenSteps(t)
  PROVE  OwnedCore'
<1>0. pc[t] \in {"open_wait", "open_read", "open_tables", "open_mark"}
  BY DEF OpenSteps, OpenGrab, OpenReadHeader, OpenReadTables, OpenMarkCreated
<1>1. Owns(t)
  BY <1>0 DEF OwnedCore, OwnerOwns, Owning
<1>2. CASE OpenGrab(t)
  <2>1. /\ pc[t] = "open_wait" /\ Goto(t, "open_read") /\ ~HasHandle
        /\ UNCHANGED <<allocated, fileFields, settings, locals, handles>>
    BY <1>2 DEF OpenGrab, OwnedCore, CheckStands, Opening
  <2>2. ~HasHandle' /\ UNCHANGED <<file_io_handle, created_in_library>>
    BY <2>1 DEF HasHandle, fileFields
  <2>3. OwnerOwns' /\ CheckStands' /\ \A u \in Threads : pc'[u] # "open_mark"
    BY <1>1, <2>1, <2>2, OwnerMoves
  <2>4. OwnersKnown'
    BY <2>1, <2>2, <2>3 DEF OwnedCore, OwnersKnown, NoHandleLeak, InUse, locals
  <2>5. NothingWhenFreed'
    BY <2>1, <2>2 DEF OwnedCore, NothingWhenFreed, settings
  <2> QED
    BY <2>3, <2>4, <2>5 DEF OwnedCore
<1>3. CASE OpenReadHeader(t)
  <2> DEFINE i == handles[hnd[t]].image
  <2>1. CASE OpenFailed(t)
    BY <1>3, <2>1, OpenFailedOwned DEF OpenReadHeader
  <2>2. CASE ~OpenFailed(t)
    <3>1. /\ pc[t] = "open_read" /\ Goto(t, "open_tables") /\ ~HasHandle
          /\ file_header' = i /\ context_key' = SessionKey(i, key_data)
          /\ UNCHANGED <<allocated, file_io_handle, created_in_library,
                         settings, locals, handles>>
      BY <1>3, <2>2 DEF OpenReadHeader, OwnedCore, CheckStands, Opening
    <3>2. ~HasHandle' /\ (context_key = SessionKey(file_header, key_data))'
      BY <3>1 DEF HasHandle, settings
    <3> HIDE DEF i
    <3>3. OwnerOwns' /\ CheckStands' /\ \A u \in Threads : pc'[u] # "open_mark"
      BY <1>1, <3>1, <3>2, OwnerMoves
    <3>4. OwnersKnown'
      BY <3>1, <3>2, <3>3 DEF OwnedCore, OwnersKnown, NoHandleLeak, InUse, locals
    <3>5. NothingWhenFreed'
      BY <3>1, <3>2 DEF OwnedCore, NothingWhenFreed, settings
    <3> QED
      BY <3>3, <3>4, <3>5 DEF OwnedCore
  <2> QED
    BY <2>1, <2>2
<1>4. CASE OpenReadTables(t)
  <2>1. CASE OpenFailed(t)
    BY <1>4, <2>1, OpenFailedOwned DEF OpenReadTables
  <2>2. CASE ~OpenFailed(t)
    <3>1. /\ pc[t] = "open_tables" /\ file_io_handle' = hnd[t]
          /\ hnd' = [hnd EXCEPT ![t] = NoHandle]
          /\ IF created[t] THEN Goto(t, "open_mark") ELSE Goto(t, "idle")
          /\ UNCHANGED <<allocated, created_in_library, settings, created, handles>>
      BY <1>4, <2>2 DEF OpenReadTables, Return
    <3>2. Goto(t, IF created[t] THEN "open_mark" ELSE "idle")
      BY <3>1
    <3> QED
      BY <3>1, <3>2, OpenedOwned
  <2> QED
    BY <2>1, <2>2
<1>5. CASE OpenMarkCreated(t)
  <2>1. /\ pc[t] = "open_mark" /\ Goto(t, "idle") /\ created_in_library'
        /\ UNCHANGED <<allocated, file_io_handle, settings, locals, handles>>
    BY <1>5 DEF OpenMarkCreated, Return
  <2>2. HasHandle /\ HasHandle' /\ handles[file_io_handle].owner = "library"
        /\ "idle" \notin Opening
    BY <2>1 DEF OwnedCore, OwnersKnown, HasHandle, Opening
  <2>3. OwnerOwns' /\ CheckStands' /\ \A u \in Threads : pc'[u] # "open_mark"
    BY <1>1, <2>1, <2>2, OwnerMoves
  <2>4. OwnersKnown'
    BY <2>1, <2>2, <2>3 DEF OwnedCore, OwnersKnown, NoHandleLeak, InUse, locals
  <2>5. allocated
    BY <2>1 DEF IInv, QuietWhenFreed
  <2>6. NothingWhenFreed'
    BY <2>1, <2>5 DEF NothingWhenFreed
  <2> QED
    BY <2>3, <2>4, <2>6 DEF OwnedCore
<1> QED
  BY <1>2, <1>3, <1>4, <1>5 DEF OpenSteps

(* Closing: an open that has yet to mark its handle would be the owner's. *)
LEMMA CloseOwned ==
  ASSUME IInv, OneOwnerOnly, OwnedCore, NEW t \in Threads, Close(t)
  PROVE  OwnedCore'
<1>1. /\ pc[t] = "close" /\ Goto(t, "idle") /\ ReleaseHandle /\ ResetFields
      /\ UNCHANGED <<allocated, settings, hnd, created>>
  BY DEF Close, Return, locals
<1>2. Owns(t) /\ allocated
  BY <1>1 DEF OwnedCore, OwnerOwns, Owning, IInv, QuietWhenFreed
<1>3. "idle" \notin Opening
  BY DEF Opening
<1>4. /\ OwnerOwns' /\ CheckStands'
      /\ \A u \in Threads : u # t => pc[u] \notin Owning
      /\ \A u \in Threads : pc'[u] # "open_mark"
  BY <1>1, <1>2, <1>3, OwnerMoves
<1>5. \A u \in Threads : pc[u] # "open_mark"
  BY <1>1, <1>4 DEF Owning
<1>6. OwnersKnown'
  BY <1>1, <1>4, <1>5, ReleasedOwned
<1>7. NothingWhenFreed'
  BY <1>1, <1>2 DEF NothingWhenFreed
<1> QED
  BY <1>4, <1>6, <1>7 DEF OwnedCore

(* The settings: what other threads wait for does not rest on them.        *)
LEMMA SettingsOwned ==
  ASSUME IInv, OneOwnerOnly, OwnedCore, NEW t \in Threads,
         \/ \E p \in Parents : SetParentFile(t, p)
         \/ \E k \in Keys : SetKeys(t, k) \/ SetPassword(t, k)
  PROVE  OwnedCore'
<1>1. /\ pc[t] \in {"set_parent_file", "set_keys", "set_password"}
      /\ Goto(t, "idle")
      /\ UNCHANGED <<allocated, fileFields, locals, handles>>
  BY DEF SetParentFile, SetKeys, SetPassword, Return
<1>2. Owns(t) /\ allocated
  BY <1>1 DEF OwnedCore, OwnerOwns, Owning, IInv, QuietWhenFreed
<1>3. "idle" \notin Opening
  BY DEF Opening
<1>4. /\ OwnerOwns' /\ CheckStands'
      /\ \A u \in Threads : u # t => pc[u] \notin Owning
      /\ \A u \in Threads : pc'[u] # "open_mark"
  BY <1>1, <1>2, <1>3, OwnerMoves
<1>5. \A u \in Threads : pc[u] # "open_mark"
  BY <1>1, <1>4 DEF Owning
<1>6. OwnersKnown'
  BY <1>1, <1>4, <1>5
     DEF OwnedCore, OwnersKnown, NoHandleLeak, InUse, HasHandle, fileFields, locals
<1>7. NothingWhenFreed'
  BY <1>1, <1>2 DEF NothingWhenFreed
<1> QED
  BY <1>4, <1>6, <1>7 DEF OwnedCore

(* Reads, seeks and getters: they leave alone what the others look at.     *)
LEMMA MediaCallsOwned ==
  ASSUME IInv, OwnedCore, NEW t \in Threads,
         \/ \E n \in 0..MaxCount : ReadBuffer(t, n)
         \/ \E o \in 0..MaxOffset, n \in 0..MaxCount : ReadBufferAtOffset(t, o, n)
         \/ ReadClusterBlock(t)
         \/ \E w \in {"set", "cur", "end"}, d \in (-MaxOffset)..MaxOffset :
              Seek(t, w, d)
         \/ GetOffset(t) \/ GetBackingFilename(t) \/ IsLocked(t) \/ SignalAbort(t)
  PROVE  OwnedCore'
<1>0. pc \in [Threads -> Labels]
  BY DEF IInv, TypeOK
<1>1. /\ pc[t] \in {"read_buffer", "read_buffer_at_offset", "reading",
                    "seek_offset", "get_offset", "get_backing_filename",
                    "is_locked", "idle"}
      /\ \E label \in {"idle", "reading"} : Goto(t, label)
      /\ UNCHANGED <<allocated, file_io_handle, created_in_library, file_header,
                     backing_filename, context_key, settings, hnd, created,
                     handles>>
  <2> USE DEF Return, fileFields, locals, unchangedByRead
  <2>1. ASSUME NEW o, NEW n, StartRead(t, o, n)
        PROVE  /\ \E label \in {"idle", "reading"} : Goto(t, label)
               /\ UNCHANGED unchangedByRead
    BY <2>1 DEF StartRead
  <2>2. ASSUME NEW n \in 0..MaxCount, ReadBuffer(t, n)
        PROVE  <1>1!:
    BY <2>1, <2>2 DEF ReadBuffer, ReadError
  <2>3. ASSUME NEW o \in 0..MaxOffset, NEW n \in 0..MaxCount,
               ReadBufferAtOffset(t, o, n)
        PROVE  <1>1!:
    BY <2>1, <2>3 DEF ReadBufferAtOffset, ReadError
  <2>4. CASE ReadClusterBlock(t)
    <3>1. ASSUME NEW cell, Deliver(t, cell), pc[t] = "reading"
          PROVE  /\ \E label \in {"idle", "reading"} : Goto(t, label)
                 /\ UNCHANGED unchangedByRead
      <4>1. Goto(t, "idle") \/ UNCHANGED pc
        BY <3>1 DEF Deliver
      <4>2. UNCHANGED pc => Goto(t, "reading")
        BY <1>0, <3>1 DEF Goto
      <4> QED
        BY <3>1, <4>1, <4>2 DEF Deliver
    <3> QED
      BY <2>4, <3>1 DEF ReadClusterBlock, ReadError
  <2>5. ASSUME NEW w \in {"set", "cur", "end"},
               NEW d \in (-MaxOffset)..MaxOffset, Seek(t, w, d)
        PROVE  <1>1!:
    BY <2>5 DEF Seek
  <2>6. CASE GetOffset(t) \/ GetBackingFilename(t) \/ IsLocked(t)
    BY <2>6 DEF GetOffset, GetBackingFilename, IsLocked, Get
  <2>7. CASE SignalAbort(t)
    BY <2>7 DEF SignalAbort, Calls
  <2> QED
    BY <2>2, <2>3, <2>4, <2>5, <2>6, <2>7
<1>2. pc[t] \notin Opening \cup {"open_mark"}
  BY <1>1 DEF Opening
<1> QED
  BY <1>1, <1>2, IdleOwned DEF settings

(* The header that get_media_size asked for is there when it has the lock. *)
LEMMA GetMediaSizeOwned ==
  ASSUME IInv, OwnedCore, NEW t \in Threads, GetMediaSize(t)
  PROVE  OwnedCore' /\ file_header # NoImage
<1>1. pc[t] = "get_media_size" /\ LockFree
  BY DEF GetMediaSize, Get
<1>2. ~OpenInProgress /\ HasHandle
  BY <1>1, NobodyInside DEF OpenInProgress, Locked, OwnedCore, CheckStands
<1>3. file_header # NoImage
  BY <1>2 DEF IInv, SessionConsistent, WhollyOpen
<1>4. /\ Goto(t, "idle")
      /\ UNCHANGED <<allocated, fileFields, settings, locals, handles>>
  BY <1>3 DEF GetMediaSize, Get, Return
<1>5. pc[t] \notin Opening \cup {"open_mark"}
  BY <1>1 DEF Opening
<1> QED
  BY <1>3, <1>4, <1>5, IdleOwned DEF fileFields, settings, locals

LEMMA FreeOwned ==
  ASSUME IInv, OwnedCore, NEW t \in Threads, Free(t)
  PROVE  OwnedCore'
<1>1. /\ \A u \in Threads : pc[u] = "idle"
      /\ Goto(t, "idle") /\ ResetFields /\ parent_file' = NoParent
      /\ IF file_io_handle # NoHandle THEN ReleaseHandle ELSE UNCHANGED handles
      /\ UNCHANGED <<hnd, created>>
  BY DEF Free, Return, locals
<1>2. \A u \in Threads : pc'[u] = "idle"
  BY <1>1 DEF Goto, IInv, TypeOK
<1>3. ReleaseHandle \/ (UNCHANGED handles /\ ~HasHandle)
  BY <1>1 DEF HasHandle
<1>4. OwnersKnown' /\ ~HasHandle'
  BY <1>1, <1>2, <1>3, ReleasedOwned
<1>5. OwnerOwns' /\ CheckStands' /\ NothingWhenFreed'
  BY <1>1, <1>2, <1>4 DEF OwnerOwns, CheckStands, NothingWhenFreed, Owning, Opening
<1> QED
  BY <1>4, <1>5 DEF OwnedCore

LEMMA InitializeOwned ==
  ASSUME IInv, OwnedCore, NEW t \in Threads, Initialize(t)
  PROVE  OwnedCore'
<1>1. /\ ~allocated /\ allocated' /\ ResetFields
      /\ UNCHANGED <<pc, hnd, created, handles>>
  BY DEF Initialize, locals
<1>2. \A u \in Threads : pc[u] = "idle"
  BY <1>1 DEF IInv, QuietWhenFreed
<1>3. ~HasHandle
  BY <1>1 DEF OwnedCore, NothingWhenFreed
<1>4. OwnersKnown' /\ ~HasHandle'
  BY <1>1, <1>2, <1>3, ReleasedOwned
<1>5. OwnerOwns' /\ CheckStands' /\ NothingWhenFreed'
  BY <1>1, <1>2, <1>4 DEF OwnerOwns, CheckStands, NothingWhenFreed, Owning, Opening
<1> QED
  BY <1>4, <1>5 DEF OwnedCore

(* The application allocates and frees handles that are in no one's hand.  *)
LEMMA CallerOwned ==
  ASSUME IInv, OwnedCore, NEW h \in Handles, ~InUse(h),
         handles'[h].owner # "library",
         \A g \in Handles : g # h => handles'[g] = handles[g],
         UNCHANGED <<allocated, fileFields, settings, pc, locals>>
  PROVE  OwnedCore'
<1> USE DEF fileFields, settings, locals
<1>1. HasHandle' = HasHandle
  BY DEF HasHandle
<1>2. HasHandle => handles'[file_io_handle] = handles[file_io_handle]
  BY DEF InUse, HasHandle, IInv, TypeOK
<1>3. \A u \in Threads : hnd[u] # NoHandle => handles'[hnd[u]] = handles[hnd[u]]
  BY DEF InUse, IInv, TypeOK
<1>4. NoHandleLeak'
  BY DEF OwnedCore, OwnersKnown, NoHandleLeak, InUse
<1>5. OwnersKnown'
  BY <1>1, <1>2, <1>3, <1>4 DEF OwnedCore, OwnersKnown
<1>6. OwnerOwns' /\ CheckStands' /\ NothingWhenFreed'
  BY <1>1 DEF OwnedCore, OwnerOwns, Owns, CheckStands, NothingWhenFreed
<1> QED
  BY <1>5, <1>6 DEF OwnedCore

LEMMA NextOwnedCore ==
  ASSUME IInv, OneOwnerOnly, OwnedCore, [Next]_vars
  PROVE  OwnedCore'
<1>1. ASSUME NEW t \in Threads, Start(t)
      PROVE  OwnedCore'
  BY <1>1, EnterOwned, OpenOwned, OpenFileIoHandleOwned, MediaCallsOwned,
     FreeOwned, InitializeOwned DEF Start
<1>2. ASSUME NEW t \in Threads, CallStep(t)
      PROVE  OwnedCore'
  BY <1>2, OpenStepsOwned, CloseOwned, SettingsOwned, MediaCallsOwned,
     GetMediaSizeOwned DEF CallStep
<1>3. ASSUME NEW h \in Handles, NEW i \in Images, CallerAllocates(h, i)
      PROVE  OwnedCore'
  <2>1. /\ handles[h].state = "none"
        /\ handles'[h].owner # "library"
        /\ \A g \in Handles : g # h => handles'[g] = handles[g]
        /\ UNCHANGED <<allocated, fileFields, settings, pc, locals>>
    BY <1>3 DEF CallerAllocates, IInv, TypeOK
  <2>2. ~InUse(h)
    BY <2>1, FileConstants
       DEF FileConstants, InUse, IInv, HandlesInHand, HandleOfFile, HasHandle
  <2> QED
    BY <2>1, <2>2, CallerOwned
<1>4. ASSUME NEW h \in Handles, CallerFrees(h)
      PROVE  OwnedCore'
  <2>1. /\ ~InUse(h)
        /\ handles'[h].owner # "library"
        /\ \A g \in Handles : g # h => handles'[g] = handles[g]
        /\ UNCHANGED <<allocated, fileFields, settings, pc, locals>>
    BY <1>4 DEF CallerFrees, IInv, TypeOK, NoSuchHandle
  <2> QED
    BY <2>1, CallerOwned
<1>5. CASE UNCHANGED vars
  <2> USE <1>5 DEF vars, fileFields, settings, locals
  <2>1. OwnersKnown'
    BY DEF OwnedCore, OwnersKnown, NoHandleLeak, InUse, HasHandle
  <2>2. OwnerOwns' /\ CheckStands' /\ NothingWhenFreed'
    BY DEF OwnedCore, OwnerOwns, Owns, CheckStands, NothingWhenFreed, HasHandle
  <2> QED
    BY <2>1, <2>2 DEF OwnedCore
<1> QED
  BY <1>1, <1>2, <1>3, <1>4, <1>5 DEF Next

-----------------------------------------------------------------------------
(* The offsets: where a read started and what it went past.                *)
LEMMA OffsetsStay ==
  ASSUME OffsetsInv,
         \A t \in Threads : (pc'[t] = "reading") = (pc[t] = "reading"),
         UNCHANGED <<current_offset, settled_offset, buffer, rest>>,
         (\E t \in Threads : pc[t] = "reading") =>
           UNCHANGED <<file_header, backing_filename, parent_file>>
  PROVE  OffsetsInv'
<1>1. (\A t \in Threads : pc'[t] # "reading") => settled_offset' = current_offset'
  BY DEF OffsetsInv
<1>2. ASSUME NEW t \in Threads, pc'[t] = "reading"
      PROVE  /\ Readable'
             /\ ReadOffset(t)' \in {settled_offset'} \cup 0..MaxOffset
             /\ ReadCount(t)' \in 0..MaxCount
             /\ \A j \in 0..(Len(buffer'[t]) - 1) :
                  Block[file_header'][ReadOffset(t)' + j] # "bad"
  <2>1. pc[t] = "reading"
    BY <1>2
  <2>2. UNCHANGED <<file_header, backing_filename, parent_file>>
    BY <2>1
  <2>3. ReadOffset(t)' = ReadOffset(t) /\ ReadCount(t)' = ReadCount(t)
        /\ Readable' = Readable
    BY <2>2 DEF ReadOffset, ReadCount, Readable
  <2> QED
    BY <2>1, <2>2, <2>3 DEF OffsetsInv
<1> QED
  BY <1>1, <1>2 DEF OffsetsInv

LEMMA OffsetsSettled ==
  ASSUME \A t \in Threads : pc'[t] # "reading", settled_offset' = current_offset'
  PROVE  OffsetsInv'
BY DEF OffsetsInv

(* A step between labels that are not "reading". *)
LEMMA OffsetsQuiet ==
  ASSUME IInv, OffsetsInv, NEW t \in Threads, pc[t] # "reading",
         NEW label, label # "reading", Goto(t, label),
         UNCHANGED <<current_offset, settled_offset, buffer, rest>>,
         LockFree \/ UNCHANGED <<file_header, backing_filename, parent_file>>
  PROVE  OffsetsInv'
<1>1. \A u \in Threads : (pc'[u] = "reading") = (pc[u] = "reading")
  BY DEF Goto, IInv, TypeOK
<1>2. LockFree => \A u \in Threads : pc[u] # "reading"
  BY NobodyInside DEF Locked
<1> QED
  BY <1>1, <1>2, OffsetsStay

(* An open holds the lock while it changes what a read would look at.      *)
LEMMA OffsetsOpenSteps ==
  ASSUME IInv, OffsetsInv, NEW t \in Threads, OpenSteps(t)
  PROVE  OffsetsInv'
<1>1. /\ pc[t] # "reading"
      /\ \E label \in {"open_read", "open_tables", "open_mark", "idle"} :
           Goto(t, label)
      /\ UNCHANGED <<current_offset, settled_offset, buffer, rest, parent_file>>
      /\ \/ UNCHANGED <<file_header, backing_filename>>
         \/ pc[t] \in Locked
  <2> USE DEF Return, fileFields, settings, locals, Locked
  <2>1. CASE OpenGrab(t)
    BY <2>1 DEF OpenGrab
  <2>2. CASE OpenReadHeader(t)
    BY <2>2 DEF OpenReadHeader, OpenFailed
  <2>3. CASE OpenReadTables(t)
    <3>1. CASE OpenFailed(t)
      BY <2>3, <3>1 DEF OpenReadTables, OpenFailed
    <3>2. CASE ~OpenFailed(t)
      BY <2>3, <3>2 DEF OpenReadTables
    <3> QED
      BY <3>1, <3>2
  <2>4. CASE OpenMarkCreated(t)
    BY <2>4 DEF OpenMarkCreated
  <2> QED
    BY <2>1, <2>2, <2>3, <2>4 DEF OpenSteps
<1>2. PICK label \in {"open_read", "open_tables", "open_mark", "idle"} :
        Goto(t, label)
  BY <1>1
<1>3. CASE pc[t] \in Locked
  <2>1. \A u \in Threads : pc[u] # "reading"
    BY <1>1, <1>3, AloneInside DEF Locked
  <2>2. \A u \in Threads : (pc'[u] = "reading") = (pc[u] = "reading")
    BY <1>1, <1>2 DEF Goto, IInv, TypeOK
  <2> QED
    BY <1>1, <2>1, <2>2, OffsetsStay
<1>4. CASE pc[t] \notin Locked
  BY <1>1, <1>2, <1>4, OffsetsQuiet
<1> QED
  BY <1>3, <1>4

LEMMA StartReadOffsets ==
  ASSUME IInv, OwnedInv, NEW t \in Threads, LockFree, Readable, pc[t] # "reading",
         NEW o \in {settled_offset} \cup 0..MaxOffset, NEW n \in 0..MaxCount,
         StartRead(t, o, n)
  PROVE  OffsetsInv'
<1>0. /\ \A u \in Threads : pc[u] # "reading"
      /\ pc \in [Threads -> Labels] /\ rest \in [Threads -> Nat]
      /\ buffer \in [Threads -> Seq(Cell)]
      /\ settled_offset \in Nat /\ o \in Nat /\ n \in Nat
      /\ UNCHANGED <<file_header, backing_filename, parent_file>>
      /\ current_offset' = o
  BY NobodyInside, ImageConstants
     DEF ImageConstants, IInv, TypeOK, Locked, StartRead, unchangedByRead, settings
<1>1. CASE o >= MediaSize[file_header] \/ n = 0
  <2>1. Goto(t, "idle") /\ settled_offset' = o
    BY <1>1 DEF StartRead, Return
  <2> QED
    BY <1>0, <2>1, OffsetsSettled DEF Goto
<1>2. CASE ~(o >= MediaSize[file_header] \/ n = 0)
  <2>1. /\ pc' = [pc EXCEPT ![t] = "reading"]
        /\ rest' = [rest EXCEPT ![t] = n]
        /\ buffer' = [buffer EXCEPT ![t] = <<>>]
        /\ settled_offset' = settled_offset
    BY <1>2 DEF StartRead, Goto
  <2>2. pc'[t] = "reading" /\ \A u \in Threads : u # t => pc'[u] # "reading"
    BY <1>0, <2>1
  <2>3. buffer'[t] = <<>> /\ Len(buffer'[t]) = 0 /\ rest'[t] = n
    BY <1>0, <2>1
  <2>4. ReadOffset(t)' = o /\ ReadCount(t)' = n
    BY <1>0, <2>3 DEF ReadOffset, ReadCount
  <2>5. Readable'
    BY <1>0 DEF Readable
  <2>6. \A j \in 0..(Len(buffer'[t]) - 1) : FALSE
    BY <2>3
  <2> QED
    BY <2>1, <2>2, <2>4, <2>5, <2>6 DEF OffsetsInv
<1> QED
  BY <1>1, <1>2

LEMMA ReadErrorOffsets ==
  ASSUME IInv, NEW t \in Threads, ReadError(t), LockFree \/ pc[t] \in Locked
  PROVE  OffsetsInv'
<1>1. /\ pc' = [pc EXCEPT ![t] = "idle"] /\ pc \in [Threads -> Labels]
      /\ settled_offset' = current_offset /\ current_offset' = current_offset
  BY DEF ReadError, Return, Goto, IInv, TypeOK
<1>2. \A u \in Threads : u # t => pc[u] # "reading"
  BY NobodyInside, AloneInside DEF Locked
<1> QED
  BY <1>1, <1>2, OffsetsSettled

LEMMA DeliverOffsets ==
  ASSUME IInv, OwnedInv, NEW t \in Threads, pc[t] = "reading", NEW cell \in Cell,
         Block[file_header][current_offset] # "bad", Deliver(t, cell)
  PROVE  OffsetsInv'
<1>0. /\ \A u \in Threads : u # t => pc[u] # "reading"
      /\ pc \in [Threads -> Labels] /\ rest \in [Threads -> Nat]
      /\ buffer \in [Threads -> Seq(Cell)] /\ current_offset \in Nat
      /\ UNCHANGED <<file_header, backing_filename, parent_file>>
      /\ current_offset' = current_offset + 1
  BY AloneInside
     DEF IInv, TypeOK, Locked, Deliver, unchangedByRead, settings
<1>1. CASE rest[t] = 1 \/ current_offset + 1 >= MediaSize[file_header]
  <2>1. pc' = [pc EXCEPT ![t] = "idle"] /\ settled_offset' = current_offset + 1
    BY <1>1 DEF Deliver, Return, Goto
  <2> QED
    BY <1>0, <2>1, OffsetsSettled
<1>2. CASE ~(rest[t] = 1 \/ current_offset + 1 >= MediaSize[file_header])
  <2>1. /\ pc' = pc /\ settled_offset' = settled_offset
        /\ rest' = [rest EXCEPT ![t] = rest[t] - 1]
        /\ buffer' = [buffer EXCEPT ![t] = Append(buffer[t], cell)]
    BY <1>2 DEF Deliver
  <2>2. /\ Len(buffer'[t]) = Len(buffer[t]) + 1 /\ Len(buffer[t]) \in Nat
        /\ rest'[t] = rest[t] - 1 /\ rest[t] \in Nat
    BY <1>0, <2>1
  <2>3. ReadOffset(t)' = ReadOffset(t) /\ ReadCount(t)' = ReadCount(t)
    BY <1>0, <2>2 DEF ReadOffset, ReadCount
  <2>4. Readable'
    BY <1>0 DEF Readable, OwnedInv, OffsetsInv
  <2>5. \A j \in 0..(Len(buffer'[t]) - 1) :
          Block[file_header'][ReadOffset(t)' + j] # "bad"
    <3> SUFFICES ASSUME NEW j \in 0..Len(buffer[t])
                 PROVE  Block[file_header][ReadOffset(t) + j] # "bad"
      BY <1>0, <2>2, <2>3
    <3>1. CASE j = Len(buffer[t])
      <4>1. ReadOffset(t) + j = current_offset
        BY <1>0, <2>2, <3>1 DEF ReadOffset
      <4> QED
        BY <4>1
    <3>2. CASE j # Len(buffer[t])
      <4>1. j \in 0..(Len(buffer[t]) - 1)
        BY <2>2, <3>2
      <4> QED
        BY <4>1 DEF OwnedInv, OffsetsInv
    <3> QED
      BY <3>1, <3>2
  <2>6. /\ ReadOffset(t) \in {settled_offset} \cup 0..MaxOffset
        /\ ReadCount(t) \in 0..MaxCount
    BY DEF OwnedInv, OffsetsInv
  <2> QED
    BY <1>0, <2>1, <2>3, <2>4, <2>5, <2>6 DEF OffsetsInv
<1> QED
  BY <1>1, <1>2

LEMMA ReadOffsets ==
  ASSUME IInv, OwnedInv, NEW t \in Threads,
         \/ \E n \in 0..MaxCount : ReadBuffer(t, n)
         \/ \E o \in 0..MaxOffset, n \in 0..MaxCount : ReadBufferAtOffset(t, o, n)
         \/ ReadClusterBlock(t)
  PROVE  OffsetsInv'
<1>1. ASSUME NEW n \in 0..MaxCount, ReadBuffer(t, n)
      PROVE  OffsetsInv'
  <2>1. pc[t] # "reading" /\ LockFree
    BY <1>1 DEF ReadBuffer
  <2>2. current_offset = settled_offset
    BY <2>1, NobodyInside DEF OwnedInv, OffsetsInv, Locked
  <2> QED
    BY <1>1, <2>1, <2>2, StartReadOffsets, ReadErrorOffsets DEF ReadBuffer
<1>2. ASSUME NEW o \in 0..MaxOffset, NEW n \in 0..MaxCount,
             ReadBufferAtOffset(t, o, n)
      PROVE  OffsetsInv'
  BY <1>2, StartReadOffsets, ReadErrorOffsets DEF ReadBufferAtOffset
<1>3. CASE ReadClusterBlock(t)
  <2>1. pc[t] = "reading" /\ pc[t] \in Locked
    BY <1>3 DEF ReadClusterBlock, Locked
  <2>2. file_header \in Images /\ current_offset \in Nat
        /\ context_key \in Keys \cup {NoKey} /\ parent_file \in Parents \cup {NoParent}
    BY <2>1 DEF IInv, TypeOK, ReadIsOneExtent, OneExtent
  <2>3. /\ DataCell(file_header, current_offset, context_key) \in Cell
        /\ parent_file # NoParent => ParentCell(parent_file, current_offset) \in Cell
        /\ ZeroCell \in Cell
    BY <2>2, CellType
  <2> QED
    BY <1>3, <2>1, <2>3, DeliverOffsets, ReadErrorOffsets DEF ReadClusterBlock
<1> QED
  BY <1>1, <1>2, <1>3

(* The other calls move the offset in one step, when no one is reading.    *)
LEMMA OtherOffsets ==
  ASSUME IInv, OwnedInv, NEW t \in Threads,
         \/ \E p \in Parents : SetParentFile(t, p)
         \/ \E k \in Keys : SetKeys(t, k) \/ SetPassword(t, k)
         \/ \E w \in {"set", "cur", "end"}, d \in (-MaxOffset)..MaxOffset :
              Seek(t, w, d)
         \/ GetOffset(t) \/ GetMediaSize(t) \/ GetBackingFilename(t) \/ IsLocked(t)
  PROVE  OffsetsInv'
<1> USE DEF Return, fileFields, settings, locals
<1>1. ASSUME NEW p \in Parents, SetParentFile(t, p)
      PROVE  OffsetsInv'
  BY <1>1, OffsetsQuiet DEF SetParentFile, OwnedInv
<1>2. ASSUME NEW k \in Keys, SetKeys(t, k) \/ SetPassword(t, k)
      PROVE  OffsetsInv'
  BY <1>2, OffsetsQuiet DEF SetKeys, SetPassword, OwnedInv
<1>3. ASSUME NEW w \in {"set", "cur", "end"}, NEW d \in (-MaxOffset)..MaxOffset,
             Seek(t, w, d)
      PROVE  OffsetsInv'
  <2>1. /\ pc' = [pc EXCEPT ![t] = "idle"] /\ pc \in [Threads -> Labels]
        /\ \/ UNCHANGED <<current_offset, settled_offset>>
           \/ settled_offset' = current_offset'
    BY <1>3 DEF Seek, Goto, IInv, TypeOK
  <2>2. \A u \in Threads : pc[u] # "reading"
    BY <1>3, NobodyInside DEF Seek, Locked
  <2>3. settled_offset' = current_offset'
    BY <2>1, <2>2 DEF OwnedInv, OffsetsInv
  <2> QED
    BY <2>1, <2>2, <2>3, OffsetsSettled
<1>4. CASE GetOffset(t) \/ GetBackingFilename(t) \/ IsLocked(t)
  BY <1>4, OffsetsQuiet
     DEF GetOffset, GetBackingFilename, IsLocked, Get, OwnedInv
<1>5. CASE GetMediaSize(t)
  BY <1>5, OffsetsQuiet DEF GetMediaSize, Get, OwnedInv
<1> QED
  BY <1>1, <1>2, <1>3, <1>4, <1>5

LEMMA StartOffsets ==
  ASSUME IInv, OwnedInv, NEW t \in Threads, Start(t)
  PROVE  OffsetsInv'
<1> USE DEF Calls, Return, fileFields, settings, locals
<1>1. ASSUME pc[t] = "idle", Refuse(t)
      PROVE  OffsetsInv'
  BY <1>1, OffsetsQuiet DEF Refuse, OwnedInv
<1>2. ASSUME NEW c \in LockingCalls, Enter(t, c)
      PROVE  OffsetsInv'
  <2>1. c # "reading" /\ pc[t] = "idle"
    BY <1>2 DEF LockingCalls, Waiting, Enter
  <2>2. CASE Refuse(t)
    BY <1>1, <2>1, <2>2
  <2>3. CASE ~Refuse(t)
    BY <1>2, <2>1, <2>3, OffsetsQuiet DEF Enter, OwnedInv
  <2> QED
    BY <2>2, <2>3
<1>3. ASSUME NEW h \in Handles, NEW i \in Images, Open(t, h, i)
      PROVE  OffsetsInv'
  <2>1. CASE Refuse(t)
    BY <1>1, <1>3, <2>1 DEF Open
  <2>2. CASE ~Refuse(t)
    BY <1>3, <2>2, OffsetsQuiet DEF Open, OwnedInv
  <2> QED
    BY <2>1, <2>2
<1>4. ASSUME NEW h \in Handles, OpenFileIoHandle(t, h)
      PROVE  OffsetsInv'
  <2>1. CASE Refuse(t)
    BY <1>1, <1>4, <2>1 DEF OpenFileIoHandle
  <2>2. CASE ~Refuse(t)
    BY <1>4, <2>2, OffsetsQuiet DEF OpenFileIoHandle, OwnedInv
  <2> QED
    BY <2>1, <2>2
<1>5. CASE SignalAbort(t)
  BY <1>5, OffsetsQuiet DEF SignalAbort, OwnedInv
<1>6. CASE Free(t) \/ Initialize(t)
  <2>1. \A u \in Threads : pc[u] = "idle" /\ pc'[u] = "idle"
    BY <1>6 DEF Free, Initialize, Goto, IInv, TypeOK, QuietWhenFreed
  <2>2. settled_offset' = current_offset'
    BY <1>6 DEF Free, Initialize, ResetFields
  <2> QED
    BY <2>1, <2>2, OffsetsSettled
<1> QED
  BY <1>2, <1>3, <1>4, <1>5, <1>6 DEF Start

LEMMA NextOffsets ==
  ASSUME IInv, OwnedInv, [Next]_vars
  PROVE  OffsetsInv'
<1>1. ASSUME NEW t \in Threads, Start(t)
      PROVE  OffsetsInv'
  BY <1>1, StartOffsets
<1>2. ASSUME NEW t \in Threads, CallStep(t)
      PROVE  OffsetsInv'
  <2>1. CASE Close(t)
    <3>1. \A u \in Threads : pc'[u] # "reading"
      BY <2>1, NobodyInside DEF Close, Return, Goto, Locked, IInv, TypeOK
    <3> QED
      BY <2>1, <3>1, OffsetsSettled DEF Close, ResetFields
  <2> QED
    BY <1>2, <2>1, OffsetsOpenSteps, ReadOffsets, OtherOffsets
       DEF CallStep, OwnedInv
<1>3. ASSUME UNCHANGED <<fileFields, settings, pc, locals, settled_offset>>
      PROVE  OffsetsInv'
  BY <1>3, OffsetsStay DEF fileFields, settings, locals, OwnedInv
<1>4. ASSUME NEW h \in Handles, NEW i \in Images, CallerAllocates(h, i)
      PROVE  OffsetsInv'
  BY <1>3, <1>4 DEF CallerAllocates
<1>5. ASSUME NEW h \in Handles, CallerFrees(h)
      PROVE  OffsetsInv'
  BY <1>3, <1>5 DEF CallerFrees
<1>6. CASE UNCHANGED vars
  BY <1>3, <1>6 DEF vars
<1> QED
  BY <1>1, <1>2, <1>4, <1>5, <1>6 DEF Next

LEMMA InitOwned == Init => OwnedInv
<1> SUFFICES ASSUME Init PROVE OwnedInv
  OBVIOUS
<1>1. ~HasHandle /\ \A t \in Threads : pc[t] = "idle" /\ hnd[t] = NoHandle
  BY DEF Init, HasHandle
<1>2. \A h \in Handles : handles[h].owner # "library"
  BY DEF Init, NoSuchHandle
<1>3. OwnerOwns /\ CheckStands /\ NothingWhenFreed
  BY <1>1 DEF OwnerOwns, CheckStands, NothingWhenFreed, Owning, Opening, Init
<1>4. OwnersKnown
  BY <1>1, <1>2 DEF OwnersKnown, NoHandleLeak, Init
<1>5. OffsetsInv
  BY <1>1 DEF OffsetsInv, Init
<1> QED
  BY <1>3, <1>4, <1>5 DEF OwnedInv, OwnedCore

LEMMA OwnedInvariance ==
  ASSUME OneOwnerOnly
  PROVE  Spec => []OwnedInv
<1>1. IInv /\ OwnedInv /\ [Next]_vars => OwnedInv'
  BY NextOwnedCore, NextOffsets DEF OwnedInv
<1> QED
  BY <1>1, InitOwned, Invariance, PTL DEF Spec

-----------------------------------------------------------------------------
(* What follows when one thread owns the file.                             *)

(* No libbfio handle that libqcow_file_open made is lost: it is in the      *)
(* hand of the open, or the file's, until it is freed.                      *)
THEOREM HandlesKept ==
  ASSUME OneOwnerOnly
  PROVE  Spec => []NoHandleLeak
<1>1. OwnedInv => NoHandleLeak
  BY DEF OwnedInv, OwnedCore, OwnersKnown
<1> QED
  BY <1>1, OwnedInvariance, PTL

(* A getter finds the header that its unlocked check saw.                   *)
THEOREM GettersAnswer ==
  ASSUME OneOwnerOnly
  PROVE  Spec => []NoCrash
<1>1. OwnedInv => NoCrash
  BY DEF OwnedInv, OwnedCore, CheckStands, NoCrash
<1> QED
  BY <1>1, OwnedInvariance, PTL

(* A parent that was set stays until the file is freed.                     *)
THEOREM ParentStays ==
  ASSUME OneOwnerOnly
  PROVE  Spec => ParentSetOnce
<1>1. ASSUME IInv, OwnedInv, [Next]_vars, parent_file # NoParent, allocated'
      PROVE  parent_file' = parent_file
  <2> USE DEF Refuse, ReadError, StartRead, Deliver, Return, settings,
              unchangedByRead
  <2>1. ASSUME NEW t \in Threads, Start(t)
        PROVE  parent_file' = parent_file
    <3>1. allocated
      BY <1>1 DEF OwnedInv, OwnedCore, NothingWhenFreed
    <3>2. ~Free(t) /\ ~Initialize(t)
      BY <1>1, <3>1 DEF Free, Initialize
    <3> QED
      BY <2>1, <3>2 DEF Start, Enter, Open, OpenFileIoHandle, SignalAbort
  <2>2. ASSUME NEW t \in Threads, CallStep(t)
        PROVE  parent_file' = parent_file
    <3>1. \A p \in Parents : ~SetParentFile(t, p)
      BY <1>1 DEF SetParentFile, OwnedInv, OwnedCore, CheckStands
    <3>2. CASE OpenSteps(t)
      BY <3>2 DEF OpenSteps, OpenGrab, OpenReadHeader, OpenReadTables,
         OpenFailed, OpenMarkCreated
    <3>3. CASE Close(t)
      BY <3>3 DEF Close
    <3>4. ASSUME NEW k \in Keys, SetKeys(t, k) \/ SetPassword(t, k)
          PROVE  parent_file' = parent_file
      BY <3>4 DEF SetKeys, SetPassword
    <3>5. CASE \/ \E n \in 0..MaxCount : ReadBuffer(t, n)
               \/ \E o \in 0..MaxOffset, n \in 0..MaxCount : ReadBufferAtOffset(t, o, n)
               \/ ReadClusterBlock(t)
      BY <3>5 DEF ReadBuffer, ReadBufferAtOffset, ReadClusterBlock
    <3>6. ASSUME NEW w \in {"set", "cur", "end"},
                 NEW d \in (-MaxOffset)..MaxOffset, Seek(t, w, d)
          PROVE  parent_file' = parent_file
      BY <3>6 DEF Seek
    <3>7. CASE GetOffset(t) \/ GetMediaSize(t) \/ GetBackingFilename(t) \/ IsLocked(t)
      BY <3>7 DEF GetOffset, GetMediaSize, GetBackingFilename, IsLocked, Get
    <3> QED
      BY <2>2, <3>1, <3>2, <3>3, <3>4, <3>5, <3>6, <3>7 DEF CallStep
  <2>3. ASSUME NEW h \in Handles, CallerFrees(h) \/ \E i \in Images : CallerAllocates(h, i)
        PROVE  parent_file' = parent_file
    BY <2>3 DEF CallerFrees, CallerAllocates
  <2> QED
    BY <1>1, <2>1, <2>2, <2>3 DEF Next, vars
<1>2. IInv /\ OwnedInv /\ [Next]_vars =>
        [parent_file # NoParent /\ allocated' => parent_file' = parent_file]_vars
  BY <1>1
<1> QED
  BY <1>2, OwnedInvariance, Invariance, PTL DEF Spec, ParentSetOnce

(* The library never frees a libbfio handle of the application.             *)
THEOREM CallerHandlesSafe ==
  ASSUME OneOwnerOnly
  PROVE  Spec => CallerHandlesSurvive
<1>1. ASSUME IInv, OwnedInv, [Next]_vars, NEW h \in Handles,
             handles[h].owner = "caller", InUse(h)
      PROVE  handles'[h].owner = "caller"
  <2>0. /\ handles \in [Handles -> HandleStates]
        /\ hnd \in [Threads -> Handles \cup {NoHandle}]
        /\ handles[h].state # "none"
    BY <1>1 DEF IInv, TypeOK, HandlesOfCaller
  <2>1. ReleaseHandle => handles'[h].owner = "caller"
    <3>1. file_io_handle = h => ~created_in_library
      BY <1>1 DEF OwnedInv, OwnedCore, OwnersKnown
    <3>2. file_io_handle = NoHandle \/ file_io_handle \in Handles
      BY <1>1 DEF IInv, TypeOK
    <3> QED
      BY <1>1, <2>0, <3>1, <3>2 DEF ReleaseHandle, HandleStates
  <2>2. ASSUME NEW t \in Threads, OpenFailed(t)
        PROVE  handles'[h].owner = "caller"
    <3>1. hnd[t] = h => ~created[t]
      BY <1>1, FileConstants DEF FileConstants, OwnedInv, OwnedCore, OwnersKnown
    <3> QED
      BY <1>1, <2>0, <2>2, <3>1 DEF OpenFailed
  <2>3. ASSUME NEW t \in Threads, Start(t)
        PROVE  handles'[h].owner = "caller"
    <3>1. CASE UNCHANGED handles
      BY <1>1, <3>1
    <3>2. ASSUME NEW g \in Handles, NEW i \in Images, Open(t, g, i)
          PROVE  handles'[h].owner = "caller"
      <4>1. g # h
        BY <2>0, <3>2 DEF Open
      <4> QED
        BY <1>1, <2>0, <3>2, <4>1 DEF Open, Refuse
    <3>3. ASSUME NEW g \in Handles, OpenFileIoHandle(t, g)
          PROVE  handles'[h].owner = "caller"
      BY <1>1, <2>0, <3>3 DEF OpenFileIoHandle, Refuse, HandleStates
    <3>4. CASE Free(t)
      BY <2>1, <3>1, <3>4 DEF Free
    <3> QED
      BY <2>3, <3>1, <3>2, <3>3, <3>4 DEF Start, Enter, Refuse, SignalAbort, Initialize
  <2>4. ASSUME NEW t \in Threads, CallStep(t)
        PROVE  handles'[h].owner = "caller"
    <3> USE DEF Return, locals, unchangedByRead
    <3>1. CASE UNCHANGED handles
      BY <1>1, <3>1
    <3>2. CASE OpenSteps(t)
      BY <2>2, <3>1, <3>2 DEF OpenSteps, OpenGrab, OpenReadHeader,
         OpenReadTables, OpenMarkCreated
    <3>3. CASE Close(t)
      BY <2>1, <3>3 DEF Close
    <3>4. CASE \/ \E p \in Parents : SetParentFile(t, p)
               \/ \E k \in Keys : SetKeys(t, k) \/ SetPassword(t, k)
      BY <3>1, <3>4 DEF SetParentFile, SetKeys, SetPassword
    <3>5. CASE \/ \E n \in 0..MaxCount : ReadBuffer(t, n)
               \/ \E o \in 0..MaxOffset, n \in 0..MaxCount : ReadBufferAtOffset(t, o, n)
               \/ ReadClusterBlock(t)
      BY <3>1, <3>5 DEF ReadBuffer, ReadBufferAtOffset, ReadClusterBlock,
         ReadError, StartRead, Deliver
    <3>6. ASSUME NEW w \in {"set", "cur", "end"},
                 NEW d \in (-MaxOffset)..MaxOffset, Seek(t, w, d)
          PROVE  handles'[h].owner = "caller"
      BY <3>1, <3>6 DEF Seek
    <3>7. CASE GetOffset(t) \/ GetMediaSize(t) \/ GetBackingFilename(t) \/ IsLocked(t)
      BY <3>1, <3>7 DEF GetOffset, GetMediaSize, GetBackingFilename, IsLocked, Get
    <3> QED
      BY <2>4, <3>2, <3>3, <3>4, <3>5, <3>6, <3>7 DEF CallStep
  <2>5. ASSUME NEW g \in Handles, CallerFrees(g)
        PROVE  handles'[h].owner = "caller"
    BY <1>1, <2>0, <2>5 DEF CallerFrees
  <2>6. ASSUME NEW g \in Handles, NEW i \in Images, CallerAllocates(g, i)
        PROVE  handles'[h].owner = "caller"
    BY <1>1, <2>0, <2>6 DEF CallerAllocates
  <2> QED
    BY <1>1, <2>3, <2>4, <2>5, <2>6 DEF Next, vars
<1>2. IInv /\ OwnedInv /\ [Next]_vars =>
        [\A h \in Handles : handles[h].owner = "caller" /\ InUse(h) =>
           handles'[h].owner = "caller"]_vars
  BY <1>1
<1> QED
  BY <1>2, OwnedInvariance, Invariance, PTL DEF Spec, CallerHandlesSurvive

-----------------------------------------------------------------------------
(* The file implements what MediaHandle promises.                          *)
OpenImage == IF HasHandle THEN file_header ELSE NoImage
OpenKey == IF HasHandle THEN context_key ELSE NoKey

LEMMA SameWords ==
  /\ Media!Error = Error /\ Media!Ok = Ok /\ Media!NoReply = NoReply
  /\ \A s, c, v : Media!Reply(s, c, v) = Reply(s, c, v)
  /\ \A i, k : Media!SessionKey(i, k) = SessionKey(i, k)
  /\ \A i, k, p, c : Media!Content(i, k, p, c) = Content(i, k, p, c)
<1>1. \A s, c, v : Media!Reply(s, c, v) = Reply(s, c, v)
  BY DEF Media!Reply, Reply
<1>2. Media!Error = Error /\ Media!Ok = Ok /\ Media!NoReply = NoReply
  BY DEF Media!Error, Media!Ok, Media!NoReply, Media!Reply, Error, Ok, NoReply, Reply
<1>3. \A i, k : Media!SessionKey(i, k) = SessionKey(i, k)
  BY DEF Media!SessionKey, SessionKey
<1>4. \A i, k, p, c : Media!Content(i, k, p, c) = Content(i, k, p, c)
  BY DEF Media!Content, Content, Media!DataCell, DataCell, Media!ParentCell,
         ParentCell, Media!ZeroCell, ZeroCell
<1> QED
  BY <1>1, <1>2, <1>3, <1>4

(* A step that leaves the media alone and answers. *)
LEMMA Answers ==
  ASSUME NEW t \in Threads, NEW r \in {NoReply, Ok, Error},
         reply' = [reply EXCEPT ![t] = r],
         OpenImage' = OpenImage, OpenKey' = OpenKey,
         UNCHANGED <<key_data, parent_file, settled_offset>>
  PROVE  Media!Next
<1>1. Media!Begin(t) \/ Media!Fail(t) \/ Media!Done(t)
  BY SameWords DEF Media!Begin, Media!Fail, Media!Done, Media!Answer,
     OpenImage, OpenKey
<1> QED
  BY <1>1 DEF Media!Next

LEMMA Stutters ==
  ASSUME OpenImage' = OpenImage, OpenKey' = OpenKey,
         UNCHANGED <<key_data, parent_file, settled_offset, reply>>
  PROVE  UNCHANGED Media!vars
BY DEF Media!vars, OpenImage, OpenKey

LEMMA SameMedia ==
  ASSUME UNCHANGED file_io_handle, ~HasHandle \/ UNCHANGED <<file_header, context_key>>
  PROVE  OpenImage' = OpenImage /\ OpenKey' = OpenKey
BY DEF OpenImage, OpenKey, HasHandle

(* Who has the lock, and is not opening, sees a file wholly open or closed. *)
LEMMA WholeFile ==
  ASSUME IInv, NEW t \in Threads, LockFree \/ pc[t] = "reading"
  PROVE  IF HasHandle THEN WhollyOpen ELSE WhollyClosed
<1>1. ~OpenInProgress
  BY NobodyInside, AloneInside DEF OpenInProgress, Locked
<1> QED
  BY <1>1 DEF IInv, SessionConsistent

LEMMA ReadableComplete ==
  ASSUME IInv, NEW t \in Threads, LockFree \/ pc[t] = "reading", Readable
  PROVE  /\ Media!Complete /\ OpenImage = file_header /\ OpenKey = context_key
         /\ HasHandle /\ file_header \in Images
<1>1. HasHandle /\ file_header # NoImage /\ backing_filename = Backing[file_header]
  BY WholeFile DEF Readable, WhollyClosed, WhollyOpen
<1>2. OpenImage = file_header /\ OpenKey = context_key /\ file_header \in Images
  BY <1>1 DEF OpenImage, OpenKey, IInv, TypeOK
<1>3. Media!Complete
  BY <1>1 DEF Media!Complete, Readable
<1> QED
  BY <1>1, <1>2, <1>3

LEMMA StartMaps ==
  ASSUME IInv, OwnedInv, NEW t \in Threads, Start(t)
  PROVE  Media!Next
<1> USE DEF fileFields, settings, Return
<1>1. ASSUME Refuse(t)
      PROVE  Media!Next
  BY <1>1, SameMedia, Answers DEF Refuse
<1>2. ASSUME NEW c \in LockingCalls, Enter(t, c)
      PROVE  Media!Next
  <2>1. CASE ~Refuse(t)
    BY <1>2, <2>1, SameMedia, Answers DEF Enter
  <2> QED
    BY <1>1, <2>1
<1>3. ASSUME NEW h \in Handles, NEW i \in Images, Open(t, h, i)
      PROVE  Media!Next
  <2>1. CASE ~Refuse(t)
    BY <1>3, <2>1, SameMedia, Answers DEF Open
  <2> QED
    BY <1>1, <2>1
<1>4. ASSUME NEW h \in Handles, OpenFileIoHandle(t, h)
      PROVE  Media!Next
  <2>1. CASE ~Refuse(t)
    BY <1>4, <2>1, SameMedia, Answers DEF OpenFileIoHandle
  <2> QED
    BY <1>1, <2>1
<1>5. CASE SignalAbort(t)
  BY <1>5, SameMedia, Answers DEF SignalAbort
<1>6. CASE Free(t) \/ Initialize(t)
  <2>1. /\ ResetFields /\ key_data' = ZeroKey /\ parent_file' = NoParent
        /\ settled_offset' = 0
        /\ reply' = reply \/ reply' = [reply EXCEPT ![t] = Ok]
    BY <1>6 DEF Free, Initialize
  <2>2. ~HasHandle'
    BY <2>1 DEF ResetFields, HasHandle
  <2>3. Media!Recreate(t)
    BY <2>1, <2>2, SameWords DEF Media!Recreate, Media!Answer
  <2> QED
    BY <2>3 DEF Media!Next
<1> QED
  BY <1>2, <1>3, <1>4, <1>5, <1>6 DEF Start

LEMMA OpenStepsMap ==
  ASSUME IInv, OwnedInv, NEW t \in Threads, OpenSteps(t)
  PROVE  [Media!Next]_(Media!vars)
<1> USE DEF fileFields, settings, locals, Return
<1>1. pc[t] # "open_mark" => ~HasHandle
  BY DEF OpenSteps, OpenGrab, OpenReadHeader, OpenReadTables, OpenMarkCreated,
     OwnedInv, OwnedCore, CheckStands, Opening
<1>2. CASE OpenGrab(t)
  BY <1>2, SameMedia, Stutters DEF OpenGrab
<1>3. ASSUME OpenFailed(t), pc[t] # "open_mark"
      PROVE  Media!Next
  BY <1>1, <1>3, SameMedia, Answers DEF OpenFailed
<1>4. CASE OpenReadHeader(t)
  <2>1. CASE OpenFailed(t)
    BY <1>3, <1>4, <2>1 DEF OpenReadHeader
  <2>2. CASE ~OpenFailed(t)
    <3>1. pc[t] = "open_read"
          /\ UNCHANGED <<file_io_handle, settings, reply, settled_offset>>
      BY <1>4, <2>2 DEF OpenReadHeader
    <3> QED
      BY <1>1, <3>1, SameMedia, Stutters
  <2> QED
    BY <2>1, <2>2
<1>5. CASE OpenReadTables(t)
  <2>1. CASE OpenFailed(t)
    BY <1>3, <1>5, <2>1 DEF OpenReadTables
  <2>2. CASE ~OpenFailed(t)
    <3>1. /\ pc[t] = "open_tables" /\ file_io_handle' = hnd[t]
          /\ reply' = reply \/ reply' = [reply EXCEPT ![t] = Ok]
          /\ UNCHANGED <<file_header, context_key, settings, settled_offset>>
      BY <1>5, <2>2 DEF OpenReadTables
    <3>2. ~HasHandle /\ HasHandle'
      BY <1>1, <3>1, InHand DEF HasHandle, Opening
    <3>3. file_header \in Images /\ context_key = SessionKey(file_header, key_data)
      BY <3>1 DEF IInv, HeaderRead, HandlesInHand, Opening, OwnedInv, OwnedCore,
         CheckStands
    <3>4. Media!OpenMedia(t, file_header)
      BY <3>1, <3>2, <3>3, SameWords DEF Media!OpenMedia, Media!Answer
    <3> QED
      BY <3>3, <3>4 DEF Media!Next
  <2> QED
    BY <2>1, <2>2
<1>6. CASE OpenMarkCreated(t)
  BY <1>6, SameMedia, Answers DEF OpenMarkCreated
<1> QED
  BY <1>2, <1>4, <1>5, <1>6 DEF OpenSteps

LEMMA CloseMaps ==
  ASSUME NEW t \in Threads, Close(t)
  PROVE  Media!Next
<1>1. ~HasHandle'
  BY DEF Close, ResetFields, HasHandle
<1>2. Media!CloseMedia(t)
  BY <1>1, SameWords DEF Close, Return, settings, Media!CloseMedia, Media!Answer
<1> QED
  BY <1>2 DEF Media!Next

LEMMA SettingsMap ==
  ASSUME IInv, OwnedInv, NEW t \in Threads,
         \/ \E p \in Parents : SetParentFile(t, p)
         \/ \E k \in Keys : SetKeys(t, k) \/ SetPassword(t, k)
  PROVE  Media!Next
<1> USE DEF fileFields, Return
<1>1. ASSUME NEW p \in Parents, SetParentFile(t, p)
      PROVE  Media!Next
  <2>1. HasHandle /\ backing_filename /\ parent_file = NoParent
    BY <1>1 DEF SetParentFile, OwnedInv, OwnedCore, CheckStands
  <2>2. WhollyOpen
    BY <1>1, <2>1, WholeFile DEF SetParentFile
  <2>3. OpenImage' = OpenImage /\ OpenKey' = OpenKey
    BY <1>1, SameMedia DEF SetParentFile
  <2>4. Media!SetParent(t, p)
    BY <1>1, <2>1, <2>2, <2>3, SameWords
       DEF SetParentFile, WhollyOpen, Media!SetParent, Media!Answer, OpenImage,
           OpenKey
  <2> QED
    BY <2>4 DEF Media!Next
<1>2. ASSUME NEW k \in Keys, SetKeys(t, k) \/ SetPassword(t, k)
      PROVE  Media!Next
  <2>1. ~HasHandle
    BY <1>2 DEF SetKeys, SetPassword, OwnedInv, OwnedCore, CheckStands
  <2>2. OpenImage' = OpenImage /\ OpenKey' = OpenKey
    BY <1>2, SameMedia DEF SetKeys, SetPassword
  <2>3. PICK l \in {k, ZeroKey} : key_data' = l
    BY <1>2 DEF SetKeys, SetPassword
  <2>4. /\ UNCHANGED <<parent_file, settled_offset>>
        /\ \/ reply' = [reply EXCEPT ![t] = Ok]
           \/ reply' = [reply EXCEPT ![t] = Error]
    BY <1>2 DEF SetKeys, SetPassword
  <2>5. Media!SetKey(t, l)
    BY <2>1, <2>2, <2>3, <2>4, SameWords
       DEF Media!SetKey, Media!Answer, OpenImage, OpenKey
  <2>6. l \in Keys
    BY <2>3, ImageConstants DEF ImageConstants
  <2> QED
    BY <2>5, <2>6 DEF Media!Next
<1> QED
  BY <1>1, <1>2

LEMMA SeekMaps ==
  ASSUME IInv, OwnedInv, NEW t \in Threads, NEW w \in {"set", "cur", "end"},
         NEW d \in (-MaxOffset)..MaxOffset, Seek(t, w, d)
  PROVE  Media!Next
<1> DEFINE o == SeekTarget(w, d)
<1> HIDE DEF o
<1>1. /\ pc[t] = "seek_offset" /\ LockFree
      /\ UNCHANGED <<file_io_handle, file_header, context_key, key_data, parent_file>>
  BY DEF Seek, unchangedByRead, settings
<1>2. OpenImage' = OpenImage /\ OpenKey' = OpenKey
  BY <1>1, SameMedia
<1>3. CASE Readable /\ o >= 0
  <2>1. Media!Complete /\ OpenImage = file_header /\ file_header \in Images
    BY <1>1, <1>3, ReadableComplete
  <2>2. o \in Int
    <3>1. MediaSize[file_header] \in Int /\ current_offset \in Int /\ d \in Int
      BY <2>1, ImageConstants DEF ImageConstants, IInv, TypeOK
    <3>2. o \in {d, current_offset + d, MediaSize[file_header] + d}
      BY <3>1 DEF o, SeekTarget
    <3> QED
      BY <3>1, <3>2
  <2>3. o <= MaxOffset /\ settled_offset' = o
        /\ reply' = [reply EXCEPT ![t] = Reply("ok", <<>>, o)]
    BY <1>3 DEF Seek, Return, o
  <2>4. o \in 0..MaxOffset
    BY <1>3, <2>2, <2>3, ImageConstants DEF ImageConstants
  <2>5. Media!SeekMedia(t, o)
    BY <1>1, <1>2, <2>1, <2>3, SameWords
       DEF Media!SeekMedia, Media!Answer, OpenImage, OpenKey
  <2> QED
    BY <2>4, <2>5 DEF Media!Next
<1>4. CASE ~(Readable /\ o >= 0)
  BY <1>1, <1>2, <1>4, Answers DEF Seek, Return, o
<1> QED
  BY <1>3, <1>4

LEMMA GettersMap ==
  ASSUME IInv, OwnedInv, NEW t \in Threads,
         \/ GetOffset(t) \/ GetMediaSize(t) \/ GetBackingFilename(t) \/ IsLocked(t)
  PROVE  Media!Next
<1>0. file_header = NoImage => ~GetMediaSize(t)
  BY GetMediaSizeOwned DEF OwnedInv
<1>1. /\ pc[t] # "reading" /\ LockFree
      /\ UNCHANGED <<file_io_handle, file_header, context_key, key_data,
                     parent_file, settled_offset>>
  BY <1>0 DEF GetOffset, GetMediaSize, GetBackingFilename, IsLocked, Get,
     fileFields, settings
<1>2. OpenImage' = OpenImage /\ OpenKey' = OpenKey
  BY <1>1, SameMedia
<1>3. ASSUME NEW v, reply' = [reply EXCEPT ![t] = Reply("ok", <<>>, v)]
      PROVE  Media!Tell(t, v)
  BY <1>1, <1>2, <1>3, SameWords DEF Media!Tell, Media!Answer, OpenImage, OpenKey
<1>4. IF HasHandle THEN WhollyOpen ELSE WhollyClosed
  BY <1>1, WholeFile
<1>5. CASE GetOffset(t)
  <2>1. settled_offset = current_offset
    BY <1>1, NobodyInside DEF OwnedInv, OffsetsInv, Locked
  <2>2. Media!TellOffset(t)
    BY <1>3, <1>5, <2>1 DEF GetOffset, Get, Return, Media!TellOffset
  <2> QED
    BY <2>2 DEF Media!Next
<1>6. CASE GetMediaSize(t)
  <2>1. file_header # NoImage /\ HasHandle
    BY <1>0, <1>4, <1>6 DEF WhollyClosed
  <2>2. Media!Tell(t, MediaSize[file_header])
    BY <1>3, <1>6, <2>1 DEF GetMediaSize, Get, Return
  <2>3. Media!TellMediaSize(t)
    BY <2>1, <2>2 DEF Media!TellMediaSize
  <2> QED
    BY <2>3 DEF Media!Next
<1>7. CASE GetBackingFilename(t)
  <2>1. backing_filename <=> OpenImage # NoImage /\ Backing[OpenImage]
    BY <1>4 DEF WhollyOpen, WhollyClosed, OpenImage
  <2>2. Media!Tell(t, IF backing_filename THEN 1 ELSE 0)
    BY <1>3, <1>7 DEF GetBackingFilename, Get, Return
  <2>3. Media!TellBacking(t)
    BY <2>1, <2>2 DEF Media!TellBacking, OpenImage
  <2> QED
    BY <2>3 DEF Media!Next
<1>8. CASE IsLocked(t)
  <2>1. is_locked <=> OpenImage = NoImage
    BY <1>4 DEF WhollyOpen, WhollyClosed, OpenImage
  <2>2. Media!Tell(t, IF is_locked THEN 1 ELSE 0)
    BY <1>3, <1>8 DEF IsLocked, Get, Return
  <2>3. Media!TellLocked(t)
    BY <2>1, <2>2 DEF Media!TellLocked, OpenImage
  <2> QED
    BY <2>3 DEF Media!Next
<1> QED
  BY <1>5, <1>6, <1>7, <1>8

(* What a read that ends replies with is what the media holds there.        *)
LEMMA ReadMaps ==
  ASSUME IInv, OwnedInv, NEW t \in Threads, Readable,
         LockFree \/ pc[t] = "reading",
         NEW o \in {settled_offset} \cup 0..MaxOffset, NEW n \in 0..MaxCount,
         NEW len \in Nat, NEW cells \in Seq(Cell),
         len = IF o < MediaSize[file_header]
               THEN IF n < MediaSize[file_header] - o THEN n
                    ELSE MediaSize[file_header] - o
               ELSE 0,
         \A j \in 0..(len - 1) : Block[file_header][o + j] # "bad",
         Len(cells) = len,
         \A j \in 1..len : cells[j] =
           Content(file_header, context_key, parent_file, o + j - 1),
         settled_offset' = o + len,
         reply' = [reply EXCEPT ![t] = Reply("ok", cells, 0)],
         UNCHANGED <<file_io_handle, file_header, context_key, key_data, parent_file>>
  PROVE  Media!Next
<1>1. /\ Media!Complete /\ OpenImage = file_header /\ OpenKey = context_key
      /\ HasHandle /\ file_header \in Images
  BY ReadableComplete
<1>2. OpenImage' = OpenImage /\ OpenKey' = OpenKey
  BY SameMedia
<1>3. cells = [j \in 1..len |->
                 Content(file_header, context_key, parent_file, o + j - 1)]
  <2>1. cells = [j \in 1..Len(cells) |-> cells[j]]
    OBVIOUS
  <2> QED
    BY <2>1
<1>4. cells = Media!Extent(o, len)
  BY <1>1, <1>3, SameWords DEF Media!Extent
<1>5. \A a, b : Media!Least(a, b) = IF a < b THEN a ELSE b
  BY DEF Media!Least
<1>6. len = IF o < MediaSize[file_header]
            THEN Media!Least(n, MediaSize[file_header] - o) ELSE 0
  BY <1>5
<1>7. Media!ReadMedia(t, o, n)
  BY <1>1, <1>2, <1>4, <1>6, SameWords
     DEF Media!ReadMedia, Media!Answer, OpenImage, OpenKey
<1>8. CASE o = settled_offset
  BY <1>7, <1>8 DEF Media!Next
<1>9. CASE o \in 0..MaxOffset
  BY <1>7, <1>9 DEF Media!Next
<1> QED
  BY <1>8, <1>9

LEMMA StartReadMaps ==
  ASSUME IInv, OwnedInv, NEW t \in Threads, LockFree, Readable,
         NEW o \in {settled_offset} \cup 0..MaxOffset, NEW n \in 0..MaxCount,
         StartRead(t, o, n)
  PROVE  [Media!Next]_(Media!vars)
<1>1. UNCHANGED <<file_io_handle, file_header, context_key, key_data, parent_file>>
  BY DEF StartRead, unchangedByRead, settings
<1>2. OpenImage' = OpenImage /\ OpenKey' = OpenKey
  BY <1>1, SameMedia
<1>3. CASE o >= MediaSize[file_header] \/ n = 0
  <2>1. settled_offset' = o /\ reply' = [reply EXCEPT ![t] = Reply("ok", <<>>, 0)]
    BY <1>3 DEF StartRead, Return, Ok
  <2>2. o \in Nat /\ MediaSize[file_header] \in Nat /\ n \in Nat
    BY ReadableComplete, ImageConstants DEF ImageConstants, IInv, TypeOK
  <2>3. 0 = IF o < MediaSize[file_header]
            THEN IF n < MediaSize[file_header] - o THEN n
                 ELSE MediaSize[file_header] - o
            ELSE 0
    BY <1>3, <2>2
  <2>4. <<>> \in Seq(Cell) /\ Len(<<>>) = 0 /\ o + 0 = o /\ 1..0 = {} /\ 0..(0 - 1) = {}
    BY <2>2
  <2>5. Media!Next
    BY <1>1, <2>1, <2>3, <2>4, ReadMaps
  <2> QED
    BY <2>5
<1>4. CASE ~(o >= MediaSize[file_header] \/ n = 0)
  <2>1. UNCHANGED <<reply, settled_offset>>
    BY <1>4 DEF StartRead
  <2> QED
    BY <1>1, <1>2, <2>1, Stutters
<1> QED
  BY <1>3, <1>4

LEMMA ReadingFacts ==
  ASSUME IInv, OwnedInv, NEW t \in Threads, pc[t] = "reading"
  PROVE  /\ Readable /\ file_header \in Images /\ HasHandle
         /\ OpenImage = file_header /\ OpenKey = context_key /\ Media!Complete
         /\ buffer[t] \in Seq(Cell) /\ Len(buffer[t]) \in Nat
         /\ rest[t] \in Nat /\ rest[t] > 0
         /\ current_offset \in Nat /\ MediaSize[file_header] \in Nat
         /\ current_offset < MediaSize[file_header]
         /\ ReadOffset(t) \in {settled_offset} \cup 0..MaxOffset
         /\ ReadOffset(t) \in Nat
         /\ ReadCount(t) \in 0..MaxCount
         /\ current_offset = ReadOffset(t) + Len(buffer[t])
         /\ \A j \in 0..(Len(buffer[t]) - 1) :
              Block[file_header][ReadOffset(t) + j] # "bad"
         /\ \A j \in 1..Len(buffer[t]) : buffer[t][j] =
              Content(file_header, context_key, parent_file, ReadOffset(t) + j - 1)
<1>1. /\ Readable
      /\ ReadOffset(t) \in {settled_offset} \cup 0..MaxOffset
      /\ ReadCount(t) \in 0..MaxCount
      /\ \A j \in 0..(Len(buffer[t]) - 1) :
           Block[file_header][ReadOffset(t) + j] # "bad"
  BY DEF OwnedInv, OffsetsInv
<1>2. /\ HasHandle /\ OpenImage = file_header /\ OpenKey = context_key
      /\ Media!Complete /\ file_header \in Images
  BY <1>1, ReadableComplete
<1>3. /\ buffer[t] \in Seq(Cell) /\ rest[t] \in Nat /\ current_offset \in Nat
      /\ settled_offset \in Nat /\ MediaSize[file_header] \in Nat
  BY <1>2, ImageConstants DEF ImageConstants, IInv, TypeOK
<1>4. Len(buffer[t]) \in Nat
  BY <1>3
<1>5. /\ rest[t] > 0 /\ current_offset < MediaSize[file_header]
      /\ Len(buffer[t]) <= current_offset
      /\ \A j \in 1..Len(buffer[t]) : buffer[t][j] =
           Content(file_header, context_key, parent_file,
                   current_offset - Len(buffer[t]) + j - 1)
  BY DEF IInv, ReadIsOneExtent, OneExtent
<1>6. ReadOffset(t) \in Nat /\ current_offset = ReadOffset(t) + Len(buffer[t])
  BY <1>3, <1>4, <1>5 DEF ReadOffset
<1>7. \A j \in 1..Len(buffer[t]) : buffer[t][j] =
        Content(file_header, context_key, parent_file, ReadOffset(t) + j - 1)
  BY <1>5 DEF ReadOffset
<1> QED
  BY <1>1, <1>2, <1>3, <1>4, <1>5, <1>6, <1>7

LEMMA DeliverMaps ==
  ASSUME IInv, OwnedInv, NEW t \in Threads, pc[t] = "reading",
         NEW cell \in Cell,
         cell = Content(file_header, context_key, parent_file, current_offset),
         Block[file_header][current_offset] # "bad", Deliver(t, cell)
  PROVE  [Media!Next]_(Media!vars)
<1> DEFINE got == Len(buffer[t])
           o == ReadOffset(t)
           n == ReadCount(t)
           cells == Append(buffer[t], cell)
<1>1. UNCHANGED <<file_io_handle, file_header, context_key, key_data, parent_file>>
  BY DEF Deliver, unchangedByRead, settings
<1>2. OpenImage' = OpenImage /\ OpenKey' = OpenKey
  BY <1>1, SameMedia
<1>3. CASE rest[t] = 1 \/ current_offset + 1 >= MediaSize[file_header]
  <2>1. settled_offset' = current_offset + 1
        /\ reply' = [reply EXCEPT ![t] = Reply("ok", cells, 0)]
    BY <1>3 DEF Deliver, Return
  <2>2. /\ got \in Nat /\ rest[t] \in Nat /\ rest[t] > 0 /\ o \in Nat
        /\ MediaSize[file_header] \in Nat
        /\ current_offset = o + got /\ current_offset < MediaSize[file_header]
        /\ n = got + rest[t]
        /\ n \in 0..MaxCount /\ o \in {settled_offset} \cup 0..MaxOffset
    BY ReadingFacts DEF ReadCount
  <2>3. cells \in Seq(Cell) /\ Len(cells) = got + 1 /\ cells[got + 1] = cell
        /\ \A j \in 1..got : cells[j] = buffer[t][j]
    BY ReadingFacts
  <2>4. \A j \in 0..(got + 1 - 1) : Block[file_header][o + j] # "bad"
    <3> SUFFICES ASSUME NEW j \in 0..got PROVE Block[file_header][o + j] # "bad"
      BY <2>2
    <3>1. CASE j = got
      BY <2>2, <3>1
    <3>2. CASE j # got
      <4>1. j \in 0..(got - 1)
        BY <2>2, <3>2
      <4> QED
        BY <4>1, ReadingFacts
    <3> QED
      BY <3>1, <3>2
  <2>5. \A j \in 1..(got + 1) : cells[j] =
          Content(file_header, context_key, parent_file, o + j - 1)
    <3> SUFFICES ASSUME NEW j \in 1..(got + 1)
                 PROVE  cells[j] = Content(file_header, context_key, parent_file, o + j - 1)
      OBVIOUS
    <3>1. CASE j = got + 1
      <4>1. o + j - 1 = current_offset
        BY <2>2, <3>1
      <4> QED
        BY <2>3, <3>1, <4>1
    <3>2. CASE j # got + 1
      <4>1. j \in 1..got
        BY <2>2, <3>2
      <4> QED
        BY <2>3, <4>1, ReadingFacts
    <3> QED
      BY <3>1, <3>2
  <2>6. Readable
    BY ReadingFacts
  <2> HIDE DEF got, o, n, cells
  <2>7. got + 1 = IF o < MediaSize[file_header]
                  THEN IF n < MediaSize[file_header] - o THEN n
                       ELSE MediaSize[file_header] - o
                  ELSE 0
    BY <1>3, <2>2
  <2>8. PICK len : len = got + 1
    OBVIOUS
  <2>9. len \in Nat /\ settled_offset' = o + len /\ Len(cells) = len
    BY <2>1, <2>2, <2>3, <2>8
  <2>10. \A j \in 0..(len - 1) : Block[file_header][o + j] # "bad"
    BY <2>2, <2>4, <2>8
  <2>11. \A j \in 1..len : cells[j] =
           Content(file_header, context_key, parent_file, o + j - 1)
    BY <2>5, <2>8
  <2>12. len = IF o < MediaSize[file_header]
               THEN IF n < MediaSize[file_header] - o THEN n
                    ELSE MediaSize[file_header] - o
               ELSE 0
    BY <2>7, <2>8
  <2>13. /\ n \in 0..MaxCount /\ o \in {settled_offset} \cup 0..MaxOffset
         /\ cells \in Seq(Cell)
         /\ LockFree \/ pc[t] = "reading"
         /\ reply' = [reply EXCEPT ![t] = Reply("ok", cells, 0)]
    BY <2>1, <2>2, <2>3
  <2>14. Media!Next
    BY <1>1, <2>6, <2>9, <2>10, <2>11, <2>12, <2>13, ReadMaps
  <2> QED
    BY <2>14
<1>4. CASE ~(rest[t] = 1 \/ current_offset + 1 >= MediaSize[file_header])
  <2>1. UNCHANGED <<reply, settled_offset>>
    BY <1>4 DEF Deliver
  <2> QED
    BY <1>1, <1>2, <2>1, Stutters
<1> QED
  BY <1>3, <1>4

LEMMA ReadFailsMaps ==
  ASSUME IInv, OwnedInv, NEW t \in Threads, pc[t] = "reading", ReadError(t),
         \/ Block[file_header][current_offset] = "bad"
         \/ Block[file_header][current_offset] = "hole" /\ parent_file # NoParent
  PROVE  Media!Next
<1> DEFINE got == Len(buffer[t])
           o == ReadOffset(t)
           n == ReadCount(t)
<1>1. UNCHANGED <<file_io_handle, file_header, context_key, key_data, parent_file>>
      /\ settled_offset' = current_offset /\ reply' = [reply EXCEPT ![t] = Error]
  BY DEF ReadError, Return, unchangedByRead, settings
<1>2. OpenImage' = OpenImage /\ OpenKey' = OpenKey
  BY <1>1, SameMedia
<1>3. /\ got \in Nat /\ current_offset = o + got
      /\ o + got < MediaSize[file_header] /\ got \in 0..(n - 1)
      /\ n \in 0..MaxCount /\ o \in {settled_offset} \cup 0..MaxOffset
      /\ OpenImage = file_header /\ Media!Complete
      /\ \A l \in 0..(got - 1) : Block[file_header][o + l] # "bad"
  <2>1. got \in Nat /\ rest[t] \in Nat /\ rest[t] > 0 /\ n = got + rest[t]
    BY ReadingFacts DEF ReadCount
  <2>2. got \in 0..(n - 1)
    BY <2>1
  <2> QED
    BY <2>1, <2>2, ReadingFacts
<1> HIDE DEF got, o, n
<1>4. \E j \in 0..(n - 1) :
        /\ o + j < MediaSize[OpenImage]
        /\ \/ Block[OpenImage][o + j] = "bad"
           \/ Block[OpenImage][o + j] = "hole" /\ parent_file # NoParent
        /\ \A l \in 0..(j - 1) : Block[OpenImage][o + l] # "bad"
        /\ settled_offset' = o + j
  BY <1>1, <1>3
<1>5. Media!ReadFails(t, o, n)
  BY <1>1, <1>2, <1>3, <1>4, SameWords
     DEF Media!ReadFails, Media!Answer, OpenImage, OpenKey
<1>6. CASE o = settled_offset
  BY <1>3, <1>5, <1>6 DEF Media!Next
<1>7. CASE o \in 0..MaxOffset
  BY <1>3, <1>5, <1>7 DEF Media!Next
<1> QED
  BY <1>3, <1>6, <1>7

LEMMA RefusedReadMaps ==
  ASSUME IInv, OwnedInv, NEW t \in Threads, LockFree, ReadError(t)
  PROVE  Media!Next
<1>1. UNCHANGED <<file_io_handle, file_header, context_key, key_data, parent_file>>
      /\ settled_offset' = current_offset /\ reply' = [reply EXCEPT ![t] = Error]
  BY DEF ReadError, Return, unchangedByRead, settings
<1>2. settled_offset = current_offset
  BY NobodyInside DEF OwnedInv, OffsetsInv, Locked
<1> QED
  BY <1>1, <1>2, SameMedia, Answers

LEMMA ReadsMap ==
  ASSUME IInv, OwnedInv, NEW t \in Threads,
         \/ \E n \in 0..MaxCount : ReadBuffer(t, n)
         \/ \E o \in 0..MaxOffset, n \in 0..MaxCount : ReadBufferAtOffset(t, o, n)
         \/ ReadClusterBlock(t)
  PROVE  [Media!Next]_(Media!vars)
<1>1. ASSUME NEW n \in 0..MaxCount, ReadBuffer(t, n)
      PROVE  [Media!Next]_(Media!vars)
  <2>1. LockFree
    BY <1>1 DEF ReadBuffer
  <2>2. current_offset = settled_offset
    BY <2>1, NobodyInside DEF OwnedInv, OffsetsInv, Locked
  <2> QED
    BY <1>1, <2>1, <2>2, StartReadMaps, RefusedReadMaps DEF ReadBuffer
<1>2. ASSUME NEW o \in 0..MaxOffset, NEW n \in 0..MaxCount,
             ReadBufferAtOffset(t, o, n)
      PROVE  [Media!Next]_(Media!vars)
  BY <1>2, StartReadMaps, RefusedReadMaps DEF ReadBufferAtOffset
<1>3. CASE ReadClusterBlock(t)
  <2> DEFINE cell == Content(file_header, context_key, parent_file, current_offset)
  <2>1. pc[t] = "reading"
    BY <1>3 DEF ReadClusterBlock
  <2>2. file_header \in Images /\ current_offset \in Nat
        /\ context_key \in Keys \cup {NoKey} /\ parent_file \in Parents \cup {NoParent}
    BY <2>1, ReadingFacts DEF IInv, TypeOK
  <2>3. cell \in Cell
    BY <2>2, CellType DEF Content
  <2>4. CASE Deliver(t, cell) /\ Block[file_header][current_offset] # "bad"
    <3> HIDE DEF cell
    <3>1. cell = Content(file_header, context_key, parent_file, current_offset)
      BY DEF cell
    <3> QED
      BY <2>1, <2>3, <2>4, <3>1, DeliverMaps
  <2>5. CASE /\ ReadError(t)
             /\ \/ Block[file_header][current_offset] = "bad"
                \/ Block[file_header][current_offset] = "hole" /\ parent_file # NoParent
    BY <2>1, <2>5, ReadFailsMaps
  <2> QED
    BY <1>3, <2>4, <2>5 DEF ReadClusterBlock, Content
<1> QED
  BY <1>1, <1>2, <1>3

LEMMA NextMaps ==
  ASSUME IInv, OwnedInv, [Next]_vars
  PROVE  [Media!Next]_(Media!vars)
<1>1. ASSUME NEW t \in Threads, Start(t)
      PROVE  Media!Next
  BY <1>1, StartMaps
<1>2. ASSUME NEW t \in Threads, CallStep(t)
      PROVE  [Media!Next]_(Media!vars)
  <2>1. CASE OpenSteps(t)
    BY <2>1, OpenStepsMap
  <2>2. CASE \/ \E n \in 0..MaxCount : ReadBuffer(t, n)
             \/ \E o \in 0..MaxOffset, n \in 0..MaxCount : ReadBufferAtOffset(t, o, n)
             \/ ReadClusterBlock(t)
    BY <2>2, ReadsMap
  <2>3. CASE \/ Close(t)
             \/ \E p \in Parents : SetParentFile(t, p)
             \/ \E k \in Keys : SetKeys(t, k) \/ SetPassword(t, k)
             \/ \E w \in {"set", "cur", "end"}, d \in (-MaxOffset)..MaxOffset :
                  Seek(t, w, d)
             \/ GetOffset(t) \/ GetMediaSize(t) \/ GetBackingFilename(t) \/ IsLocked(t)
    <3>1. Media!Next
      BY <2>3, CloseMaps, SettingsMap, SeekMaps, GettersMap
    <3> QED
      BY <3>1
  <2> QED
    BY <1>2, <2>1, <2>2, <2>3 DEF CallStep
<1>3. ASSUME UNCHANGED <<fileFields, settings, reply, settled_offset>>
      PROVE  UNCHANGED Media!vars
  BY <1>3, SameMedia, Stutters DEF fileFields, settings
<1>4. ASSUME NEW h \in Handles, CallerFrees(h) \/ \E i \in Images : CallerAllocates(h, i)
      PROVE  UNCHANGED Media!vars
  BY <1>3, <1>4 DEF CallerFrees, CallerAllocates
<1>5. CASE UNCHANGED vars
  BY <1>3, <1>5 DEF vars
<1> QED
  BY <1>1, <1>2, <1>4, <1>5 DEF Next

LEMMA InitMaps == Init => Media!Init
BY SameWords DEF Init, Media!Init, HasHandle

(* Every call of a file with one owner takes effect in one step of           *)
(* MediaHandle, and a read of several rounds, whatever the other threads do  *)
(* in between, in the step that ends it.                                     *)
THEOREM FileImplementsMedia ==
  ASSUME OneOwnerOnly
  PROVE  Spec => ImplementsMediaHandle
<1>1. IInv /\ OwnedInv /\ [Next]_vars => [Media!Next]_(Media!vars)
  BY NextMaps
<1> QED
  BY <1>1, InitMaps, Invariance, OwnedInvariance, PTL
     DEF Spec, ImplementsMediaHandle, Media!Spec
=============================================================================
