----------------------------- MODULE FileObject -----------------------------
(***************************************************************************)
(* One file object of the default file adaptor, shared by threads (the     *)
(* workers of its asynchronous operations and the callers of synchronous   *)
(* ones): src/adaptors/default/file/default_file.cpp and                   *)
(* default_namespace_entry_impl.hpp.                                       *)
(*                                                                         *)
(* Two locks guard it: mtx_ of the adaptor's instance and, inside every    *)
(* instance_data object, the mutex of the data shared by all adaptors of   *)
(* the object (location_, mode_, pointer_).  The std::fstream has a        *)
(* position and error bits of its own, kept in step with pointer_ by       *)
(* seeking before every transfer.  Each step below is what a thread does   *)
(* between two points at which another one can get in.                     *)
(*                                                                         *)
(* A file is an inode with a size; what is in it matters only as positions *)
(* that are read and written.  The file system holds files of the given    *)
(* Names in the current directory and in one subdirectory.                 *)
(***************************************************************************)
EXTENDS Integers, FiniteSets

CONSTANTS Threads, Names, Inodes,
          Calls,      \* the operations that are called
          Modes,      \* how the file may have been opened
          MaxSize,    \* bound: no file grows beyond it
          Sub,        \* the subdirectory, as a destination
          None

ASSUME FileAssumption ==
  /\ MaxSize \in Nat \ {0}
  /\ Inodes \subseteq Nat
  /\ Modes \subseteq {"Write", "ReadWrite", "Truncate"}
  /\ Sub \notin Names /\ None \notin Inodes \cup Threads

Dests == Names \cup {Sub}
Paths == {"top", "sub"} \X Names
Places == {"idle", "get_size", "size_tell", "size_back", "read", "read_tell",
           "read_done", "failed", "write", "write_data", "write_done", "seek",
           "seek_store", "is_dir", "copy", "copy_file", "copying", "move",
           "move_file", "renaming", "reopen", "reopening", "remove",
           "remove_file", "close"}
Bits  == {"good", "eof", "fail"}    \* eof: eofbit and failbit, fail: failbit only

VARIABLES
  entry,    \* the inode each path names, or None
  size,     \* the size of each inode
  loc,      \* location_
  mode,     \* mode_: only Write, ReadWrite, or Truncate | ReadWrite
  pointer,  \* pointer_
  isOpen,   \* is_open_
  file,     \* the inode file_ has open, or None
  pos,      \* the position of file_
  bits,     \* the error bits of file_
  mtx,      \* the thread that holds mtx_, or None
  inst,     \* the thread that holds the mutex of the instance data, or None
  pc,       \* what each thread does
  op,       \* the arguments and the intermediate results of its call
  spans,    \* ghost: positions transferred since the last seek
  twice,    \* ghost: one of them was transferred again
  asked     \* ghost: some call was allowed to destroy an entry

disk   == <<entry, size>>
data   == <<loc, mode, pointer>>
stream == <<file, pos, bits>>
locks  == <<mtx, inst>>
ghosts == <<spans, twice, asked>>
vars   == <<disk, data, isOpen, stream, locks, pc, op, ghosts>>

NoOp == [src |-> None, dst |-> None, n |-> 0]

Linked(i) == \E p \in Paths : entry[p] = i
Used(i)   == Linked(i) \/ file = i \/ \E t \in Threads : op[t].src = i
Unused    == {i \in Inodes : ~Used(i)}
Target(dst, name) == IF dst = Sub THEN <<"sub", name>> ELSE <<"top", dst>>
Here      == <<"top", loc>>
\* Bound: when a move has left the subdirectory as the location, what is done
\* to that directory is not followed.
AtFile    == loc # Sub

-----------------------------------------------------------------------------
(* std::fstream, as the code uses it: a seek clears eofbit but moves only   *)
(* when failbit is not set; a position that cannot be told is -1.           *)

End == IF file = None THEN -1 ELSE size[file]
Tell == IF bits = "good" /\ file # None THEN pos ELSE -1

SeekFrom(b, to) ==
  IF b = "good" /\ file # None /\ to >= 0
    THEN [pos |-> to, bits |-> "good"] ELSE [pos |-> pos, bits |-> "fail"]

Positioned(s) == pos' = s.pos /\ bits' = s.bits

\* What read() of n bytes finds, and how it leaves the stream.
Got(n, from) == IF mode = "Write" \/ from >= size[file] THEN 0
                ELSE IF from + n <= size[file] THEN n ELSE size[file] - from
AfterRead(n, s) ==
  IF s.bits = "fail" THEN s
  ELSE [pos  |-> s.pos + Got(n, s.pos),
        bits |-> IF Got(n, s.pos) = n THEN "good" ELSE "eof"]

-----------------------------------------------------------------------------
(* Locks and program counters.                                              *)

Goto(t, from, to) == pc[t] = from /\ pc' = [pc EXCEPT ![t] = to]
Return(t, from)   == Goto(t, from, "idle") /\ op' = [op EXCEPT ![t] = NoOp]

\* Mutant: two threads inside at once.
LockMtxAnyway(t) == mtx' = t
LockMtx(t)   == mtx = None /\ mtx' = t
UnlockMtx(t) == mtx = t /\ mtx' = None
LockInst(t)  == inst = None /\ inst' = t
UnlockInst(t) == inst = t /\ inst' = None
\* A scope that takes a lock and gives it back with nothing in between.
UseMtx       == mtx = None /\ UNCHANGED mtx
UseInst      == inst = None /\ UNCHANGED inst

\* Calls begin with the instance data: check_if_open throws on a closed object.
Begin(t, name) ==
  /\ name \in Calls /\ isOpen
  /\ Goto(t, "idle", name) /\ UseInst
  /\ UNCHANGED <<disk, data, isOpen, stream, mtx, ghosts>>

Transferred(S) ==
  /\ spans' = spans \cup S
  /\ twice' = (twice \/ S \cap spans # {})
  /\ UNCHANGED asked

-----------------------------------------------------------------------------
(* get_size.  The position is restored without mtx_.                        *)

GetSize(t) ==
  /\ file # None                            \* or else AdaptorDeclined
  /\ Begin(t, "get_size") /\ UNCHANGED op

GetSizeSeek(t) ==
  /\ Goto(t, "get_size", "size_tell") /\ LockMtx(t)
  /\ Positioned(SeekFrom(IF bits = "eof" THEN "good" ELSE bits, End))
  /\ UNCHANGED <<disk, data, isOpen, file, inst, op, ghosts>>

GetSizeTell(t) ==
  /\ Goto(t, "size_tell", "size_back") /\ UnlockMtx(t)
  /\ op' = [op EXCEPT ![t].n = Tell]
  /\ UNCHANGED <<disk, data, isOpen, stream, inst, ghosts>>

GetSizeBack(t) ==
  /\ Return(t, "size_back") /\ UseInst
  /\ Positioned(SeekFrom(bits, pointer))
  /\ UNCHANGED <<disk, data, isOpen, file, mtx, ghosts>>

-----------------------------------------------------------------------------
(* read: the rest of the file is measured first, then the buffer is filled. *)

Read(t) == Begin(t, "read") /\ UNCHANGED op

ReadEnd(t) ==
  /\ Goto(t, "read", "read_tell") /\ LockMtx(t)
  /\ Positioned(SeekFrom(bits, End))
  /\ UNCHANGED <<disk, data, isOpen, file, inst, op, ghosts>>

\* With a buffer of n bytes, that may be larger than any file.
ReadData(t) == \E n \in 1..(MaxSize + 1) :
  LET s    == SeekFrom(bits, pointer)
      rest == Tell - s.pos
      r    == AfterRead(n, s)
      len  == IF r.bits = "eof" THEN r.pos - s.pos ELSE IF rest < n THEN rest ELSE n
  IN  /\ Goto(t, "read_tell", IF r.bits = "fail" THEN "failed" ELSE "read_done")
      /\ UseInst
      /\ Positioned(r)
      /\ IF r.bits = "fail"
           THEN UNCHANGED <<op, ghosts>>
           ELSE op' = [op EXCEPT ![t].n = len] /\ Transferred(s.pos .. (s.pos + len - 1))
      /\ UNCHANGED <<disk, data, isOpen, file, mtx>>

\* Mutant: the pointer advances by the size of the buffer.
ReadDoneWhole(t) ==
  /\ Return(t, "read_done") /\ UseInst /\ UnlockMtx(t)
  /\ pointer' = pointer + MaxSize + 1
  /\ UNCHANGED <<disk, loc, mode, isOpen, stream, ghosts>>

\* The count reported is what the pointer advances by.
ReadDone(t) ==
  /\ Return(t, "read_done") /\ UseInst /\ UnlockMtx(t)
  /\ pointer' = pointer + op[t].n
  /\ UNCHANGED <<disk, loc, mode, isOpen, stream, ghosts>>

\* The message of the error names the location.
ThrowNoSuccess(t) ==
  /\ Return(t, "failed") /\ UseInst /\ UnlockMtx(t)
  /\ UNCHANGED <<disk, data, isOpen, stream, ghosts>>

-----------------------------------------------------------------------------
(* write, of one byte.  A seekp leaves eofbit alone.  The error bits are    *)
(* tested after write() and not after the flush().                          *)

Write(t) == Begin(t, "write") /\ UNCHANGED op

\* Mutant: write does not wait for the operations under way.
WriteLockFree(t) ==
  /\ Goto(t, "write", "write_data")
  /\ UNCHANGED <<disk, data, isOpen, stream, locks, op, ghosts>>

WriteLock(t) ==
  /\ Goto(t, "write", "write_data") /\ LockMtx(t)
  /\ UNCHANGED <<disk, data, isOpen, stream, inst, op, ghosts>>

\* The disk is full when the file has MaxSize bytes: write() notices when the
\* data do not fit into the stream's buffer, and else only flush() does.
\* Bound: the latter is followed at the very end of the disk only.
WriteData(t) ==
  LET s == SeekFrom(bits, pointer)
  IN  /\ UseInst
      /\ \/ /\ s.bits = "good" /\ s.pos < MaxSize
            /\ Goto(t, "write_data", "write_done")
            /\ size' = [size EXCEPT ![file] = IF @ > s.pos THEN @ ELSE s.pos + 1]
            /\ Positioned([s EXCEPT !.pos = @ + 1])
            /\ Transferred({s.pos})
         \/ /\ s.bits = "good" /\ s.pos >= MaxSize
            /\ \E buffered \in {FALSE, s.pos = MaxSize} :
                 Goto(t, "write_data", IF buffered THEN "write_done" ELSE "failed")
            /\ Positioned([s EXCEPT !.bits = "fail"])
            /\ UNCHANGED <<size, ghosts>>
         \/ /\ s.bits = "fail"
            /\ Goto(t, "write_data", "failed")
            /\ bits' = IF bits = "eof" THEN "eof" ELSE "fail"
            /\ UNCHANGED <<size, pos, ghosts>>
      /\ UNCHANGED <<entry, data, isOpen, file, mtx, op>>

WriteDone(t) ==
  /\ Return(t, "write_done") /\ UseInst /\ UnlockMtx(t)
  /\ pointer' = pointer + 1
  /\ UNCHANGED <<disk, loc, mode, isOpen, stream, ghosts>>

-----------------------------------------------------------------------------
(* seek.                                                                    *)

SeekCall(t) == Begin(t, "seek") /\ UNCHANGED op

\* Offset 0 from the start or the end, or 1 from the stream's own position.
SeekMove(t) ==
  /\ Goto(t, "seek", "seek_store") /\ LockMtx(t)
  /\ \E to \in {0, End, IF pos < MaxSize THEN pos + 1 ELSE pos} :
       Positioned(SeekFrom(bits, to))
  /\ UNCHANGED <<disk, data, isOpen, file, inst, op, ghosts>>

SeekStore(t) ==
  /\ Return(t, "seek_store") /\ UseInst /\ UnlockMtx(t)
  /\ pointer' = Tell
  /\ spans' = {}
  /\ UNCHANGED <<disk, loc, mode, isOpen, stream, twice, asked>>

-----------------------------------------------------------------------------
(* is_dir, is_entry and is_link: mtx_ is taken inside the instance data.    *)

IsDir(t) ==
  /\ "is_dir" \in Calls /\ isOpen
  /\ Goto(t, "idle", "is_dir") /\ LockInst(t)
  /\ UNCHANGED <<disk, data, isOpen, stream, mtx, op, ghosts>>

IsDirAnswer(t) ==
  /\ Goto(t, "is_dir", "idle") /\ UseMtx
  /\ UnlockInst(t)
  /\ UNCHANGED <<disk, data, isOpen, stream, op, ghosts>>

-----------------------------------------------------------------------------
(* copy.                                                                    *)

\* The location is read here, once.
Copy(t) == AtFile /\ Begin(t, "copy") /\ op' = [op EXCEPT ![t].src = loc]

\* What is left of the entries when the target p is overwritten.
Without(p, over) == IF over THEN [entry EXCEPT ![p] = None] ELSE entry

\* An existing target is removed, or ends the call.
CopyClear(t) == \E dst \in Dests, over \in BOOLEAN :
  LET p == Target(dst, op[t].src)
  IN  /\ pc[t] = "copy"
      /\ entry' = Without(p, over)
      /\ asked' = (asked \/ over)
      /\ IF entry'[p] = None
           THEN /\ Goto(t, "copy", "copy_file") /\ LockMtx(t)
                /\ op' = [op EXCEPT ![t].dst = p]
           ELSE Return(t, "copy") /\ UseMtx
      /\ UNCHANGED <<size, data, isOpen, stream, inst, spans, twice>>

\* copy_file() creates the target; a missing source ends the call.
CopyCreate(t) ==
  LET from == entry[<<"top", op[t].src>>]
  IN  /\ pc[t] = "copy_file"
      /\ IF from = None
           THEN Return(t, "copy_file") /\ UnlockMtx(t) /\ UNCHANGED disk
           ELSE \E new \in Unused :
                  /\ Goto(t, "copy_file", "copying") /\ UNCHANGED mtx
                  /\ op' = [op EXCEPT ![t].src = from]
                  /\ entry' = [entry EXCEPT ![op[t].dst] = new]
                  /\ size' = [size EXCEPT ![new] = 0]
      /\ UNCHANGED <<data, isOpen, stream, inst, ghosts>>

CopyFill(t) ==
  LET to == entry[op[t].dst]
  IN  /\ pc[t] = "copying"
      /\ Return(t, "copying") /\ UnlockMtx(t)
      /\ size' = IF to = None THEN size ELSE [size EXCEPT ![to] = size[op[t].src]]
      /\ UNCHANGED <<entry, data, isOpen, stream, inst, ghosts>>

-----------------------------------------------------------------------------
(* move: the file is closed, renamed, and opened again under its new name,  *)
(* each under locks of its own.                                             *)

Move(t) == Begin(t, "move") /\ UNCHANGED op

Close(t, from, to) ==
  /\ Goto(t, from, to) /\ UseMtx
  /\ file' = None /\ pos' = 0 /\ bits' = bits
  /\ UNCHANGED <<disk, data, inst, op, ghosts>>

MoveClose(t) == Close(t, "move", "move_file") /\ UNCHANGED isOpen

\* The base class keeps the instance data while it waits for mtx_.
MoveHold(t) ==
  /\ IF isOpen THEN Goto(t, "move_file", "renaming") /\ LockInst(t)
     ELSE Goto(t, "move_file", "idle") /\ UseInst
  /\ UNCHANGED <<disk, data, isOpen, stream, mtx, op, ghosts>>

\* An existing target is removed, or ends the call; so does a missing source.
MoveRename(t) == \E dst \in Dests, over \in BOOLEAN :
  LET p    == Target(dst, loc)
      left == Without(p, over)
      done == left[p] = None /\ left[Here] # None
  IN  /\ AtFile
      /\ Goto(t, "renaming", IF done THEN "reopen" ELSE "idle")
      /\ UseMtx /\ UnlockInst(t)
      /\ entry' = IF done THEN [left EXCEPT ![p] = left[Here], ![Here] = None] ELSE left
      /\ op' = [op EXCEPT ![t].dst = IF done THEN dst ELSE None]
      /\ asked' = (asked \/ over)
      /\ UNCHANGED <<size, data, isOpen, stream, spans, twice>>

MoveLock(t) ==
  /\ Goto(t, "reopen", "reopening") /\ LockMtx(t)
  /\ UNCHANGED <<disk, data, isOpen, stream, inst, op, ghosts>>

\* Which inode open() finds or creates under a name; none for a directory.
Openable(dst) ==
  IF dst \notin Names THEN {}
  ELSE IF entry[<<"top", dst>>] # None THEN {entry[<<"top", dst>>]}
  ELSE IF mode = "ReadWrite" THEN {} ELSE Unused

MoveReopen(t) ==
  LET dst == op[t].dst
  IN  /\ pc[t] = "reopening"
      /\ Return(t, "reopening") /\ UseInst /\ UnlockMtx(t)
      /\ \/ /\ ~isOpen \/ (file = None /\ Openable(dst) = {})
            /\ bits' = IF isOpen /\ bits = "good" THEN "fail" ELSE bits
            /\ UNCHANGED <<disk, loc, file, pos>>
         \/ /\ isOpen /\ file # None          \* somebody else has opened it
            /\ bits' = "fail" /\ loc' = dst
            /\ UNCHANGED <<disk, file, pos>>
         \/ /\ isOpen /\ file = None
            /\ \E i \in Openable(dst) :
                 /\ file' = i /\ loc' = dst
                 /\ entry' = [entry EXCEPT ![<<"top", dst>>] = i]
                 /\ size' = IF mode = "ReadWrite" THEN size ELSE [size EXCEPT ![i] = 0]
                 /\ IF pointer >= 0 THEN pos' = pointer /\ bits' = "good"
                    ELSE pos' = 0 /\ bits' = "fail"
      /\ UNCHANGED <<mode, pointer, isOpen, ghosts>>

-----------------------------------------------------------------------------
(* remove and close.                                                        *)

Remove(t) == Begin(t, "remove") /\ UNCHANGED op

RemoveClose(t) == Close(t, "remove", "remove_file") /\ UNCHANGED isOpen

\* Nothing happens when there is no such file.  The flag Recursive is refused
\* when the file has been closed already.
RemoveFile(t) == \E recursive \in BOOLEAN :
  /\ AtFile
  /\ Goto(t, "remove_file", "idle") /\ UseInst
  /\ IF isOpen /\ ~recursive
       THEN entry' = [entry EXCEPT ![Here] = None] /\ asked' = TRUE
       ELSE UNCHANGED <<entry, asked>>
  /\ UNCHANGED <<size, data, isOpen, stream, mtx, op, spans, twice>>

CloseCall(t) ==
  /\ "close" \in Calls
  /\ Goto(t, "idle", "close") /\ UseInst
  /\ UNCHANGED <<disk, data, isOpen, stream, mtx, op, ghosts>>

CloseFile(t) == Close(t, "close", "idle") /\ isOpen' = FALSE

-----------------------------------------------------------------------------
\* The constructor has opened the file: there is nothing in it unless the
\* mode is ReadWrite, and Append starts at its end.
Init ==
  /\ mode \in Modes
  /\ loc \in Names
  /\ \E i \in Inodes : /\ file = i
                       /\ \A j \in Inodes : i <= j
                       /\ entry = [p \in Paths |-> IF p = Here THEN i ELSE None]
  /\ size \in [Inodes -> 0..MaxSize]
  /\ \A i \in Inodes : i # file \/ mode # "ReadWrite" => size[i] = 0
  /\ pointer \in {0, size[file]}
  /\ isOpen = TRUE /\ pos = pointer /\ bits = "good"
  /\ mtx = None /\ inst = None
  /\ pc = [t \in Threads |-> "idle"]
  /\ op = [t \in Threads |-> NoOp]
  /\ spans = {} /\ twice = FALSE /\ asked = FALSE

Step(t) ==
  \/ GetSize(t) \/ GetSizeSeek(t) \/ GetSizeTell(t) \/ GetSizeBack(t)
  \/ Read(t) \/ ReadEnd(t) \/ ReadData(t) \/ ReadDone(t) \/ ThrowNoSuccess(t)
  \/ Write(t) \/ WriteLock(t) \/ WriteData(t) \/ WriteDone(t)
  \/ SeekCall(t) \/ SeekMove(t) \/ SeekStore(t)
  \/ IsDir(t) \/ IsDirAnswer(t)
  \/ Copy(t) \/ CopyClear(t) \/ CopyCreate(t) \/ CopyFill(t)
  \/ Move(t) \/ MoveClose(t) \/ MoveHold(t) \/ MoveRename(t)
  \/ MoveLock(t) \/ MoveReopen(t)
  \/ Remove(t) \/ RemoveClose(t) \/ RemoveFile(t)
  \/ CloseCall(t) \/ CloseFile(t)

Next == \E t \in Threads : Step(t)

Spec == Init /\ [][Next]_vars

-----------------------------------------------------------------------------
(* Type correctness of all variables. *)
TypeOK ==
  /\ entry \in [Paths -> Inodes \cup {None}]
  /\ size \in [Inodes -> 0..MaxSize]
  /\ loc \in Dests /\ mode \in Modes /\ pointer \in -1..(MaxSize + 1)
  /\ isOpen \in BOOLEAN /\ twice \in BOOLEAN /\ asked \in BOOLEAN
  /\ file \in Inodes \cup {None} /\ pos \in Nat /\ bits \in Bits
  /\ mtx \in Threads \cup {None} /\ inst \in Threads \cup {None}
  /\ pc \in [Threads -> Places]
  /\ op \in [Threads -> [src : Names \cup Inodes \cup {None},
                         dst : Dests \cup Paths \cup {None}, n : -1..(MaxSize + 1)]]
  /\ spans \subseteq Nat

(* Between two seeks no byte of the file is delivered or written twice and  *)
(* none is skipped: concurrent reads and writes get adjacent ranges.        *)
RangesAdjacent == ~twice /\ \A a, b \in spans : a .. b \subseteq spans

(* As long as no call may destroy an entry (no Overwrite flag, no remove),  *)
(* every file that had a name keeps one: a copy or a move whose target has  *)
(* come into being since it was looked for does not replace it.             *)
NothingReplaced ==
  [][~asked' => \A i \in Inodes : Linked(i) => Linked(i)']_vars

(* What copy_file() copies does not change while it is copied: writers of   *)
(* the same object wait.                                                    *)
CopyIsSnapshot ==
  [][\A t \in Threads : pc[t] = "copying" => size'[op[t].src] = size[op[t].src]]_vars
=============================================================================
