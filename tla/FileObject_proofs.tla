-------------------------- MODULE FileObject_proofs --------------------------
(***************************************************************************)
(* Proofs about FileObject, for any threads, names, inodes and sizes.      *)
(***************************************************************************)
EXTENDS FileObject, TLAPS

\* Where a thread has mtx_, and where it has the mutex of the instance data.
Critical == {"size_tell", "read_tell", "read_done", "failed", "write_data",
             "write_done", "seek_store", "copy_file", "copying", "reopening"}
Inside   == {"is_dir", "renaming"}

LockTypes ==
  /\ mtx \in Threads \cup {None} /\ inst \in Threads \cup {None}
  /\ pc \in [Threads -> Places]

\* Each mutex belongs to the thread that is between its lock and its unlock.
LocksHeld ==
  \A t \in Threads : /\ mtx = t <=> pc[t] \in Critical
                     /\ inst = t <=> pc[t] \in Inside

LockInv == LockTypes /\ LocksHeld

DiskTypes ==
  /\ entry \in [Paths -> Inodes \cup {None}]
  /\ size \in [Inodes -> 0..MaxSize]
  /\ loc \in Dests /\ mode \in Modes /\ asked \in BOOLEAN /\ isOpen \in BOOLEAN
  /\ file \in Inodes \cup {None}
  /\ op \in [Threads -> [src : Names \cup Inodes \cup {None},
                         dst : Dests \cup Paths \cup {None}, n : -1..(MaxSize + 1)]]

\* What the calls of copy and move carry from one step to the next.  Nobody has
\* made the target of a copy since it was found free.
CallsCarry ==
  \A t \in Threads :
    /\ pc[t] \in {"copy", "copy_file"} => op[t].src \in Names
    /\ pc[t] \in {"copy_file", "copying"} => op[t].dst \in Paths
    /\ pc[t] = "copy_file" => entry[op[t].dst] = None
    /\ pc[t] = "copying" => op[t].src \in Inodes
    /\ pc[t] \in {"reopen", "reopening"} => op[t].dst \in Dests

DiskInv == DiskTypes /\ CallsCarry

\* How far pointer_ will advance at the end of the transfer under way.
Advance ==
  IF mtx = None THEN 0
  ELSE IF pc[mtx] = "write_done" THEN 1
  ELSE IF pc[mtx] = "read_done" THEN op[mtx].n ELSE 0
Frontier == pointer + Advance

StreamTypes ==
  /\ pointer \in -1..(MaxSize + 1) /\ pos \in 0..(MaxSize + 1) /\ bits \in Bits
  /\ spans \subseteq Nat /\ twice \in BOOLEAN

\* Where a transfer begins and ends: read() measures the rest of the file from
\* its end, or from the pointer when get_size has put the position back.
Transfers ==
  /\ Frontier <= MaxSize + 1
  /\ \A t \in Threads :
       /\ pc[t] = "read_tell" /\ bits = "good" /\ file # None
            => pos \in {pointer, size[file]}
       /\ pc[t] \in {"read_done", "write_done"} => pointer >= 0
       /\ pc[t] = "read_done" => op[t].n >= 0

\* What was transferred since the last seek ends where the pointer will be; only
\* a disk that is full is a gap, behind which there is nothing.
SpansEnd ==
  /\ \A a \in spans : a < Frontier
  /\ spans = {} \/ Frontier - 1 \in spans \/ Frontier > MaxSize

StreamInv == StreamTypes /\ Transfers /\ SpansEnd /\ RangesAdjacent

FileInv == LockInv /\ DiskInv /\ StreamInv
-----------------------------------------------------------------------------
(* The locks.                                                               *)

USE FileAssumption
USE DEF disk, data, stream, locks, ghosts, Goto, Return, Begin, Close,
        LockMtx, UnlockMtx, LockInst, UnlockInst, UseMtx, UseInst

\* Nobody holds a lock initially.
LEMMA LockInit == ASSUME Init PROVE LockInv
  BY DEF Init, LockInv, LockTypes, LocksHeld, Places, Critical, Inside

\* A step that moves one thread and takes or gives back what its places need.
LEMMA LockStep == ASSUME LockInv, NEW t \in Threads, Step(t) PROVE LockInv'
<1> USE DEF LockInv, LockTypes, LocksHeld, Places, Critical, Inside
<1>1. CASE GetSize(t)
  BY <1>1 DEF GetSize
<1>2. CASE GetSizeSeek(t)
  BY <1>2 DEF GetSizeSeek
<1>3. CASE GetSizeTell(t)
  BY <1>3 DEF GetSizeTell
<1>4. CASE GetSizeBack(t)
  BY <1>4 DEF GetSizeBack
<1>5. CASE Read(t)
  BY <1>5 DEF Read
<1>6. CASE ReadEnd(t)
  BY <1>6 DEF ReadEnd
<1>7. CASE ReadData(t)
  BY <1>7 DEF ReadData
<1>8. CASE ReadDone(t)
  BY <1>8 DEF ReadDone
<1>9. CASE ThrowNoSuccess(t)
  BY <1>9 DEF ThrowNoSuccess
<1>10. CASE Write(t)
  BY <1>10 DEF Write
<1>11. CASE WriteLock(t)
  BY <1>11 DEF WriteLock
<1>12. CASE WriteData(t)
  BY <1>12 DEF WriteData
<1>13. CASE WriteDone(t)
  BY <1>13 DEF WriteDone
<1>14. CASE SeekCall(t)
  BY <1>14 DEF SeekCall
<1>15. CASE SeekMove(t)
  BY <1>15 DEF SeekMove
<1>16. CASE SeekStore(t)
  BY <1>16 DEF SeekStore
<1>17. CASE IsDir(t)
  BY <1>17 DEF IsDir
<1>18. CASE IsDirAnswer(t)
  BY <1>18 DEF IsDirAnswer
<1>19. CASE Copy(t)
  BY <1>19 DEF Copy
<1>20. CASE CopyClear(t)
  BY <1>20 DEF CopyClear
<1>21. CASE CopyCreate(t)
  BY <1>21 DEF CopyCreate
<1>22. CASE CopyFill(t)
  BY <1>22 DEF CopyFill
<1>23. CASE Move(t)
  BY <1>23 DEF Move
<1>24. CASE MoveClose(t)
  BY <1>24 DEF MoveClose
<1>25. CASE MoveHold(t)
  BY <1>25 DEF MoveHold
<1>26. CASE MoveRename(t)
  BY <1>26 DEF MoveRename
<1>27. CASE MoveLock(t)
  BY <1>27 DEF MoveLock
<1>28. CASE MoveReopen(t)
  BY <1>28 DEF MoveReopen
<1>29. CASE Remove(t)
  BY <1>29 DEF Remove
<1>30. CASE RemoveClose(t)
  BY <1>30 DEF RemoveClose
<1>31. CASE RemoveFile(t)
  BY <1>31 DEF RemoveFile
<1>32. CASE CloseCall(t)
  BY <1>32 DEF CloseCall
<1>33. CASE CloseFile(t)
  BY <1>33 DEF CloseFile
<1> QED
  BY <1>1, <1>2, <1>3, <1>4, <1>5, <1>6, <1>7, <1>8, <1>9, <1>10, <1>11, <1>12, <1>13, <1>14, <1>15, <1>16, <1>17, <1>18, <1>19, <1>20, <1>21, <1>22, <1>23, <1>24, <1>25, <1>26, <1>27, <1>28, <1>29, <1>30, <1>31, <1>32, <1>33 DEF Step
-----------------------------------------------------------------------------
(* The disk and the arguments of the calls.                                 *)

\* The part of the invariant about the disk holds initially.
LEMMA DiskInit == ASSUME Init PROVE DiskInv
<1>1. Here \in Paths
  BY DEF Init, Here, Paths
<1>2. PICK i \in Inodes : file = i /\ entry = [p \in Paths |-> IF p = Here THEN i ELSE None]
  BY DEF Init
<1>3. entry \in [Paths -> Inodes \cup {None}]
  BY <1>2
<1>4. op \in [Threads -> [src : Names \cup Inodes \cup {None},
                         dst : Dests \cup Paths \cup {None}, n : -1..(MaxSize + 1)]]
  BY DEF Init, NoOp
<1> QED
  BY <1>2, <1>3, <1>4 DEF Init, DiskInv, DiskTypes, CallsCarry, Dests

\* A destination names a path, wherever it is taken from.
LEMMA TargetIsPath ==
  ASSUME NEW dst \in Dests, NEW name \in Names PROVE Target(dst, name) \in Paths
  BY DEF Target, Dests, Paths

\* The object is at a path as long as it is at a file.
LEMMA HereIsPath == ASSUME DiskInv, AtFile PROVE Here \in Paths
  BY DEF DiskInv, DiskTypes, AtFile, Here, Dests, Paths

\* What a seek does to the stream.
LEMMA SeekResult ==
  ASSUME NEW b \in Bits, NEW to \in Int
  PROVE  \/ /\ b = "good" /\ file # None /\ to >= 0
            /\ SeekFrom(b, to) = [pos |-> to, bits |-> "good"]
         \/ /\ b # "good" \/ file = None \/ to < 0
            /\ SeekFrom(b, to) = [pos |-> pos, bits |-> "fail"]
  BY DEF SeekFrom, Bits

\* The parts of ReadData: the seek, the stream after it, and the count.
ReadSeek == SeekFrom(bits, pointer)
ReadEnds(n) == AfterRead(n, ReadSeek)
ReadCount(n) ==
  IF ReadEnds(n).bits = "eof" THEN ReadEnds(n).pos - ReadSeek.pos
  ELSE IF Tell - ReadSeek.pos < n THEN Tell - ReadSeek.pos ELSE n

\* The count read() reports is not negative and ends within the file: the rest
\* of the file is the difference of two positions that others may move.
LEMMA ReadLength ==
  ASSUME FileInv, NEW t \in Threads, pc[t] = "read_tell", NEW n \in 1..(MaxSize + 1)
  PROVE  /\ ReadEnds(n).bits \in Bits /\ ReadEnds(n).pos \in 0..(MaxSize + 1)
         /\ ReadEnds(n).bits # "fail" =>
              /\ pointer >= 0 /\ ReadSeek.pos = pointer
              /\ ReadCount(n) \in Nat /\ pointer + ReadCount(n) <= MaxSize + 1
              /\ ReadCount(n) > 0 => pointer + ReadCount(n) <= MaxSize
<1> USE DEF FileInv, LockInv, LockTypes, LocksHeld, DiskInv, DiskTypes, StreamInv,
            StreamTypes, Transfers, Places, Critical
<1>1. CASE ReadSeek.bits = "fail"
  <2>1. ReadEnds(n) = ReadSeek
    BY <1>1 DEF ReadEnds, AfterRead
  <2>2. ReadSeek.pos = pos
    BY <1>1, SeekResult DEF ReadSeek
  <2> QED
    BY <1>1, <2>1, <2>2 DEF Bits
<1>2. CASE ReadSeek.bits # "fail"
  <2>1. /\ bits = "good" /\ file # None /\ pointer >= 0
        /\ ReadSeek = [pos |-> pointer, bits |-> "good"]
    BY <1>2, SeekResult DEF ReadSeek
  <2>2. file \in Inodes /\ size[file] \in 0..MaxSize /\ pos \in {pointer, size[file]}
    BY <2>1
  <2>3. Tell = pos
    BY <2>1 DEF Tell
  <2> DEFINE got == Got(n, pointer)
  <2>4. ReadEnds(n) = [pos |-> pointer + got, bits |-> IF got = n THEN "good" ELSE "eof"]
    BY <2>1 DEF ReadEnds, AfterRead
  <2>5. got \in 0..n /\ (got > 0 => pointer + got <= size[file])
    BY <2>1, <2>2 DEF Got
  <2> HIDE DEF got
  <2>6. got \in Nat /\ pointer + got <= MaxSize + 1 /\ (got > 0 => pointer + got <= MaxSize)
    BY <2>1, <2>2, <2>5
  <2>7. ReadEnds(n).bits \in Bits /\ ReadEnds(n).pos \in 0..(MaxSize + 1)
    BY <2>1, <2>4, <2>6 DEF Bits
  <2>8. CASE got = n
    <3>1. ReadCount(n) = IF pos - pointer < n THEN pos - pointer ELSE n
      BY <2>1, <2>3, <2>4, <2>8 DEF ReadCount
    <3>2. ReadCount(n) \in {0, n}
      BY <2>1, <2>2, <2>5, <2>8, <3>1
    <3> QED
      BY <2>1, <2>6, <2>7, <2>8, <3>2
  <2>9. CASE got # n
    <3>1. ReadCount(n) = got
      BY <2>1, <2>4, <2>6, <2>9 DEF ReadCount
    <3> QED
      BY <2>1, <2>6, <2>7, <3>1
  <2> QED
    BY <2>8, <2>9
<1> QED
  BY <1>1, <1>2

\* What ReadData does, in terms of them.
LEMMA ReadDataParts ==
  ASSUME NEW t, ReadData(t)
  PROVE  \E n \in 1..(MaxSize + 1) :
           /\ pc[t] = "read_tell" /\ inst = None
           /\ Positioned(ReadEnds(n))
           /\ UNCHANGED <<disk, data, isOpen, file, locks, asked>>
           /\ \/ /\ ReadEnds(n).bits = "fail"
                 /\ pc' = [pc EXCEPT ![t] = "failed"]
                 /\ UNCHANGED <<op, ghosts>>
              \/ /\ ReadEnds(n).bits # "fail"
                 /\ pc' = [pc EXCEPT ![t] = "read_done"]
                 /\ op' = [op EXCEPT ![t].n = ReadCount(n)]
                 /\ Transferred(ReadSeek.pos .. (ReadSeek.pos + ReadCount(n) - 1))
  BY DEF ReadData, ReadEnds, ReadCount, ReadSeek, Transferred

\* Every step keeps the part of the invariant about the disk.
LEMMA DiskStep == ASSUME FileInv, NEW t \in Threads, Step(t) PROVE DiskInv'
<1>0. ASSUME ReadData(t)
      PROVE  \E n \in 1..(MaxSize + 1) :
          /\ pc[t] = "read_tell"
          /\ UNCHANGED <<entry, size, loc, mode, isOpen, file, asked>>
          /\ \/ pc' = [pc EXCEPT ![t] = "failed"] /\ UNCHANGED op
             \/ /\ ReadEnds(n).bits # "fail"
                /\ pc' = [pc EXCEPT ![t] = "read_done"]
                /\ op' = [op EXCEPT ![t].n = ReadCount(n)]
  BY <1>0, ReadDataParts
<1> USE DEF FileInv, LockInv, LockTypes, LocksHeld, Places, Critical, Inside,
            DiskInv, DiskTypes, CallsCarry, NoOp, Paths, Dests
<1>1. CASE GetSize(t)
  BY <1>1 DEF GetSize
<1>2. CASE GetSizeSeek(t)
  BY <1>2 DEF GetSizeSeek
<1>3. CASE GetSizeTell(t)
  <2>1. Tell \in -1..(MaxSize + 1)
    BY DEF Tell, StreamInv, StreamTypes
  <2> QED
    BY <1>3, <2>1 DEF GetSizeTell
<1>4. CASE GetSizeBack(t)
  BY <1>4 DEF GetSizeBack
<1>5. CASE Read(t)
  BY <1>5 DEF Read
<1>6. CASE ReadEnd(t)
  BY <1>6 DEF ReadEnd
<1>7. CASE ReadData(t)
  <2>1. PICK n \in 1..(MaxSize + 1) :
          /\ pc[t] = "read_tell"
          /\ UNCHANGED <<entry, size, loc, mode, isOpen, file, asked>>
          /\ \/ pc' = [pc EXCEPT ![t] = "failed"] /\ UNCHANGED op
             \/ /\ ReadEnds(n).bits # "fail"
                /\ pc' = [pc EXCEPT ![t] = "read_done"]
                /\ op' = [op EXCEPT ![t].n = ReadCount(n)]
    BY <1>7, <1>0
  <2>2. ReadEnds(n).bits # "fail" => ReadCount(n) \in -1..(MaxSize + 1)
    BY <2>1, ReadLength DEF StreamInv, StreamTypes
  <2>3. DiskTypes'
    BY <2>1, <2>2
  <2>4. CallsCarry'
    BY <2>1
  <2> QED
    BY <2>3, <2>4
<1>8. CASE ReadDone(t)
  BY <1>8 DEF ReadDone
<1>9. CASE ThrowNoSuccess(t)
  BY <1>9 DEF ThrowNoSuccess
<1>10. CASE Write(t)
  BY <1>10 DEF Write
<1>11. CASE WriteLock(t)
  BY <1>11 DEF WriteLock
<1>12. CASE WriteData(t)
  <2>1. /\ pc[t] = "write_data"
        /\ \E to \in {"failed", "write_done"} : pc' = [pc EXCEPT ![t] = to]
        /\ UNCHANGED <<entry, loc, mode, asked, isOpen, file, op>>
    BY <1>12 DEF WriteData, Transferred
  <2>2. size' \in [Inodes -> 0..MaxSize]
    <3>1. CASE UNCHANGED size
      BY <3>1
    <3>2. CASE LET s == SeekFrom(bits, pointer)
               IN  /\ s.bits = "good" /\ s.pos < MaxSize
                   /\ size' = [size EXCEPT ![file] = IF @ > s.pos THEN @ ELSE s.pos + 1]
      <4> DEFINE s == SeekFrom(bits, pointer)
      <4>1. file \in Inodes /\ s.pos \in Nat
        BY <3>2, SeekResult DEF StreamInv, StreamTypes
      <4> QED
        BY <3>2, <4>1
    <3> QED
      BY <1>12, <3>1, <3>2 DEF WriteData
  <2> QED
    BY <2>1, <2>2
<1>13. CASE WriteDone(t)
  BY <1>13 DEF WriteDone
<1>14. CASE SeekCall(t)
  BY <1>14 DEF SeekCall
<1>15. CASE SeekMove(t)
  BY <1>15 DEF SeekMove
<1>16. CASE SeekStore(t)
  BY <1>16 DEF SeekStore
<1>17. CASE IsDir(t)
  BY <1>17 DEF IsDir
<1>18. CASE IsDirAnswer(t)
  BY <1>18 DEF IsDirAnswer
<1>19. CASE Copy(t)
  BY <1>19 DEF Copy, AtFile
<1>20. CASE CopyClear(t)
  <2>1. PICK dst \in Dests, over \in BOOLEAN :
          LET p == Target(dst, op[t].src)
          IN  /\ pc[t] = "copy"
              /\ entry' = Without(p, over)
              /\ asked' = (asked \/ over)
              /\ IF entry'[p] = None
                   THEN /\ pc' = [pc EXCEPT ![t] = "copy_file"]
                        /\ op' = [op EXCEPT ![t].dst = p]
                   ELSE /\ pc' = [pc EXCEPT ![t] = "idle"]
                        /\ op' = [op EXCEPT ![t] = NoOp]
              /\ UNCHANGED <<size, loc, mode, isOpen, file>>
    BY <1>20 DEF CopyClear
  <2> DEFINE p == Target(dst, op[t].src)
  <2>2. op[t].src \in Names /\ p \in Paths
    BY <2>1, TargetIsPath
  <2> HIDE DEF p
  <2>3. /\ entry' \in [Paths -> Inodes \cup {None}]
        /\ \A q \in Paths : entry[q] = None => entry'[q] = None
    BY <2>1, <2>2 DEF Without, p
  <2>4. asked' \in BOOLEAN
    BY <2>1
  <2>5. CASE entry'[p] = None
    <3>1. pc' = [pc EXCEPT ![t] = "copy_file"] /\ op' = [op EXCEPT ![t].dst = p]
      BY <2>1, <2>5 DEF p
    <3> QED
      BY <2>1, <2>2, <2>3, <2>4, <2>5, <3>1
  <2>6. CASE entry'[p] # None
    <3>1. pc' = [pc EXCEPT ![t] = "idle"] /\ op' = [op EXCEPT ![t] = NoOp]
      BY <2>1, <2>6 DEF p
    <3> QED
      BY <2>1, <2>3, <2>4, <3>1
  <2> QED
    BY <2>5, <2>6
<1>21. CASE CopyCreate(t)
  <2> DEFINE from == entry[<<"top", op[t].src>>]
  <2>1. op[t].src \in Names /\ op[t].dst \in Paths /\ from \in Inodes \cup {None}
    BY <1>21 DEF CopyCreate
  <2>2. UNCHANGED <<loc, mode, isOpen, asked, file>>
    BY <1>21 DEF CopyCreate
  <2>3. CASE from = None
    <3>1. /\ pc' = [pc EXCEPT ![t] = "idle"] /\ op' = [op EXCEPT ![t] = NoOp]
          /\ UNCHANGED <<entry, size>>
      BY <1>21, <2>3 DEF CopyCreate
    <3> QED
      BY <2>2, <3>1
  <2>4. CASE from # None
    <3>1. PICK new \in Inodes :
            /\ pc[t] = "copy_file" /\ pc' = [pc EXCEPT ![t] = "copying"]
            /\ op' = [op EXCEPT ![t].src = from]
            /\ entry' = [entry EXCEPT ![op[t].dst] = new]
            /\ size' = [size EXCEPT ![new] = 0]
      BY <1>21, <2>4 DEF CopyCreate, Unused
    <3>2. entry' \in [Paths -> Inodes \cup {None}] /\ size' \in [Inodes -> 0..MaxSize]
      BY <2>1, <3>1
    <3>3. \A u \in Threads : pc'[u] # "copy_file"
      BY <3>1
    <3>4. op' \in [Threads -> [src : Names \cup Inodes \cup {None},
                             dst : Dests \cup Paths \cup {None}, n : -1..(MaxSize + 1)]]
      BY <2>1, <2>4, <3>1
    <3>5. CallsCarry'
      BY <2>1, <2>4, <3>1, <3>3
    <3> QED
      BY <2>2, <3>2, <3>4, <3>5
  <2> QED
    BY <2>3, <2>4
<1>22. CASE CopyFill(t)
  <2> DEFINE to == entry[op[t].dst]
  <2>1. op[t].src \in Inodes /\ to \in Inodes \cup {None}
    BY <1>22 DEF CopyFill
  <2>2. size' \in [Inodes -> 0..MaxSize]
    BY <1>22, <2>1 DEF CopyFill
  <2> QED
    BY <1>22, <2>2 DEF CopyFill
<1>23. CASE Move(t)
  BY <1>23 DEF Move
<1>24. CASE MoveClose(t)
  BY <1>24 DEF MoveClose
<1>25. CASE MoveHold(t)
  BY <1>25 DEF MoveHold
<1>26. CASE MoveRename(t)
  <2>1. PICK dst \in Dests, over \in BOOLEAN :
          LET q    == Target(dst, loc)
              left == Without(q, over)
              done == left[q] = None /\ left[Here] # None
          IN  /\ AtFile
              /\ Goto(t, "renaming", IF done THEN "reopen" ELSE "idle")
              /\ UseMtx /\ UnlockInst(t)
              /\ entry' = IF done THEN [left EXCEPT ![q] = left[Here], ![Here] = None] ELSE left
              /\ op' = [op EXCEPT ![t].dst = IF done THEN dst ELSE None]
              /\ asked' = (asked \/ over)
              /\ UNCHANGED <<size, data, isOpen, stream, spans, twice>>
    BY <1>26 DEF MoveRename
  <2> DEFINE q    == Target(dst, loc)
             left == Without(q, over)
             done == left[q] = None /\ left[Here] # None
  <2>2. q \in Paths /\ Here \in Paths
    BY <2>1, TargetIsPath, HereIsPath DEF AtFile
  <2> HIDE DEF q
  <2>3. left \in [Paths -> Inodes \cup {None}]
    BY <2>2 DEF Without
  <2> HIDE DEF left
  <2>4. entry' \in [Paths -> Inodes \cup {None}]
    BY <2>1, <2>2, <2>3 DEF q, left
  <2>5. asked' \in BOOLEAN
    BY <2>1
  <2>6. \/ op' = [op EXCEPT ![t].dst = dst] /\ pc' = [pc EXCEPT ![t] = "reopen"]
        \/ op' = [op EXCEPT ![t].dst = None] /\ pc' = [pc EXCEPT ![t] = "idle"]
    BY <2>1
  <2>7. \A u \in Threads : pc'[u] \notin {"copy_file", "copying", "reopening"}
    BY <2>1, <2>6
  <2>8. op' \in [Threads -> [src : Names \cup Inodes \cup {None},
                          dst : Dests \cup Paths \cup {None}, n : -1..(MaxSize + 1)]]
    <3>1. PICK to \in Dests \cup {None} : op' = [op EXCEPT ![t].dst = to]
      BY <2>6
    <3> QED
      BY <3>1
  <2>9. CallsCarry'
    BY <2>1, <2>6, <2>7
  <2> QED
    BY <2>1, <2>4, <2>5, <2>8, <2>9
<1>27. CASE MoveLock(t)
  BY <1>27 DEF MoveLock
<1>28. CASE MoveReopen(t)
  <2> DEFINE dst == op[t].dst
  <2>1. /\ pc[t] = "reopening" /\ mtx = t /\ dst \in Dests
        /\ pc' = [pc EXCEPT ![t] = "idle"] /\ op' = [op EXCEPT ![t] = NoOp]
        /\ UNCHANGED <<mode, isOpen, asked>>
    BY <1>28 DEF MoveReopen
  <2>2. \A u \in Threads : pc'[u] \notin {"copy_file", "copying", "reopening"}
    BY <2>1
  <2>3. /\ entry' \in [Paths -> Inodes \cup {None}] /\ size' \in [Inodes -> 0..MaxSize]
        /\ loc' \in Dests /\ file' \in Inodes \cup {None}
    <3>1. CASE UNCHANGED <<disk, loc, file>>
      BY <3>1
    <3>2. CASE loc' = dst /\ UNCHANGED <<disk, file>>
      BY <2>1, <3>2
    <3>3. CASE \E i \in Openable(dst) :
                 /\ file' = i /\ loc' = dst
                 /\ entry' = [entry EXCEPT ![<<"top", dst>>] = i]
                 /\ size' = IF mode = "ReadWrite" THEN size ELSE [size EXCEPT ![i] = 0]
      <4>1. \A i \in Openable(dst) : i \in Inodes /\ dst \in Names
        BY <2>1 DEF Openable, Unused
      <4> QED
        BY <2>1, <3>3, <4>1
    <3> QED
      BY <1>28, <3>1, <3>2, <3>3 DEF MoveReopen
  <2> QED
    BY <2>1, <2>2, <2>3
<1>29. CASE Remove(t)
  BY <1>29 DEF Remove
<1>30. CASE RemoveClose(t)
  BY <1>30 DEF RemoveClose
<1>31. CASE RemoveFile(t)
  <2>1. /\ entry' = entry \/ entry' = [entry EXCEPT ![Here] = None]
        /\ asked' \in {asked, TRUE}
        /\ pc[t] = "remove_file" /\ pc' = [pc EXCEPT ![t] = "idle"]
        /\ UNCHANGED <<size, loc, mode, isOpen, file, op>>
    BY <1>31 DEF RemoveFile
  <2>2. /\ entry' \in [Paths -> Inodes \cup {None}]
        /\ \A q \in Paths : entry[q] = None => entry'[q] = None
    BY <2>1
  <2>3. CallsCarry'
    BY <2>1, <2>2
  <2>4. DiskTypes'
    BY <2>1, <2>2
  <2> QED
    BY <2>3, <2>4
<1>32. CASE CloseCall(t)
  BY <1>32 DEF CloseCall
<1>33. CASE CloseFile(t)
  <2>1. /\ pc[t] = "close" /\ pc' = [pc EXCEPT ![t] = "idle"] /\ file' = None
        /\ isOpen' = FALSE /\ UNCHANGED <<entry, size, loc, mode, asked, op>>
    BY <1>33 DEF CloseFile
  <2>2. DiskTypes'
    BY <2>1
  <2>3. CallsCarry'
    BY <2>1
  <2> QED
    BY <2>2, <2>3
<1> QED
  BY <1>1, <1>2, <1>3, <1>4, <1>5, <1>6, <1>7, <1>8, <1>9, <1>10, <1>11, <1>12, <1>13, <1>14, <1>15, <1>16, <1>17, <1>18, <1>19, <1>20, <1>21, <1>22, <1>23, <1>24, <1>25, <1>26, <1>27, <1>28, <1>29, <1>30, <1>31, <1>32, <1>33 DEF Step
-----------------------------------------------------------------------------
(* The stream and the pointer.                                              *)

\* The part about streams holds initially.
LEMMA StreamInit == ASSUME Init PROVE StreamInv
<1>1. pointer \in 0..MaxSize
  BY DEF Init
<1>2. Frontier = pointer
  BY <1>1 DEF Init, Frontier, Advance
<1> QED
  <2>1. StreamTypes
    <3>1. pos = pointer /\ bits = "good" /\ spans = {} /\ twice = FALSE
      BY DEF Init
    <3>2. pointer \in -1..(MaxSize + 1) /\ pos \in 0..(MaxSize + 1)
      BY <1>1, <3>1
    <3> QED
      BY <3>1, <3>2 DEF StreamTypes, Bits
  <2>3. Transfers
    BY <1>1, <1>2 DEF Init, Transfers
  <2>2. SpansEnd /\ RangesAdjacent
    BY <1>1, <1>2 DEF Init, SpansEnd, RangesAdjacent
  <2> QED
    BY <2>1, <2>2, <2>3 DEF StreamInv

\* A seek leaves the position within the file or right behind the end of the disk.
LEMMA SeekTypes ==
  ASSUME StreamTypes, NEW b \in Bits, NEW to \in -1..(MaxSize + 1),
         Positioned(SeekFrom(b, to))
  PROVE  /\ pos' \in 0..(MaxSize + 1) /\ bits' \in Bits
         /\ bits' = "good" => pos' = to
<1>1. to \in Int
  OBVIOUS
<1>2. CASE SeekFrom(b, to) = [pos |-> to, bits |-> "good"] /\ to >= 0
  BY <1>2 DEF Positioned, StreamTypes, Bits
<1>3. CASE SeekFrom(b, to) = [pos |-> pos, bits |-> "fail"]
  BY <1>3 DEF Positioned, StreamTypes, Bits
<1> QED
  BY <1>1, <1>2, <1>3, SeekResult

\* A range of positions that begins where the others end.
LEMMA SpansGrow ==
  ASSUME NEW S \in SUBSET Nat, NEW p \in Nat, NEW len \in Nat,
         len > 0 => p + len <= MaxSize,
         \A a, b \in S : a .. b \subseteq S,
         \A a \in S : a < p,
         S = {} \/ p - 1 \in S \/ p > MaxSize,
         NEW T, T = p .. (p + len - 1)
  PROVE  /\ S \cap T = {} /\ S \cup T \in SUBSET Nat
         /\ \A a, b \in S \cup T : a .. b \subseteq S \cup T
         /\ \A a \in S \cup T : a < p + len
         /\ S \cup T = {} \/ p + len - 1 \in S \cup T \/ p + len > MaxSize
<1>1. CASE len = 0
  <2>1. T = {}
    BY <1>1
  <2> QED
    BY <1>1, <2>1
<1>2. CASE len > 0
  <2>1. p + len - 1 \in T /\ T \subseteq Nat /\ \A a \in T : p <= a /\ a < p + len
    BY <1>2
  <2>2. ASSUME NEW a \in S \cup T, NEW b \in S \cup T, NEW x \in a .. b PROVE x \in S \cup T
    <3>1. CASE x >= p
      BY <1>2, <2>1, <2>2, <3>1
    <3>2. CASE x < p
      <4>1. a \in S /\ p - 1 \in S
        BY <1>2, <2>1, <2>2, <3>2
      <4>2. x \in a .. (p - 1)
        BY <2>2, <3>2
      <4> QED
        BY <4>1, <4>2
    <3> QED
      BY <2>1, <2>2, <3>1, <3>2
  <2> QED
    BY <1>2, <2>1, <2>2
<1> QED
  BY <1>1, <1>2

\* A step that neither transfers nor stores the pointer.
Quiet(t) ==
  /\ pc[t] \notin {"read_done", "write_done"} /\ pc'[t] \notin {"read_done", "write_done"}
  /\ \A u \in Threads \ {t} : pc'[u] = pc[u] /\ op'[u] = op[u]
  /\ UNCHANGED <<pointer, spans, twice>>
  /\ pos' \in 0..(MaxSize + 1) /\ bits' \in Bits
  /\ \A u \in Threads :
       pc'[u] = "read_tell" /\ bits' = "good" /\ file' # None => pos' \in {pointer, size'[file']}

\* Steps that move no data keep the part about streams.
LEMMA QuietStep ==
  ASSUME FileInv, LockInv', NEW t \in Threads, Quiet(t) PROVE StreamInv'
<1> USE DEF FileInv, LockInv, LockTypes, LocksHeld, StreamInv, StreamTypes
<1>1. /\ pc'[t] \notin {"read_done", "write_done"} /\ pc[t] \notin {"read_done", "write_done"}
      /\ \A u \in Threads \ {t} : pc'[u] = pc[u] /\ op'[u] = op[u]
  BY DEF Quiet
<1>2. \A u \in Threads \ {t} : mtx' = u <=> mtx = u
  BY <1>1
<1>3. Advance' = Advance
  <2>1. CASE mtx \in Threads \ {t}
    BY <1>1, <1>2, <2>1 DEF Advance
  <2>2. CASE mtx \in {t, None}
    <3>1. mtx' \in {t, None}
      BY <1>2, <2>2
    <3> QED
      BY <1>1, <2>2, <3>1 DEF Advance
  <2> QED
    BY <2>1, <2>2
<1>4. Frontier' = Frontier
  BY <1>3 DEF Frontier, Quiet
<1>5. Transfers'
  BY <1>1, <1>4 DEF Transfers, Quiet
<1> QED
  BY <1>4, <1>5 DEF Quiet, SpansEnd, RangesAdjacent

\* A step that leaves the stream and the pointer alone.  What it does to the
\* sizes it does with mtx_.
Still(t) ==
  /\ pc[t] \notin {"read_done", "write_done"}
  /\ pc'[t] \notin {"read_tell", "read_done", "write_done"}
  /\ \A u \in Threads \ {t} : pc'[u] = pc[u] /\ op'[u] = op[u]
  /\ UNCHANGED <<pointer, spans, twice, file, pos, bits>>
  /\ size' = size \/ mtx = t

\* Nobody else is between the two halves of read() when a size changes.
LEMMA StillStep ==
  ASSUME FileInv, LockInv', NEW t \in Threads, Still(t) PROVE StreamInv'
<1>1. \A u \in Threads : pc'[u] = "read_tell" => pc[u] = "read_tell" /\ u # t
  BY DEF Still, FileInv, LockInv, LockTypes
<1>2. size' = size \/ \A u \in Threads : pc'[u] # "read_tell"
  BY <1>1 DEF Still, FileInv, LockInv, LocksHeld, Critical
<1>3. pos \in 0..(MaxSize + 1) /\ bits \in Bits
  BY DEF FileInv, StreamInv, StreamTypes
<1>4. \A u \in Threads :
        pc[u] = "read_tell" /\ bits = "good" /\ file # None => pos \in {pointer, size[file]}
  BY DEF FileInv, StreamInv, Transfers
<1>5. Quiet(t)
  BY <1>1, <1>2, <1>3, <1>4 DEF Still, Quiet
<1> QED
  BY <1>5, QuietStep

\* Every step keeps the part about streams.
LEMMA StreamStep == ASSUME FileInv, NEW t \in Threads, Step(t) PROVE StreamInv'
<1> LockInv'
  BY LockStep DEF FileInv
<1> USE DEF FileInv, LockInv, LockTypes, LocksHeld, Places, Critical, Inside, Bits,
            DiskInv, DiskTypes
<1>1. CASE GetSize(t)
  <2>1. Still(t)
    BY <1>1 DEF GetSize, Still
  <2> QED
    BY <2>1, StillStep
<1>2. CASE GetSizeSeek(t)
  <2>1. End \in -1..(MaxSize + 1) /\ (IF bits = "eof" THEN "good" ELSE bits) \in Bits
    BY DEF End, StreamInv, StreamTypes
  <2>2. pos' \in 0..(MaxSize + 1) /\ bits' \in Bits /\ (bits' = "good" => pos' = End)
    BY <1>2, <2>1, SeekTypes DEF GetSizeSeek, StreamInv
  <2>3. Quiet(t)
    <3>1. /\ pc[t] = "get_size" /\ pc' = [pc EXCEPT ![t] = "size_tell"] /\ mtx' = t
          /\ UNCHANGED <<pointer, size, file, op, spans, twice>>
      BY <1>2 DEF GetSizeSeek
    <3>2. \A u \in Threads : pc'[u] # "read_tell"
      BY <3>1
    <3> QED
      BY <2>2, <3>1, <3>2 DEF Quiet
  <2> QED
    BY <2>3, QuietStep
<1>3. CASE GetSizeTell(t)
  <2>1. Still(t)
    BY <1>3 DEF GetSizeTell, Still
  <2> QED
    BY <2>1, StillStep
<1>4. CASE GetSizeBack(t)
  <2>1. pointer \in -1..(MaxSize + 1) /\ bits \in Bits
    BY DEF StreamInv, StreamTypes
  <2>2. pos' \in 0..(MaxSize + 1) /\ bits' \in Bits /\ (bits' = "good" => pos' = pointer)
    BY <1>4, <2>1, SeekTypes DEF GetSizeBack, StreamInv
  <2>3. Quiet(t)
    <3>1. /\ pc[t] = "size_back" /\ pc' = [pc EXCEPT ![t] = "idle"]
          /\ op' = [op EXCEPT ![t] = NoOp] /\ UNCHANGED <<pointer, spans, twice>>
      BY <1>4 DEF GetSizeBack
    <3> QED
      BY <2>2, <3>1 DEF Quiet
  <2> QED
    BY <2>3, QuietStep
<1>5. CASE Read(t)
  <2>1. Still(t)
    BY <1>5 DEF Read, Still
  <2> QED
    BY <2>1, StillStep
<1>6. CASE ReadEnd(t)
  <2>1. End \in -1..(MaxSize + 1) /\ bits \in Bits
    BY DEF End, StreamInv, StreamTypes
  <2>2. pos' \in 0..(MaxSize + 1) /\ bits' \in Bits /\ (bits' = "good" => pos' = End)
    BY <1>6, <2>1, SeekTypes DEF ReadEnd, StreamInv
  <2>3. Quiet(t)
    <3>1. /\ pc[t] = "read" /\ pc' = [pc EXCEPT ![t] = "read_tell"] /\ mtx' = t
          /\ UNCHANGED <<pointer, size, file, op, spans, twice>>
      BY <1>6 DEF ReadEnd
    <3>2. bits' = "good" /\ file' # None => pos' = size'[file']
      BY <2>2, <3>1 DEF End
    <3> QED
      BY <2>2, <3>1, <3>2 DEF Quiet
  <2> QED
    BY <2>3, QuietStep
<1>7. CASE ReadData(t)
  <2>1. PICK n \in 1..(MaxSize + 1) :
          /\ pc[t] = "read_tell" /\ pos' = ReadEnds(n).pos /\ bits' = ReadEnds(n).bits
          /\ UNCHANGED <<mtx, pointer>>
          /\ \/ /\ ReadEnds(n).bits = "fail"
                /\ pc' = [pc EXCEPT ![t] = "failed"] /\ UNCHANGED <<op, spans, twice>>
             \/ /\ ReadEnds(n).bits # "fail"
                /\ pc' = [pc EXCEPT ![t] = "read_done"]
                /\ op' = [op EXCEPT ![t].n = ReadCount(n)]
                /\ Transferred(ReadSeek.pos .. (ReadSeek.pos + ReadCount(n) - 1))
    BY <1>7, ReadDataParts DEF Positioned
  <2>2. mtx = t /\ Frontier = pointer
    BY <2>1 DEF Frontier, Advance, StreamInv, StreamTypes
  <2>3. pos' \in 0..(MaxSize + 1) /\ bits' \in Bits
    BY <2>1, ReadLength
  <2>4. CASE ReadEnds(n).bits = "fail"
    <3>1. Quiet(t)
      BY <2>1, <2>2, <2>3, <2>4 DEF Quiet
    <3> QED
      BY <3>1, QuietStep
  <2>5. CASE ReadEnds(n).bits # "fail"
    <3> DEFINE len == ReadCount(n)
    <3>1. /\ pointer \in Nat /\ len \in Nat /\ pointer + len <= MaxSize + 1
          /\ len > 0 => pointer + len <= MaxSize
          /\ ReadSeek.pos = pointer
      BY <2>1, <2>5, ReadLength DEF StreamInv, StreamTypes
    <3> DEFINE T == pointer .. (pointer + len - 1)
    <3>8. T = pointer .. (pointer + len - 1)
      OBVIOUS
    <3>2. /\ pc' = [pc EXCEPT ![t] = "read_done"] /\ op' = [op EXCEPT ![t].n = len]
          /\ spans' = spans \cup T /\ twice' = (twice \/ T \cap spans # {})
      BY <2>1, <2>5, <3>1 DEF Transferred
    <3>3. op'[t].n = len /\ \A u \in Threads \ {t} : pc'[u] \notin Critical
      BY <2>2, <3>2 DEF DiskInv, DiskTypes
    <3>4. Frontier' = pointer + len
      BY <2>1, <2>2, <3>2, <3>3 DEF Frontier, Advance
    <3> HIDE DEF len, T
    <3>9. /\ spans \in SUBSET Nat /\ (\A a, b \in spans : a .. b \subseteq spans)
          /\ (\A a \in spans : a < pointer)
          /\ spans = {} \/ pointer - 1 \in spans \/ pointer > MaxSize
      BY <2>2 DEF StreamInv, StreamTypes, SpansEnd, RangesAdjacent
    <3>5. /\ spans \cap T = {} /\ spans' \in SUBSET Nat
          /\ \A a, b \in spans' : a .. b \subseteq spans'
          /\ \A a \in spans' : a < Frontier'
          /\ spans' = {} \/ Frontier' - 1 \in spans' \/ Frontier' > MaxSize
      <4>1. /\ spans \cap T = {} /\ spans \cup T \in SUBSET Nat
            /\ \A a, b \in spans \cup T : a .. b \subseteq spans \cup T
            /\ \A a \in spans \cup T : a < pointer + len
            /\ spans \cup T = {} \/ pointer + len - 1 \in spans \cup T \/ pointer + len > MaxSize
        BY <3>1, <3>8, <3>9, SpansGrow
      <4>2. spans' = spans \cup T
        BY <3>2
      <4>3. /\ spans \cap T = {} /\ spans' \in SUBSET Nat
            /\ \A a, b \in spans' : a .. b \subseteq spans'
        BY <4>1, <4>2
      <4>4. \A a \in spans' : a < Frontier'
        BY <3>4, <4>1, <4>2
      <4>5. spans' = {} \/ Frontier' - 1 \in spans' \/ Frontier' > MaxSize
        <5>1. Frontier' - 1 = pointer + len - 1
          BY <3>1, <3>4
        <5>2. spans \cup T = {} \/ Frontier' - 1 \in spans \cup T \/ Frontier' > MaxSize
          BY <3>4, <4>1, <5>1
        <5> QED
          BY <4>2, <5>2
      <4> QED
        BY <4>3, <4>4, <4>5
    <3>6. ~twice' /\ twice' \in BOOLEAN
      <4>1. twice' = (twice \/ T \cap spans # {}) /\ T \cap spans = {}
        BY <3>2, <3>5
      <4> QED
        BY <4>1 DEF StreamInv, RangesAdjacent
    <3>7. Transfers'
      BY <2>1, <3>1, <3>2, <3>3, <3>4 DEF Transfers
    <3> QED
      BY <2>1, <2>3, <3>5, <3>6, <3>7 DEF StreamInv, StreamTypes, SpansEnd, RangesAdjacent
  <2> QED
    BY <2>4, <2>5
<1>8. CASE ReadDone(t)
  <2>1. /\ mtx = t /\ mtx' = None /\ pc' = [pc EXCEPT ![t] = "idle"]
        /\ pointer' = pointer + op[t].n /\ UNCHANGED <<pos, bits, spans, twice>>
        /\ op' = [op EXCEPT ![t] = NoOp]
    BY <1>8 DEF ReadDone
  <2>2. Frontier = pointer + op[t].n /\ Frontier' = pointer'
    BY <1>8, <2>1 DEF ReadDone, Frontier, Advance
  <2>3. StreamTypes' /\ Frontier' = Frontier
    BY <1>8, <2>1, <2>2 DEF ReadDone, StreamInv, StreamTypes, Transfers, DiskInv, DiskTypes
  <2>4. Transfers'
    BY <2>1, <2>3 DEF StreamInv, StreamTypes, Transfers
  <2> QED
    BY <2>1, <2>3, <2>4 DEF StreamInv, SpansEnd, RangesAdjacent
<1>9. CASE ThrowNoSuccess(t)
  <2>1. Still(t)
    BY <1>9 DEF ThrowNoSuccess, Still
  <2> QED
    BY <2>1, StillStep
<1>10. CASE Write(t)
  <2>1. Still(t)
    BY <1>10 DEF Write, Still
  <2> QED
    BY <2>1, StillStep
<1>11. CASE WriteLock(t)
  <2>1. Still(t)
    BY <1>11 DEF WriteLock, Still
  <2> QED
    BY <2>1, StillStep
<1>12. CASE WriteData(t)
  <2> DEFINE s == SeekFrom(bits, pointer)
  <2>1. /\ pc[t] = "write_data" /\ mtx = t /\ Frontier = pointer
        /\ UNCHANGED <<mtx, pointer, file, op>>
    BY <1>12 DEF WriteData, Frontier, Advance, StreamInv, StreamTypes
  <2>2. \A u \in Threads \ {t} : pc[u] \notin Critical
    BY <2>1
  <2>3. s.bits \in {"good", "fail"} /\ s.pos \in 0..(MaxSize + 1) /\ (s.bits = "good" => s.pos = pointer)
    BY SeekResult DEF StreamInv, StreamTypes
  <2> HIDE DEF s
  <2>4. CASE /\ s.bits = "good" /\ s.pos < MaxSize
             /\ Goto(t, "write_data", "write_done")
             /\ Positioned([s EXCEPT !.pos = @ + 1])
             /\ Transferred({s.pos})
    <3>1. /\ pointer \in Nat /\ pointer < MaxSize
          /\ pc' = [pc EXCEPT ![t] = "write_done"]
          /\ pos' = pointer + 1 /\ bits' = "good"
          /\ spans' = spans \cup {pointer} /\ twice' = (twice \/ {pointer} \cap spans # {})
      BY <2>3, <2>4 DEF Positioned, Transferred, s, SeekFrom
    <3>2. Frontier' = pointer + 1
      BY <2>1, <3>1 DEF Frontier, Advance
    <3>3. {pointer} = pointer .. (pointer + 1 - 1)
      BY <3>1
    <3>4. /\ spans \cap {pointer} = {} /\ spans' \in SUBSET Nat
          /\ \A a, b \in spans' : a .. b \subseteq spans'
          /\ \A a \in spans' : a < Frontier'
          /\ spans' = {} \/ Frontier' - 1 \in spans' \/ Frontier' > MaxSize
      <4>1. /\ spans \in SUBSET Nat /\ (\A a, b \in spans : a .. b \subseteq spans)
            /\ (\A a \in spans : a < pointer)
            /\ spans = {} \/ pointer - 1 \in spans \/ pointer > MaxSize
        BY <2>1 DEF StreamInv, StreamTypes, SpansEnd, RangesAdjacent
      <4> QED
        BY <3>1, <3>2, <3>3, <4>1, SpansGrow
    <3>5. ~twice' /\ twice' \in BOOLEAN
      <4>1. twice' = (twice \/ {pointer} \cap spans # {}) /\ {pointer} \cap spans = {}
        BY <3>1, <3>4
      <4> QED
        BY <4>1 DEF StreamInv, RangesAdjacent
    <3>6. Transfers'
      BY <2>1, <2>2, <3>1, <3>2 DEF Transfers
    <3> QED
      BY <2>1, <3>1, <3>4, <3>5, <3>6 DEF StreamInv, StreamTypes, SpansEnd, RangesAdjacent
  <2>5. CASE /\ s.bits = "good" /\ s.pos = MaxSize
             /\ Goto(t, "write_data", "write_done")
             /\ Positioned([s EXCEPT !.bits = "fail"])
             /\ UNCHANGED ghosts
    <3>1. /\ pointer = MaxSize /\ pc' = [pc EXCEPT ![t] = "write_done"]
          /\ pos' = pointer /\ bits' = "fail" /\ UNCHANGED <<spans, twice>>
      BY <2>3, <2>5 DEF Positioned, s, SeekFrom
    <3>2. Frontier' = MaxSize + 1
      BY <2>1, <3>1 DEF Frontier, Advance
    <3>3. Transfers'
      BY <2>1, <2>2, <3>1, <3>2 DEF Transfers
    <3> QED
      BY <2>1, <3>1, <3>2, <3>3 DEF StreamInv, StreamTypes, SpansEnd, RangesAdjacent
  <2>6. CASE /\ Goto(t, "write_data", "failed") /\ UNCHANGED ghosts
             /\ pos' \in 0..(MaxSize + 1) /\ bits' \in Bits
    <3>1. Quiet(t)
      BY <2>1, <2>2, <2>6 DEF Quiet
    <3> QED
      BY <3>1, QuietStep
  <2>7. \/ /\ s.bits = "good" /\ s.pos < MaxSize
           /\ Goto(t, "write_data", "write_done")
           /\ Positioned([s EXCEPT !.pos = @ + 1])
           /\ Transferred({s.pos})
        \/ /\ s.bits = "good" /\ s.pos >= MaxSize
           /\ \E buffered \in {FALSE, s.pos = MaxSize} :
                Goto(t, "write_data", IF buffered THEN "write_done" ELSE "failed")
           /\ Positioned([s EXCEPT !.bits = "fail"])
           /\ UNCHANGED <<size, ghosts>>
        \/ /\ Goto(t, "write_data", "failed")
           /\ bits' = IF bits = "eof" THEN "eof" ELSE "fail"
           /\ UNCHANGED <<size, pos, ghosts>>
    BY <1>12 DEF WriteData, s
  <2>8. CASE /\ s.bits = "good" /\ s.pos >= MaxSize
             /\ \E buffered \in {FALSE, s.pos = MaxSize} :
                  Goto(t, "write_data", IF buffered THEN "write_done" ELSE "failed")
             /\ Positioned([s EXCEPT !.bits = "fail"])
             /\ UNCHANGED <<size, ghosts>>
    <3>1. s = [pos |-> pointer, bits |-> "good"]
      BY <2>8 DEF s, SeekFrom
    <3>2. pos' = pointer /\ bits' = "fail" /\ pointer \in 0..(MaxSize + 1)
      BY <2>3, <2>8, <3>1 DEF Positioned
    <3>3. \/ Goto(t, "write_data", "failed")
          \/ s.pos = MaxSize /\ Goto(t, "write_data", "write_done")
      BY <2>8
    <3> QED
      BY <2>5, <2>6, <2>8, <3>2, <3>3
  <2>9. CASE /\ Goto(t, "write_data", "failed")
             /\ bits' = IF bits = "eof" THEN "eof" ELSE "fail"
             /\ UNCHANGED <<size, pos, ghosts>>
    BY <2>6, <2>9 DEF StreamInv, StreamTypes
  <2> QED
    BY <2>4, <2>7, <2>8, <2>9
<1>13. CASE WriteDone(t)
  <2>1. /\ mtx = t /\ mtx' = None /\ pc' = [pc EXCEPT ![t] = "idle"]
        /\ pointer' = pointer + 1 /\ UNCHANGED <<pos, bits, spans, twice>>
        /\ op' = [op EXCEPT ![t] = NoOp]
    BY <1>13 DEF WriteDone
  <2>2. Frontier = pointer + 1 /\ Frontier' = pointer'
    BY <1>13, <2>1 DEF WriteDone, Frontier, Advance
  <2>3. StreamTypes' /\ Frontier' = Frontier
    BY <1>13, <2>1, <2>2 DEF WriteDone, StreamInv, StreamTypes, Transfers, DiskInv, DiskTypes
  <2>4. Transfers'
    BY <2>1, <2>3 DEF StreamInv, StreamTypes, Transfers
  <2> QED
    BY <2>1, <2>3, <2>4 DEF StreamInv, SpansEnd, RangesAdjacent
<1>14. CASE SeekCall(t)
  <2>1. Still(t)
    BY <1>14 DEF SeekCall, Still
  <2> QED
    BY <2>1, StillStep
<1>15. CASE SeekMove(t)
  <2>1. Quiet(t)
    <3>1. PICK to \in {0, End, IF pos < MaxSize THEN pos + 1 ELSE pos} :
            Positioned(SeekFrom(bits, to))
      BY <1>15 DEF SeekMove
    <3>2. to \in -1..(MaxSize + 1) /\ bits \in Bits
      BY DEF End, StreamInv, StreamTypes
    <3>3. pos' \in 0..(MaxSize + 1) /\ bits' \in Bits
      BY <3>1, <3>2, SeekTypes DEF StreamInv
    <3> QED
      BY <1>15, <3>3 DEF SeekMove, Quiet
  <2> QED
    BY <2>1, QuietStep
<1>16. CASE SeekStore(t)
  <2>1. /\ mtx = t /\ mtx' = None /\ pc' = [pc EXCEPT ![t] = "idle"]
        /\ pointer' = Tell /\ spans' = {} /\ UNCHANGED <<pos, bits, twice>>
        /\ op' = [op EXCEPT ![t] = NoOp]
    BY <1>16 DEF SeekStore
  <2>2. Tell \in -1..(MaxSize + 1) /\ Frontier' = Tell
    BY <2>1 DEF Tell, Frontier, Advance, StreamInv, StreamTypes
  <2>3. Transfers'
    BY <2>1, <2>2 DEF Transfers
  <2> QED
    BY <2>1, <2>2, <2>3 DEF StreamInv, StreamTypes, SpansEnd, RangesAdjacent
<1>17. CASE IsDir(t)
  <2>1. Still(t)
    BY <1>17 DEF IsDir, Still
  <2> QED
    BY <2>1, StillStep
<1>18. CASE IsDirAnswer(t)
  <2>1. Still(t)
    BY <1>18 DEF IsDirAnswer, Still
  <2> QED
    BY <2>1, StillStep
<1>19. CASE Copy(t)
  <2>1. Still(t)
    BY <1>19 DEF Copy, Still
  <2> QED
    BY <2>1, StillStep
<1>20. CASE CopyClear(t)
  <2>1. Still(t)
    BY <1>20 DEF CopyClear, Still
  <2> QED
    BY <2>1, StillStep
<1>21. CASE CopyCreate(t)
  <2>1. Still(t)
    BY <1>21 DEF CopyCreate, Still
  <2> QED
    BY <2>1, StillStep
<1>22. CASE CopyFill(t)
  <2>1. Still(t)
    BY <1>22 DEF CopyFill, Still
  <2> QED
    BY <2>1, StillStep
<1>23. CASE Move(t)
  <2>1. Still(t)
    BY <1>23 DEF Move, Still
  <2> QED
    BY <2>1, StillStep
<1>24. CASE MoveClose(t)
  <2>1. pos' = 0 /\ file' = None /\ bits' = bits
    BY <1>24 DEF MoveClose
  <2>2. pos' \in 0..(MaxSize + 1) /\ bits' \in Bits
    BY <2>1 DEF StreamInv, StreamTypes
  <2>3. Quiet(t)
    BY <1>24, <2>1, <2>2 DEF MoveClose, Quiet, StreamInv
  <2> QED
    BY <2>3, QuietStep
<1>25. CASE MoveHold(t)
  <2>1. Still(t)
    BY <1>25 DEF MoveHold, Still
  <2> QED
    BY <2>1, StillStep
<1>26. CASE MoveRename(t)
  <2>1. Still(t)
    <3>1. /\ pc[t] = "renaming" /\ \E to \in {"reopen", "idle"} : pc' = [pc EXCEPT ![t] = to]
          /\ \E dst : op' = [op EXCEPT ![t].dst = dst]
          /\ UNCHANGED <<pointer, size, stream, spans, twice>>
      BY <1>26 DEF MoveRename
    <3>2. \A u \in Threads \ {t} : op'[u] = op[u]
      BY <3>1
    <3> QED
      BY <3>1, <3>2 DEF Still
  <2> QED
    BY <2>1, StillStep
<1>27. CASE MoveLock(t)
  <2>1. Still(t)
    BY <1>27 DEF MoveLock, Still
  <2> QED
    BY <2>1, StillStep
<1>28. CASE MoveReopen(t)
  <2>1. Quiet(t)
    <3>1. pos' \in 0..(MaxSize + 1)
      BY <1>28 DEF MoveReopen, StreamInv, StreamTypes
    <3>2. bits' \in Bits
      BY <1>28 DEF MoveReopen, StreamInv, StreamTypes
    <3>3. /\ mtx = t /\ pc[t] = "reopening" /\ pc' = [pc EXCEPT ![t] = "idle"]
          /\ op' = [op EXCEPT ![t] = NoOp] /\ UNCHANGED <<pointer, spans, twice>>
      BY <1>28 DEF MoveReopen
    <3> QED
      BY <3>1, <3>2, <3>3 DEF Quiet
  <2> QED
    BY <2>1, QuietStep
<1>29. CASE Remove(t)
  <2>1. Still(t)
    BY <1>29 DEF Remove, Still
  <2> QED
    BY <2>1, StillStep
<1>30. CASE RemoveClose(t)
  <2>1. pos' = 0 /\ file' = None /\ bits' = bits
    BY <1>30 DEF RemoveClose
  <2>2. pos' \in 0..(MaxSize + 1) /\ bits' \in Bits
    BY <2>1 DEF StreamInv, StreamTypes
  <2>3. Quiet(t)
    BY <1>30, <2>1, <2>2 DEF RemoveClose, Quiet, StreamInv
  <2> QED
    BY <2>3, QuietStep
<1>31. CASE RemoveFile(t)
  <2>1. Still(t)
    BY <1>31 DEF RemoveFile, Still
  <2> QED
    BY <2>1, StillStep
<1>32. CASE CloseCall(t)
  <2>1. Still(t)
    BY <1>32 DEF CloseCall, Still
  <2> QED
    BY <2>1, StillStep
<1>33. CASE CloseFile(t)
  <2>1. pos' = 0 /\ file' = None /\ bits' = bits
    BY <1>33 DEF CloseFile
  <2>2. pos' \in 0..(MaxSize + 1) /\ bits' \in Bits
    BY <2>1 DEF StreamInv, StreamTypes
  <2>3. Quiet(t)
    BY <1>33, <2>1, <2>2 DEF CloseFile, Quiet, StreamInv
  <2> QED
    BY <2>3, QuietStep
<1> QED
  BY <1>1, <1>2, <1>3, <1>4, <1>5, <1>6, <1>7, <1>8, <1>9, <1>10, <1>11, <1>12, <1>13, <1>14, <1>15, <1>16, <1>17, <1>18, <1>19, <1>20, <1>21, <1>22, <1>23, <1>24, <1>25, <1>26, <1>27, <1>28, <1>29, <1>30, <1>31, <1>32, <1>33 DEF Step
-----------------------------------------------------------------------------
(* The theorems.                                                            *)

\* It holds always: the fact the theorems below rest on.
THEOREM FileInvariant == Spec => []FileInv
<1>1. Init => FileInv
  BY LockInit, DiskInit, StreamInit DEF FileInv
<1>2. FileInv /\ [Next]_vars => FileInv'
  <2>1. ASSUME FileInv, Next PROVE FileInv'
    BY <2>1, LockStep, DiskStep, StreamStep DEF Next, FileInv
  <2>2. ASSUME FileInv, UNCHANGED vars PROVE FileInv'
    <3>1. UNCHANGED <<entry, size, loc, mode, pointer, isOpen, file, pos, bits, mtx, inst,
                      pc, op, spans, twice, asked>>
      BY <2>2 DEF vars
    <3>2. LockInv' /\ DiskInv'
      BY <2>2, <3>1 DEF FileInv, LockInv, LockTypes, LocksHeld, DiskInv, DiskTypes, CallsCarry
    <3>3. Frontier' = Frontier
      BY <3>1 DEF Frontier, Advance
    <3>4. StreamInv'
      BY <2>2, <3>1, <3>3 DEF FileInv, StreamInv, StreamTypes, Transfers, SpansEnd, RangesAdjacent
    <3> QED
      BY <3>2, <3>4 DEF FileInv
  <2> QED
    BY <2>1, <2>2
<1> QED
  BY <1>1, <1>2, PTL DEF Spec

\* Type correctness of all variables: among others no pointer and no position gets
\* behind the end of the disk by more than one.
THEOREM FileTypes == Spec => []TypeOK
<1>1. FileInv => TypeOK
  BY DEF FileInv, LockInv, LockTypes, DiskInv, DiskTypes, StreamInv, StreamTypes, TypeOK
<1> QED
  BY <1>1, FileInvariant, PTL

\* Threads that read and write through one object get adjacent ranges of the file
\* (read and write, default_file.cpp): mtx_ is held from the seek to the pointer
\* until the pointer is advanced.
THEOREM ReadsAndWritesAdjacent == Spec => []RangesAdjacent
<1>1. FileInv => RangesAdjacent
  BY DEF FileInv, StreamInv
<1> QED
  BY <1>1, FileInvariant, PTL

\* Which steps write to the disk.
LEMMA DiskWriters ==
  ASSUME NEW t \in Threads, Step(t)
  PROVE  /\ \/ entry' = entry
            \/ CopyClear(t) \/ CopyCreate(t) \/ MoveRename(t) \/ MoveReopen(t) \/ RemoveFile(t)
         /\ \/ size' = size
            \/ WriteData(t) \/ CopyCreate(t) \/ CopyFill(t) \/ MoveReopen(t)
  BY DEF Step, GetSize, GetSizeSeek, GetSizeTell, GetSizeBack, Read, ReadEnd, ReadData,
         ReadDone, ThrowNoSuccess, Write, WriteLock, WriteData, WriteDone, SeekCall,
         SeekMove, SeekStore, IsDir, IsDirAnswer, Copy, CopyClear, CopyFill, Move,
         MoveClose, MoveHold, MoveRename, MoveLock, Remove, RemoveClose, RemoveFile,
         CloseCall, CloseFile

\* What copy_file() copies does not change under it (copy, default_namespace_entry
\* _impl.hpp): whoever could write to the object needs mtx_, which the copy holds.
THEOREM CopyReadsOneVersion == Spec => CopyIsSnapshot
<1>1. ASSUME FileInv, NEW t \in Threads, Step(t), NEW u \in Threads, pc[u] = "copying"
      PROVE  size'[op[u].src] = size[op[u].src]
  <2> USE DEF FileInv, LockInv, LockTypes, LocksHeld, Critical, DiskInv, DiskTypes, CallsCarry
  <2>1. mtx = u /\ op[u].src \in Inodes
    BY <1>1
  <2>2. ~WriteData(t) /\ ~CopyCreate(t) /\ ~MoveReopen(t)
    BY <1>1, <2>1 DEF WriteData, CopyCreate, MoveReopen
  <2>3. CASE CopyFill(t)
    <3>1. t = u
      BY <1>1, <2>1, <2>3 DEF CopyFill
    <3> QED
      BY <1>1, <2>1, <2>3, <3>1 DEF CopyFill
  <2> QED
    BY <1>1, <2>2, <2>3, DiskWriters
<1>2. FileInv /\ [Next]_vars =>
        [\A t \in Threads : pc[t] = "copying" => size'[op[t].src] = size[op[t].src]]_vars
  BY <1>1 DEF Next
<1> QED
  BY <1>2, FileInvariant, PTL DEF Spec, CopyIsSnapshot

\* Without Overwrite and remove no file loses its last name (copy and move): the
\* target of a copy is still free when copy_file() creates it, as mtx_ is held since
\* it was looked for, and move looks and renames under one lock.
THEOREM NamesAreKept == Spec => NothingReplaced
<1>1. ASSUME FileInv, NEW t \in Threads, Step(t), ~asked', NEW i \in Inodes, Linked(i)
      PROVE  Linked(i)'
  <2> USE DEF FileInv, LockInv, LockTypes, LocksHeld, Critical, DiskInv, DiskTypes, CallsCarry, Linked
  <2>1. PICK q \in Paths : entry[q] = i
    BY <1>1
  <2>2. i # None
    OBVIOUS
  <2>3. CASE CopyClear(t)
    <3>1. entry' = entry
      BY <1>1, <2>3 DEF CopyClear, Without
    <3> QED
      BY <2>1, <3>1
  <2>4. CASE CopyCreate(t)
    <3>1. pc[t] = "copy_file" /\ op[t].dst \in Paths /\ entry[op[t].dst] = None
      BY <1>1, <2>4 DEF CopyCreate
    <3>2. entry' = entry \/ \E new \in Inodes : entry' = [entry EXCEPT ![op[t].dst] = new]
      BY <2>4 DEF CopyCreate, Unused
    <3> QED
      BY <1>1, <2>1, <2>2, <3>1, <3>2
  <2>5. CASE MoveRename(t)
    <3>1. PICK dst \in Dests, over \in BOOLEAN :
            LET p    == Target(dst, loc)
                left == Without(p, over)
                done == left[p] = None /\ left[Here] # None
            IN  /\ AtFile
                /\ entry' = IF done THEN [left EXCEPT ![p] = left[Here], ![Here] = None] ELSE left
                /\ asked' = (asked \/ over)
      BY <2>5 DEF MoveRename
    <3> DEFINE p == Target(dst, loc)
    <3>2. p \in Paths /\ Here \in Paths
      BY <1>1, <3>1, TargetIsPath, HereIsPath DEF AtFile, Dests
    <3>3. Without(p, over) = entry
      BY <1>1, <3>1 DEF Without
    <3> HIDE DEF p
    <3>4. \/ entry' = entry
          \/ /\ entry[p] = None /\ entry[Here] # None
             /\ entry' = [entry EXCEPT ![p] = entry[Here], ![Here] = None]
      BY <3>1, <3>3 DEF p
    <3>5. CASE q = Here /\ entry' # entry
      <4>1. entry'[p] = i /\ p # Here
        BY <1>1, <2>1, <2>2, <3>2, <3>4, <3>5
      <4> QED
        BY <3>2, <4>1
    <3>6. CASE q # Here \/ entry' = entry
      BY <1>1, <2>1, <2>2, <3>2, <3>4, <3>6
    <3> QED
      BY <3>5, <3>6
  <2>6. CASE MoveReopen(t)
    <3>1. \/ entry' = entry
          \/ \E j \in Openable(op[t].dst) : entry' = [entry EXCEPT ![<<"top", op[t].dst>>] = j]
      BY <2>6 DEF MoveReopen
    <3>2. \A j \in Openable(op[t].dst) :
            entry[<<"top", op[t].dst>>] # None => j = entry[<<"top", op[t].dst>>]
      BY DEF Openable
    <3> QED
      BY <1>1, <2>1, <2>2, <3>1, <3>2
  <2>7. CASE RemoveFile(t)
    <3>1. entry' = entry
      BY <1>1, <2>7 DEF RemoveFile
    <3> QED
      BY <2>1, <3>1
  <2>8. CASE entry' = entry
    BY <2>1, <2>8
  <2> QED
    BY <1>1, <2>3, <2>4, <2>5, <2>6, <2>7, <2>8, DiskWriters
<1>2. FileInv /\ [Next]_vars => [~asked' => \A i \in Inodes : Linked(i) => Linked(i)']_vars
  BY <1>1 DEF Next
<1> QED
  BY <1>2, FileInvariant, PTL DEF Spec, NothingReplaced
=============================================================================
