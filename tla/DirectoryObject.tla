-------------------------- MODULE DirectoryObject --------------------------
(***************************************************************************)
(* One directory object of the default file adaptor, shared by threads:    *)
(* src/adaptors/default/file/default_namespace_dir_impl.hpp, its helpers   *)
(* in common_helpers.hpp and what they use of Boost.Filesystem.            *)
(*                                                                         *)
(* Two locks guard it: the mutex of the instance data (inst), which most   *)
(* operations hold from their first to their last line, and mtx_, which    *)
(* those hold that look at the file system before they change it.  The     *)
(* operations with wildcards hold only mtx_, and take inst for a moment    *)
(* for every entry they have found.                                        *)
(*                                                                         *)
(* The file system is a tree: a function from the paths that exist to Dir  *)
(* or to the content of a file.  Paths are absolute and normal.  A         *)
(* directory is read in one go and its entries come in any order; a        *)
(* subtree is removed, and a file filled, in one step.                     *)
(***************************************************************************)
EXTENDS Naturals, Sequences, FiniteSets, SequencesExt

CONSTANTS Threads, Names,
          MaxDepth,      \* bound: no path is longer, as with PATH_MAX
          Contents,      \* what files contain
          Trees,         \* the file systems there may be at first
          Requests,      \* the calls threads make
          Dir, Empty, None

Flags == {"Overwrite", "Recursive", "Create", "CreateParents"}
Paths == UNION {[1..n -> Names] : n \in 0..MaxDepth}

\* A file system is a tree: what holds an entry is a directory.
FileSystem(b) ==
  /\ DOMAIN b \subseteq Paths /\ b \in [DOMAIN b -> Contents \cup {Dir}]
  /\ <<>> \in DOMAIN b /\ b[<<>>] = Dir
  /\ \A p \in DOMAIN b \ {<<>>} : Front(p) \in DOMAIN b /\ b[Front(p)] = Dir

\* A call with wildcards has the names its pattern selects in place of src; only
\* a pattern that begins with a star selects any, as it is matched with paths.
\* Bound: nobody removes the root, or has it overwritten.
ASSUME DirectoryAssumption ==
  /\ MaxDepth \in Nat
  /\ Dir \notin Contents /\ Empty \in Contents /\ None \notin Threads
  /\ \A r \in Requests :
       /\ r \in [call : {"copy", "move", "remove", "remove_self", "make_dir", "change_dir"},
                 wild : BOOLEAN, names : SUBSET Names, src : Paths, dst : Paths,
                 flags : SUBSET Flags]
       /\ r.call = "remove_self" => "Recursive" \in r.flags
       /\ r.call = "remove" /\ ~r.wild => r.src # <<>>
       /\ "Overwrite" \in r.flags => r.dst # <<>>
  /\ \A b \in Trees : FileSystem(b)

VARIABLES
  tree,     \* the file system
  loc,      \* location_
  isOpen,   \* is_open_
  inst,     \* the thread that holds the mutex of the instance data, or None
  mtx,      \* the thread that holds mtx_, or None
  thr,      \* what each thread does
  before    \* ghost: the tree a copy of a directory began with, or None if
            \* another thread has changed the tree since

vars == <<tree, loc, isOpen, inst, mtx, thr, before>>

Idle == [pc |-> "idle", req |-> None, from |-> <<>>, to |-> <<>>, dirTo |-> FALSE,
         at |-> <<>>, todo |-> {}, stack |-> <<>>]

-----------------------------------------------------------------------------
(* The tree, and what Boost.Filesystem does to it.                          *)

Exists(p)   == p \in DOMAIN tree
IsDir(p)    == Exists(p) /\ tree[p] = Dir
IsFile(p)   == Exists(p) /\ tree[p] # Dir
Children(p) == {n \in Names : Exists(Append(p, n))}
Parent(p)   == Front(p)
OnlyThat(p) == {p}                                      \* mutant: no recursion
Below(p)    == {q \in DOMAIN tree : IsPrefix(p, q)}

Put(p, what)  == [q \in DOMAIN tree \cup {p} |-> IF q = p THEN what ELSE tree[q]]
Without(gone)  == [q \in DOMAIN tree \ gone |-> tree[q]]
Tail2(p, q)   == SubSeq(q, Len(p) + 1, Len(q))         \* q relative to p
Rename(p, to) ==
  LET moved == {to \o Tail2(p, q) : q \in Below(p)}
  IN  [q \in (DOMAIN tree \ Below(p)) \cup moved |->
         IF q \in moved THEN tree[p \o Tail2(to, q)] ELSE tree[q]]

Fits(p)   == Len(p) <= MaxDepth
Room(p)   == Fits(p) /\ IsDir(Parent(p))
\* remove(): a file or an empty directory.
Removable(p) == IsDir(p) => Children(p) = {}

\* create_directories(): every directory on the way to p.
Creatable(p) == Fits(p) /\ \A q \in Paths : IsPrefix(q, p) => ~IsFile(q)
WithParents(p) ==
  [q \in DOMAIN tree \cup {r \in Paths : IsPrefix(r, p)} |->
     IF Exists(q) THEN tree[q] ELSE Dir]

\* copy_file(): the target is new; what is read from a directory is nothing.
CanCopy(p, to) == Exists(p) /\ ~Exists(to) /\ Room(to)
CopyFile(p, to) == Put(to, IF IsDir(p) THEN Empty ELSE tree[p])

\* rename(2): a file may replace a file, a directory an empty directory.
CanRename(p, to) ==
  /\ Exists(p) /\ Room(to) /\ ~IsPrefix(p, to)
  /\ \A q \in Below(p) : Fits(to \o Tail2(p, q))
  /\ Exists(to) => IsDir(to) = IsDir(p) /\ Removable(to)

-----------------------------------------------------------------------------
(* Steps of a call.  An exception unlocks what the thread has locked.       *)

At(t, pc) == thr[t].pc = pc
Keep      == UNCHANGED <<inst, mtx>>

Unlock(t) == /\ inst' = IF inst = t THEN None ELSE inst
             /\ mtx'  = IF mtx = t THEN None ELSE mtx

End(t) == thr' = [thr EXCEPT ![t] = Idle] /\ Unlock(t)

\* The end of one operation: of the call, or of one entry of a wildcard.
Done(t) ==
  IF thr[t].req.wild
  THEN thr' = [thr EXCEPT ![t] = [Idle EXCEPT !.pc = "next", !.req = thr[t].req,
                                              !.at = thr[t].at, !.todo = thr[t].todo]]
       /\ Keep
  ELSE End(t)

Goto(t, pc) == thr' = [thr EXCEPT ![t].pc = pc]

Becomes(new) == tree' = new
SameTree == UNCHANGED tree
Object   == <<loc, isOpen>>
Flag(t, f) == f \in thr[t].req.flags
Do(t, call) == thr[t].req.call = call

-----------------------------------------------------------------------------
(* The beginning of the calls, and what is not about the tree.              *)

Begin(t, call, pc) ==
  /\ At(t, "idle") /\ inst = None /\ inst' = t
  /\ \E r \in Requests :
       /\ r.call = call /\ ~r.wild
       /\ thr' = [thr EXCEPT ![t] = [Idle EXCEPT !.pc = pc, !.req = r,
                                                !.from = r.src, !.to = r.dst]]
  /\ UNCHANGED <<mtx, Object>> /\ SameTree

CopyCall(t)       == isOpen /\ Begin(t, "copy", "lock")
MoveCall(t)       == isOpen /\ Begin(t, "move", "look")
MakeDirCall(t)    == isOpen /\ Begin(t, "make_dir", "make_dir")
ChangeDirCall(t)  == isOpen /\ Begin(t, "change_dir", "lock")
\* remove() of the directory the object is; Recursive is required.
RemoveSelfCall(t) == isOpen /\ Begin(t, "remove_self", "remove_self")
\* remove(url) does not look whether the object is open.
RemoveCall(t)     == Begin(t, "remove", "lock")

\* mtx_, "to avoid race conditions between exists and the operation".
AfterLock == [copy |-> "look", move |-> "clear", remove |-> "remove_check",
              change_dir |-> "change_dir"]
Lock(t) ==
  /\ At(t, "lock") /\ mtx = None /\ mtx' = t
  /\ Goto(t, AfterLock[thr[t].req.call])
  /\ UNCHANGED <<inst, Object>> /\ SameTree

ChangeDir(t) ==
  /\ At(t, "change_dir")
  /\ loc' = IF IsDir(thr[t].from) THEN thr[t].from ELSE loc
  /\ End(t) /\ UNCHANGED isOpen /\ SameTree

\* create_directory() of a directory that is there is no error; the flags are
\* not looked at, and no mutex but that of the instance data is held.
MakeDir(t) ==
  LET p == thr[t].from IN
  /\ At(t, "make_dir")
  /\ Becomes(IF ~Exists(p) /\ Room(p) THEN Put(p, Dir) ELSE tree)
  /\ End(t) /\ UNCHANGED Object

\* Bound: the root is not removed.
RemoveSelf(t) ==
  /\ At(t, "remove_self")
  /\ Becomes(IF loc = <<>> THEN tree ELSE Without(Below(loc)))
  /\ End(t) /\ UNCHANGED Object

Close == isOpen /\ isOpen' = FALSE /\ UNCHANGED <<tree, loc, inst, mtx, thr>>

-----------------------------------------------------------------------------
(* Wildcards: the entries of the directory the object was in.               *)

BeginWild(t, call) ==
  /\ At(t, "idle") /\ isOpen /\ inst = None
  /\ \E r \in Requests :
       /\ r.call = call /\ r.wild
       /\ thr' = [thr EXCEPT ![t] = [Idle EXCEPT !.pc = "wild_lock", !.req = r, !.at = loc]]
  /\ UNCHANGED Object /\ Keep /\ SameTree

CopyWildcard(t)   == BeginWild(t, "copy")
MoveWildcard(t)   == BeginWild(t, "move")
RemoveWildcard(t) == BeginWild(t, "remove")

WildUnlocked(t) == TRUE                                 \* mutant: no mtx_
WildLockFree(t) == mtx = None
WildLock(t) ==
  /\ At(t, "wild_lock") /\ WildLockFree(t)
  /\ IF IsDir(thr[t].at)
     THEN /\ thr' = [thr EXCEPT ![t].pc = "next",
                                ![t].todo = Children(thr[t].at) \cap thr[t].req.names]
          /\ mtx' = t /\ UNCHANGED inst
     ELSE End(t)
  /\ UNCHANGED Object /\ SameTree

WildNext(t) ==
  /\ At(t, "next")
  /\ IF thr[t].todo = {} \/ ~isOpen
     THEN End(t) /\ (thr[t].todo # {} => inst = None)
     ELSE /\ inst = None
          /\ \E n \in thr[t].todo :
               thr' = [thr EXCEPT ![t].pc = IF Do(t, "remove") THEN "remove_check" ELSE "look",
                                  ![t].todo = @ \ {n},
                                  ![t].from = Append(thr[t].at, n),
                                  ![t].to = thr[t].req.dst]
          /\ Keep
  /\ UNCHANGED Object /\ SameTree

-----------------------------------------------------------------------------
(* Moving an entry, and copying a file.                                     *)

\* What is where: before mtx_ is taken in move.  A file goes into a directory.
Look(t) ==
  LET from == thr[t].from  to == thr[t].to
      into == ~IsDir(from) /\ IsDir(to)
  IN
  /\ At(t, "look")
  /\ IF Do(t, "copy") /\ IsDir(from)
     THEN /\ thr' = [thr EXCEPT ![t].pc = "enter",
                                ![t].stack = <<[src |-> from, dst |-> to, left |-> {}, cur |-> None]>>]
     ELSE /\ thr' = [thr EXCEPT ![t].pc = IF Do(t, "move") /\ ~thr[t].req.wild
                                          THEN "lock" ELSE "clear",
                                ![t].to = IF into THEN Append(to, Last(from)) ELSE to,
                                ![t].dirTo = IsDir(to)]
  /\ UNCHANGED Object /\ Keep /\ SameTree

\* All but a copy without wildcards remove whole directories and look again.
Checks(t) == Do(t, "move") \/ thr[t].req.wild

\* Overwrite: what is at the target goes.
Clear(t) ==
  LET to   == thr[t].to
      next == IF Checks(t) THEN "check" ELSE "copy_file"
  IN
  /\ At(t, "clear")
  /\ IF ~Flag(t, "Overwrite") \/ ~Exists(to) THEN Goto(t, next) /\ SameTree /\ Keep
     ELSE IF (Checks(t) /\ thr[t].dirTo) \/ Removable(to)
     THEN Goto(t, next) /\ Becomes(Without(Below(to))) /\ Keep
     ELSE End(t) /\ SameTree
  /\ UNCHANGED Object

\* The look of rename(), before it calls rename(2), is this one once more.
Check(t) ==
  /\ At(t, "check")
  /\ IF Exists(thr[t].to) THEN End(t)
     ELSE Goto(t, IF Do(t, "move") THEN "rename" ELSE "copy_file") /\ Keep
  /\ UNCHANGED Object /\ SameTree

RenameEntry(t) ==
  LET from == thr[t].from  to == thr[t].to IN
  /\ At(t, "rename")
  /\ IF CanRename(from, to) THEN Becomes(Rename(from, to)) /\ Done(t)
     ELSE SameTree /\ End(t)
  /\ UNCHANGED Object

CopyEntry(t) ==
  LET from == thr[t].from  to == thr[t].to IN
  /\ At(t, "copy_file")
  /\ IF CanCopy(from, to) THEN Becomes(CopyFile(from, to)) ELSE SameTree
  /\ IF CanCopy(from, to) /\ ~IsDir(from) THEN Done(t) ELSE End(t)
  /\ UNCHANGED Object

-----------------------------------------------------------------------------
(* Copying a directory (copy_directory); the top of the stack is the call   *)
(* of it that is active.                                                    *)

Top(t) == Head(thr[t].stack)
Nested(t) == Len(thr[t].stack) > 1

Enter(t) ==
  LET to      == Top(t).dst
      parents == Flag(t, "CreateParents") \/ Nested(t)
      one     == Flag(t, "Create")
  IN
  /\ At(t, "enter")
  /\ IF Exists(to) \/ ~(parents \/ one) THEN Goto(t, "open") /\ Keep /\ SameTree
     ELSE IF parents /\ Creatable(to)
     THEN Goto(t, "open") /\ Keep /\ Becomes(WithParents(to))
     ELSE IF ~parents /\ Room(to)
     THEN Goto(t, "open") /\ Keep /\ Becomes(Put(to, Dir))
     ELSE End(t) /\ SameTree
  /\ UNCHANGED Object

\* The entries go beside the target when that is a file.
OpenDir(t) ==
  LET to == Top(t).dst IN
  /\ At(t, "open")
  /\ IF Exists(to) /\ IsDir(Top(t).src)
     THEN /\ thr' = [thr EXCEPT ![t].pc = "entries", ![t].stack[1] =
               [@ EXCEPT !.dst = IF IsDir(to) THEN to ELSE Parent(to),
                         !.left = Children(Top(t).src)]]
          /\ Keep
     ELSE End(t)
  /\ UNCHANGED Object /\ SameTree

\* A directory is entered or skipped, anything else copied.
\* DescendsInverted is a mutant.
DescendsInverted(t) == ~Flag(t, "Recursive")
Descends(t) == Flag(t, "Recursive")
Entry(t) ==
  /\ At(t, "entries")
  /\ \E n \in Top(t).left :
       LET from == Append(Top(t).src, n)
           rest == [thr[t].stack EXCEPT ![1].left = @ \ {n}]
           sub  == [src |-> from, dst |-> Append(Top(t).dst, n), left |-> {}, cur |-> None]
       IN  thr' = [thr EXCEPT
             ![t].pc = IF ~IsDir(from) THEN "replace"
                       ELSE IF Descends(t) THEN "enter" ELSE "entries",
             ![t].stack = IF ~IsDir(from) THEN [rest EXCEPT ![1].cur = n]
                          ELSE IF Descends(t) THEN <<sub>> \o rest ELSE rest]
  /\ UNCHANGED Object /\ Keep /\ SameTree

Replace(t) ==
  LET to == Append(Top(t).dst, Top(t).cur) IN
  /\ At(t, "replace")
  /\ IF ~Flag(t, "Overwrite") \/ ~Exists(to) THEN Goto(t, "fill") /\ Keep /\ SameTree
     ELSE IF Removable(to) THEN Goto(t, "fill") /\ Keep /\ Becomes(Without({to}))
     ELSE End(t) /\ SameTree
  /\ UNCHANGED Object

Fill(t) ==
  LET from == Append(Top(t).src, Top(t).cur)
      to   == Append(Top(t).dst, Top(t).cur)
  IN
  /\ At(t, "fill")
  /\ IF CanCopy(from, to) THEN Becomes(CopyFile(from, to)) ELSE SameTree
  /\ IF CanCopy(from, to) /\ ~IsDir(from)
     THEN thr' = [thr EXCEPT ![t].pc = "entries", ![t].stack[1].cur = None] /\ Keep
     ELSE End(t)
  /\ UNCHANGED Object

Leave(t) ==
  /\ At(t, "entries") /\ Top(t).left = {}
  /\ IF Nested(t) THEN thr' = [thr EXCEPT ![t].stack = Tail(@)] /\ Keep ELSE Done(t)
  /\ UNCHANGED Object /\ SameTree

-----------------------------------------------------------------------------
(* remove(url)                                                              *)

RemoveCheck(t) ==
  LET p == thr[t].from IN
  /\ At(t, "remove_check")
  /\ IF ~Exists(p) \/ (~Removable(p) /\ thr[t].req.flags # {"Recursive"})
     THEN End(t)
     ELSE thr' = [thr EXCEPT ![t].pc = "remove_do", ![t].dirTo = IsDir(p)] /\ Keep
  /\ UNCHANGED Object /\ SameTree

RemoveDo(t) ==
  LET p == thr[t].from IN
  /\ At(t, "remove_do")
  /\ IF Exists(p) /\ (thr[t].dirTo \/ Removable(p))
     THEN Becomes(Without(Below(p))) /\ Done(t)
     ELSE SameTree /\ IF Exists(p) THEN End(t) ELSE Done(t)
  /\ UNCHANGED Object

-----------------------------------------------------------------------------
Step(t) ==
  \/ CopyCall(t) \/ MoveCall(t) \/ MakeDirCall(t) \/ ChangeDirCall(t)
  \/ RemoveSelfCall(t) \/ RemoveCall(t)
  \/ CopyWildcard(t) \/ MoveWildcard(t) \/ RemoveWildcard(t)
  \/ Lock(t) \/ ChangeDir(t) \/ MakeDir(t) \/ RemoveSelf(t)
  \/ WildLock(t) \/ WildNext(t)
  \/ Look(t) \/ Clear(t) \/ Check(t) \/ RenameEntry(t) \/ CopyEntry(t)
  \/ Enter(t) \/ OpenDir(t) \/ Entry(t) \/ Replace(t) \/ Fill(t) \/ Leave(t)
  \/ RemoveCheck(t) \/ RemoveDo(t)

Init ==
  /\ tree \in Trees
  /\ loc = <<>> /\ isOpen = TRUE
  /\ inst = None /\ mtx = None
  /\ thr = [t \in Threads |-> Idle]
  /\ before = [t \in Threads |-> None]

\* The ghost: the copy of a directory begins with Look and ends with its stack.
Recall(t) ==
  before' = [u \in Threads |->
    IF u # t THEN IF tree' = tree THEN before[u] ELSE None
    ELSE IF thr'[t].stack = <<>> THEN None
    ELSE IF thr[t].stack = <<>> THEN tree ELSE before[t]]

Next == \/ Close /\ UNCHANGED before
        \/ \E t \in Threads : Step(t) /\ Recall(t)

Spec == Init /\ [][Next]_vars

-----------------------------------------------------------------------------
(* Properties                                                               *)

Places == {"idle", "look", "lock", "clear", "check", "rename", "copy_file", "enter",
           "open", "entries", "replace", "fill", "remove_check", "remove_do",
           "change_dir", "make_dir", "remove_self", "wild_lock", "next"}

Frames == [src : Seq(Names), dst : Seq(Names), left : SUBSET Names,
           cur : Names \cup {None}]

\* Types; what the calls do keeps the file system a tree.
TypeOK ==
  /\ FileSystem(tree)
  /\ loc \in Paths /\ isOpen \in BOOLEAN
  /\ inst \in Threads \cup {None} /\ mtx \in Threads \cup {None}
  /\ thr \in [Threads -> [pc : Places, req : Requests \cup {None},
                          from : Seq(Names), to : Seq(Names), dirTo : BOOLEAN,
                          at : Paths, todo : SUBSET Names, stack : Seq(Frames)]]

\* What a copy of directory s to d makes of the tree b it began with, if no file
\* stands where a directory is to be: everything below s (its files only, unless
\* the copy is recursive) is below d as well, and all else is as it was.
Copied(b, s, d, recursive) ==
  LET rels == {Tail2(s, q) : q \in {p \in DOMAIN b :
                 /\ IsStrictPrefix(s, p)
                 /\ recursive \/ (b[p] # Dir /\ Parent(p) = s)}}
      new  == {d \o r : r \in rels}
  IN  [q \in DOMAIN b \cup new \cup {p \in Paths : IsPrefix(p, d)} |->
         IF q \in new THEN b[s \o Tail2(d, q)]
         ELSE IF q \in DOMAIN b THEN b[q] ELSE Dir]

FileInTheWay(b, s, d) ==
  \E q \in DOMAIN b : /\ IsPrefix(s, q) /\ b[q] = Dir
                      /\ d \o Tail2(s, q) \in DOMAIN b
                      /\ b[d \o Tail2(s, q)] # Dir

\* A copy of a directory that gets to its end has copied what was there when it
\* began, and nothing else, in whichever order the entries came, unless a
\* thread has changed the tree meanwhile: copy_directory with its recursion.
CopyIsUnion ==
  \A t \in Threads :
    LET s == thr[t].from  d == thr[t].to IN
    /\ At(t, "entries") /\ ~Nested(t) /\ Top(t).left = {}
    /\ before[t] # None
    /\ ~IsPrefix(s, d) /\ ~IsPrefix(d, s)
    /\ ~FileInTheWay(before[t], s, d)
    => tree = Copied(before[t], s, d, Flag(t, "Recursive"))

\* What no call but one with Overwrite or Recursive, the removal of the whole
\* directory, or the removal of a file may do: to make the content of a file
\* vanish.  The target of a move that was free when the move looked is still
\* free when it renames, whatever the other threads create.
Lossy(r) == \/ "Overwrite" \in r.flags
            \/ r.call = "remove_self"
            \/ r.call = "remove" /\ "Recursive" \in r.flags
NothingLost ==
  [][\A p \in DOMAIN tree :
       (tree[p] \notin {Dir, Empty} /\ \A q \in DOMAIN tree' : tree'[q] # tree[p]) =>
         \E t \in Threads :
           /\ thr'[t] # thr[t]
           /\ Lossy(thr[t].req) \/ (Do(t, "remove") /\ thr[t].from = p)]_vars
=============================================================================
