------------------------------- MODULE Advert -------------------------------
(***************************************************************************)
(* The default advert adaptor: advert entries and directories kept in an   *)
(* SQL data base that every application shares                             *)
(* (src/adaptors/default/advert: advert_database_connection.cpp,           *)
(* advert_database.hpp, advert.cpp, advertdirectory.cpp).                  *)
(*                                                                         *)
(* The tables are nodes (a tree: name, parent, is_directory), data (what   *)
(* store wrote in an entry) and metadata (the attributes); the latter two  *)
(* only as the set of the nodes that have a row.  A step that changes them *)
(* is one transaction of database_connection::execute, serialized by       *)
(* SQLite; an attempt that meets SQLITE_BUSY is rolled back and repeated,  *)
(* and all it leaves is the node id it stored through its int& argument.   *)
(* An attempt that leaves nothing at all is a stuttering step.             *)
(*                                                                         *)
(* Objects are the adaptor's instances, in one process or in several; each *)
(* caches the id of its node (node_ of class database).  Paths are normal  *)
(* forms: '.' and '..' are resolved, relative ones completed.              *)
(***************************************************************************)
EXTENDS Integers, Sequences, FiniteSets, SequencesExt, FiniteSetsExt

CONSTANTS Threads, Objects,
          Paths,      \* non-empty sequences of names
          OpenFlags,  \* the flags objects and directories are created with
          MaxNodes,   \* the largest id the data base gives to a node
          None

CreationFlags == {"Create", "CreateParents", "Exclusive"}

ASSUME AdvertAssumption ==
  /\ MaxNodes \in Nat \ {0}
  /\ Paths \subseteq Seq(STRING) \ {<<>>}
  /\ OpenFlags \subseteq SUBSET CreationFlags
  /\ None \notin Threads \cup Objects
  /\ None \notin [kind : {"entry", "dir"}, path : Paths, node : Nat, open : BOOLEAN]

Kinds  == {"entry", "dir"}
Root   == 1
NoNode == 0

Creating  == {"init_exists", "init_create", "make_exists", "make_create"}
Places    == Creating \cup
  {"idle", "init_open", "store", "set_attribute", "remove_attribute",
   "get_attribute", "retrieve", "list", "remove", "close", "exists_entry",
   "exists_directory", "remove_other", "change_dir"}

VARIABLES
  nodes,      \* table nodes: a function from the ids in use
  nextId,     \* the id SQLite gives to the next node (autoincrement)
  data,       \* table data: the nodes that have a row
  metadata,   \* table metadata: the nodes with an attribute of the application
  objs,       \* kind_, location_, node_, opened_ of each instance, or None
  mtx,        \* the thread that holds mtx_ of each instance, or None
  thr         \* what each thread does, and the arguments of its call

tables == <<nodes, nextId, data, metadata>>
vars   == <<tables, objs, mtx, thr>>

Idle == [pc |-> "idle", obj |-> None, path |-> <<>>, flags |-> {},
         kind |-> "entry", node |-> NoNode]

-----------------------------------------------------------------------------
(* Walking the tree (database_connection::find).  A node that is not a      *)
(* directory is walked through like any other.                              *)

KindOf(tree, id) == IF tree[id].dir THEN "dir" ELSE "entry"

Child(tree, parent, name) ==
  LET here == {id \in DOMAIN tree : tree[id].parent = parent /\ tree[id].name = name}
  IN  IF here = {} THEN NoNode ELSE Min(here)

Find(path) ==
  FoldLeft(LAMBDA id, name : IF id = NoNode THEN NoNode ELSE Child(nodes, id, name),
           Root, path)

\* find_entry and find_directory: a node of the other kind is an error when
\* the caller wants one, and not found otherwise.
FindKind(path, kind) ==
  LET id == Find(path) IN
  IF id # NoNode /\ KindOf(nodes, id) = kind THEN id ELSE NoNode

OtherKind(path, kind) == Find(path) # NoNode /\ FindKind(path, kind) = NoNode

\* The walk with create: part i of the path is found, or inserted.
Insert(acc, path, kind, i) ==
  LET id == Child(acc.tree, acc.id, path[i]) IN
  IF id # NoNode THEN [acc EXCEPT !.id = id]
  ELSE [tree |-> [n \in DOMAIN acc.tree \cup {acc.next} |->
                    IF n = acc.next
                      THEN [name |-> path[i], parent |-> acc.id,
                            dir |-> i < Len(path) \/ kind = "dir"]
                      ELSE acc.tree[n]],
        id   |-> acc.next,
        next |-> acc.next + 1]

\* The tree with all of the path, the id of its last part, the next free id.
WithPath(path, kind) ==
  FoldLeftDomain(LAMBDA acc, i : Insert(acc, path, kind, i),
                 [tree |-> nodes, id |-> Root, next |-> nextId], path)

\* create_entry_db and create_directory_db end without an exception; the last
\* one is that the data base is full.
Creatable(path, kind, flags) ==
  /\ "CreateParents" \in flags \/ Find(Front(path)) # NoNode
  /\ ~OtherKind(path, kind)
  /\ WithPath(path, kind).next =< MaxNodes + 1

\* remove_node: an entry alone, a directory with everything below it.
Removed(id) ==
  LET below[k \in Nat] ==
        IF k = 0 THEN {id}
        ELSE below[k - 1] \cup
             {n \in DOMAIN nodes :
                nodes[n].parent \in {m \in below[k - 1] : nodes[m].dir}}
  IN  below[Cardinality(DOMAIN nodes)]

RemoveNode(id) ==
  LET gone == Removed(id) IN
  /\ nodes' = [n \in DOMAIN nodes \ gone |-> nodes[n]]
  /\ data' = data \ gone
  /\ metadata' = metadata \ gone
  /\ UNCHANGED nextId

\* A slip for TypeOK: an id is lost with every creation.
CreateSkipping(path, kind) ==
  LET new == WithPath(path, kind) IN
  /\ nodes' = new.tree
  /\ nextId' = new.next + 1
  /\ UNCHANGED <<data, metadata>>

Create(path, kind) ==
  LET new == WithPath(path, kind) IN
  /\ nodes' = new.tree
  /\ nextId' = new.next
  /\ UNCHANGED <<data, metadata>>

-----------------------------------------------------------------------------
(* Calls                                                                    *)

Creates(flags) == flags \cap {"Create", "CreateParents"} # {}

Goto(t, place) == thr' = [thr EXCEPT ![t].pc = place]
Return(t)      == thr' = [thr EXCEPT ![t] = Idle]
At(t, place)   == thr[t].pc = place
Mine(t)        == objs[thr[t].obj]

Enters(t)  == mtx[thr[t].obj] \in {None, t}
Keeps(t)   == mtx' = [mtx EXCEPT ![thr[t].obj] = t]
Leaves(t)  == mtx' = [mtx EXCEPT ![thr[t].obj] = None]

-----------------------------------------------------------------------------
(* The constructors: test for Exclusive, creation and test for existence    *)
(* are separate accesses to the data base.                                  *)

Open(t, o, kind, path, flags) ==
  /\ At(t, "idle")
  /\ objs[o] = None

  /\ objs' = [objs EXCEPT ![o] =
                [kind |-> kind, path |-> path, node |-> NoNode, open |-> FALSE]]
  /\ thr' = [thr EXCEPT ![t] =
               [Idle EXCEPT !.obj = o, !.path = path, !.flags = flags, !.kind = kind,
                            !.pc = IF ~Creates(flags) THEN "init_open"
                                   ELSE IF "Exclusive" \in flags THEN "init_exists"
                                   ELSE "init_create"]]
  /\ UNCHANGED <<tables, mtx>>

\* The constructor throws: there is no instance.
Abandon(t) ==
  /\ objs' = [objs EXCEPT ![thr[t].obj] = None]
  /\ Return(t)

InitExists(t) ==
  /\ At(t, "init_exists")
  /\ IF Find(thr[t].path) = NoNode
       THEN Goto(t, "init_create") /\ UNCHANGED objs
       ELSE Abandon(t)
  /\ UNCHANGED <<tables, mtx>>

\* A slip for HandleIsItsNode: the path is looked up only when node_ is not
\* set yet, as in remove_db and store_data_db.
InitCreateOnce(t) ==
  /\ At(t, "init_create")
  /\ IF Mine(t).node # NoNode
       THEN Goto(t, "init_open") /\ UNCHANGED <<tables, objs>>
     ELSE IF Creatable(thr[t].path, thr[t].kind, thr[t].flags)
       THEN /\ Create(thr[t].path, thr[t].kind)
            /\ objs' = [objs EXCEPT ![thr[t].obj].node =
                          WithPath(thr[t].path, thr[t].kind).id]
            /\ Goto(t, "init_open")
       ELSE Abandon(t) /\ UNCHANGED tables
  /\ UNCHANGED mtx

InitCreate(t) ==
  /\ At(t, "init_create")
  /\ IF Creatable(thr[t].path, thr[t].kind, thr[t].flags)
       THEN /\ Create(thr[t].path, thr[t].kind)
            /\ objs' = [objs EXCEPT ![thr[t].obj].node =
                          WithPath(thr[t].path, thr[t].kind).id]
            /\ Goto(t, "init_open")
       ELSE Abandon(t) /\ UNCHANGED tables
  /\ UNCHANGED mtx

\* The creation is rolled back; node_ has the id the new node had.
InitCreateBusy(t) ==
  /\ At(t, "init_create")
  /\ Creatable(thr[t].path, thr[t].kind, thr[t].flags)
  /\ objs' = [objs EXCEPT ![thr[t].obj].node = WithPath(thr[t].path, thr[t].kind).id]
  /\ UNCHANGED <<tables, mtx, thr>>

InitOpen(t) ==
  /\ At(t, "init_open")
  /\ LET id == IF Mine(t).node # NoNode THEN Mine(t).node
               ELSE FindKind(thr[t].path, thr[t].kind)
     IN  IF id = NoNode THEN Abandon(t)
         ELSE /\ objs' = [objs EXCEPT ![thr[t].obj].node = id,
                                      ![thr[t].obj].open = TRUE]
              /\ Return(t)
  /\ UNCHANGED <<tables, mtx>>

\* The last reference is gone (destructor).
Drop(o) ==
  /\ objs[o] # None
  /\ \A t \in Threads : thr[t].obj # o
  /\ objs' = [objs EXCEPT ![o] = None]
  /\ UNCHANGED <<tables, mtx, thr>>

-----------------------------------------------------------------------------
(* Calls on the object's own node.  check_if_open and the reading of the    *)
(* location come before mtx_ is taken.                                      *)

OwnCalls(kind) ==
  {"set_attribute", "remove_attribute", "get_attribute", "remove", "close"}
    \cup (IF kind = "entry" THEN {"store", "retrieve"} ELSE {"list"})

Call(t, o, op) ==
  /\ At(t, "idle")
  /\ objs[o] # None
  /\ objs[o].open \/ op = "close"
  /\ op \in OwnCalls(objs[o].kind)
  /\ \A u \in Threads : thr[u].obj = o => ~(thr[u].pc \in {"init_exists", "init_create", "init_open"})
  /\ thr' = [thr EXCEPT ![t] = [Idle EXCEPT !.pc = op, !.obj = o, !.path = objs[o].path,
                                            !.kind = objs[o].kind]]
  /\ UNCHANGED <<tables, objs, mtx>>

\* The id the transaction works on: node_, or what the path leads to.
Id(t) ==
  IF Mine(t).node # NoNode THEN Mine(t).node
  ELSE IF thr[t].pc \in {"store", "retrieve", "list", "remove"}
    THEN FindKind(thr[t].path, thr[t].kind)
  ELSE Find(thr[t].path)

Exists(id) == id \in DOMAIN nodes     \* verify_node_exists

\* The call ends, and node_ holds the id it has worked on.
Finish(t) ==
  /\ objs' = [objs EXCEPT ![thr[t].obj].node = Id(t)]
  /\ Leaves(t)
  /\ Return(t)

\* A slip for TablesAgree: the cached node is trusted, as in set_attribute_db.
StoreUnverified(t) ==
  /\ At(t, "store") /\ Enters(t)
  /\ data' = data \cup ({Id(t)} \ {NoNode})
  /\ Finish(t)
  /\ UNCHANGED <<nodes, nextId, metadata>>

Store(t) ==
  /\ At(t, "store") /\ Enters(t)
  /\ data' = data \cup {id \in {Id(t)} : Exists(id)}
  /\ Finish(t)
  /\ UNCHANGED <<nodes, nextId, metadata>>

\* Only the id is tested, not that the node still exists.
SetAttribute(t) ==
  /\ At(t, "set_attribute") /\ Enters(t)
  /\ metadata' = metadata \cup ({Id(t)} \ {NoNode})
  /\ Finish(t)
  /\ UNCHANGED <<nodes, nextId, data>>

RemoveAttribute(t) ==
  /\ At(t, "remove_attribute") /\ Enters(t)
  /\ metadata' = metadata \ {Id(t)}
  /\ Finish(t)
  /\ UNCHANGED <<nodes, nextId, data>>

\* Of a call that reads, what counts is the id it caches: an object that was
\* closed between check_if_open and the lock gets one again.
Reads(t, op) ==
  /\ At(t, op) /\ Enters(t)
  /\ Finish(t)
  /\ UNCHANGED tables

GetAttribute(t) == Reads(t, "get_attribute")
Retrieve(t)     == Reads(t, "retrieve")
List(t)         == Reads(t, "list")

Close(t) ==
  /\ At(t, "close") /\ Enters(t)
  /\ objs' = [objs EXCEPT ![thr[t].obj].node = NoNode, ![thr[t].obj].open = FALSE]
  /\ Leaves(t)
  /\ Return(t)
  /\ UNCHANGED tables

RemoveSelf(t) ==
  /\ At(t, "remove") /\ Enters(t)
  /\ IF Exists(Id(t))
       THEN /\ RemoveNode(Id(t))
            /\ objs' = [objs EXCEPT ![thr[t].obj].node = NoNode,
                                    ![thr[t].obj].open = FALSE]
            /\ Leaves(t)
            /\ Return(t)
       ELSE Finish(t) /\ UNCHANGED tables

\* A change is rolled back; mtx_ is kept while the thread sleeps.
Busy(t) ==
  /\ thr[t].pc \in {"store", "set_attribute", "remove_attribute", "remove"}
  /\ Enters(t)
  /\ objs' = [objs EXCEPT ![thr[t].obj].node = Id(t)]
  /\ Keeps(t)
  /\ UNCHANGED <<tables, thr>>

-----------------------------------------------------------------------------
(* Calls on a directory with the path of another node                       *)

DirCall(t, o, op, path, flags) ==
  /\ At(t, "idle")
  /\ objs[o] # None
  /\ objs[o].open /\ objs[o].kind = "dir"

  /\ thr' = [thr EXCEPT ![t] = [Idle EXCEPT !.pc = op, !.obj = o, !.path = path,
                                            !.flags = flags]]
  /\ UNCHANGED <<tables, objs, mtx>>

\* remove(entry, flags): two tests and the removal are three accesses.
ExistsEntry(t) ==
  /\ At(t, "exists_entry") /\ Enters(t)
  /\ Keeps(t)
  /\ thr' = [thr EXCEPT ![t].pc = "exists_directory",
                        ![t].kind = IF FindKind(thr[t].path, "entry") # NoNode
                                      THEN "entry" ELSE "dir"]
  /\ UNCHANGED <<tables, objs>>

ExistsDirectory(t) ==
  /\ At(t, "exists_directory")
  /\ IF /\ thr[t].kind = "entry" \/ FindKind(thr[t].path, "dir") # NoNode
        /\ thr[t].kind = "dir" <=> "Recursive" \in thr[t].flags
       THEN Goto(t, "remove_other") /\ UNCHANGED mtx
       ELSE Return(t) /\ Leaves(t)
  /\ UNCHANGED <<tables, objs>>

OtherId(t) == IF thr[t].node # NoNode THEN thr[t].node
              ELSE FindKind(thr[t].path, thr[t].kind)

RemoveOther(t) ==
  /\ At(t, "remove_other")
  /\ IF Exists(OtherId(t)) THEN RemoveNode(OtherId(t)) ELSE UNCHANGED tables
  /\ Return(t) /\ Leaves(t)
  /\ UNCHANGED objs

RemoveOtherBusy(t) ==
  /\ At(t, "remove_other")
  /\ thr' = [thr EXCEPT ![t].node = OtherId(t)]
  /\ UNCHANGED <<tables, objs, mtx>>

MakeExists(t) ==
  /\ At(t, "make_exists") /\ Enters(t)
  /\ IF Find(thr[t].path) = NoNode
       THEN Goto(t, "make_create") /\ Keeps(t)
       ELSE Return(t) /\ Leaves(t)
  /\ UNCHANGED <<tables, objs>>

MakeCreate(t) ==
  /\ At(t, "make_create")
  /\ IF Creatable(thr[t].path, "dir", thr[t].flags)
       THEN Create(thr[t].path, "dir") ELSE UNCHANGED tables
  /\ Return(t) /\ Leaves(t)
  /\ UNCHANGED objs

\* Whether the directory exists is looked up; node_ follows only if it does,
\* location_ follows in any case but that of an entry with the same name.
ChangeDir(t) ==
  /\ At(t, "change_dir") /\ Enters(t)
  /\ LET id == FindKind(thr[t].path, "dir") IN
     objs' = IF OtherKind(thr[t].path, "dir") THEN objs
             ELSE [objs EXCEPT ![thr[t].obj].path = thr[t].path,
                               ![thr[t].obj].node = IF id # NoNode THEN id ELSE @]
  /\ Return(t) /\ Leaves(t)
  /\ UNCHANGED tables

-----------------------------------------------------------------------------
Step(t) ==
  \/ InitExists(t) \/ InitCreate(t) \/ InitCreateBusy(t) \/ InitOpen(t)
  \/ Store(t) \/ SetAttribute(t) \/ RemoveAttribute(t)
  \/ GetAttribute(t) \/ Retrieve(t) \/ List(t) \/ Close(t)
  \/ RemoveSelf(t) \/ Busy(t)
  \/ ExistsEntry(t) \/ ExistsDirectory(t) \/ RemoveOther(t) \/ RemoveOtherBusy(t)
  \/ MakeExists(t) \/ MakeCreate(t) \/ ChangeDir(t)

Begin(t) ==
  \E o \in Objects :
    \/ \E kind \in Kinds, path \in Paths, flags \in OpenFlags :
         Open(t, o, kind, path, flags)
    \/ \E op \in OwnCalls("entry") \cup OwnCalls("dir") : Call(t, o, op)
    \/ \E path \in Paths :
         \/ \E flags \in SUBSET {"Recursive"} : DirCall(t, o, "exists_entry", path, flags)
         \/ \E flags \in SUBSET {"CreateParents"} : DirCall(t, o, "make_exists", path, flags)
         \/ DirCall(t, o, "change_dir", path, {})

Init ==
  /\ nodes = [id \in {Root} |-> [name |-> "__root__", parent |-> NoNode, dir |-> TRUE]]
  /\ nextId = Root + 1
  /\ data = {} /\ metadata = {}
  /\ objs = [o \in Objects |-> None]
  /\ mtx = [o \in Objects |-> None]
  /\ thr = [t \in Threads |-> Idle]

Next ==
  \/ \E t \in Threads : Begin(t) \/ Step(t)
  \/ \E o \in Objects : Drop(o)

Spec == Init /\ [][Next]_vars

-----------------------------------------------------------------------------
Ids == Root..MaxNodes

\* Types of the tables, of the instances and of the calls.
TypeOK ==
  /\ DOMAIN nodes \subseteq Ids
  /\ \A id \in DOMAIN nodes : /\ nodes[id].parent \in 0..MaxNodes
                              /\ nodes[id].dir \in BOOLEAN
  /\ nextId \in Root + 1..MaxNodes + 1
  /\ data \subseteq Ids /\ metadata \subseteq Ids
  /\ objs \in [Objects -> {None} \cup
       [kind : Kinds, path : Paths, node : Ids \cup {NoNode}, open : BOOLEAN]]
  /\ mtx \in [Objects -> Threads \cup {None}]
  /\ thr \in [Threads ->
       [pc : Places, obj : Objects \cup {None}, path : Paths \cup {<<>>},
        flags : SUBSET (CreationFlags \cup {"Recursive"}), kind : Kinds,
        node : Ids \cup {NoNode}]]

\* An open entry never acts on a node that was created for another name: the
\* id it caches is that of its own node, dead or alive, although the
\* creation may have been rolled back and its id given to a node of another
\* client (create_entry_db assigns the id on every attempt).
HandleIsItsNode ==
  \A o \in Objects :
    LET obj == objs[o] IN
    (obj # None /\ obj.open /\ obj.kind = "entry" /\ Exists(obj.node)) =>
      /\ nodes[obj.node].name = Last(obj.path)
      /\ ~nodes[obj.node].dir

\* The tables agree with each other whatever the clients remove under each
\* other: what is stored belongs to a node that exists (store_data_db looks
\* whether its cached node is still there, remove_node takes the row along),
\* and no directory has two nodes of one name (create looks and inserts in
\* one transaction).
TablesAgree ==
  /\ \A id \in data : Exists(id)
  /\ \A m, n \in DOMAIN nodes :
       (nodes[m].parent = nodes[n].parent /\ nodes[m].name = nodes[n].name) => m = n
=============================================================================
