-------------------------------- MODULE Tree --------------------------------
(***************************************************************************)
(* The tree functions of src/phatdb/phatdb.go, over the FileNode objects   *)
(* they link together.  A node is an object id; kids[n] is its Children    *)
(* map (Nil where a name is absent) and data[n] its DataNode: Value and    *)
(* Stats.Version.  Object 0 is the root.  Objects are never reused: Go     *)
(* allocates a fresh FileNode for each missing part, and a deleted subtree *)
(* is unreachable garbage.                                                 *)
(*                                                                         *)
(* The database goroutine (DatabaseServer) that dispatches commands to     *)
(* these functions is not under src/: each command is one atomic step, as *)
(* that goroutine takes one command at a time from its input channel.     *)
(* CVersion and NumChildren are never written by the code and are left    *)
(* out.                                                                    *)
(***************************************************************************)
EXTENDS Integers, Sequences, FiniteSets, SequencesExt

CONSTANTS Name, Value, MaxDepth, MaxNodes, MaxVersion, NoValue, Missing

Nil == -1
Root == 0
NodeId == 0 .. MaxNodes

\* GetNodePath: the parts of a path, as a sequence of names.
Path == UNION {[1 .. k -> Name] : k \in 0 .. MaxDepth}

VARIABLES
    kids,     \* FileNode.Children of each object
    data,     \* FileNode.Data: Value and Stats.Version
    next,     \* the next fresh object id
    reply,    \* what the last command returned to the caller
    crashed   \* the database goroutine panicked

vars == <<kids, data, next, reply, crashed>>

NoKids == [x \in Name |-> Nil]
-----------------------------------------------------------------------------
\* traverseToNode(root, parts, false): the object at the path, or Nil.
RECURSIVE Walk(_, _)
Walk(n, parts) ==
    IF parts = <<>> THEN n
    ELSE IF kids[n][Head(parts)] = Nil THEN Nil
    ELSE Walk(kids[n][Head(parts)], Tail(parts))

\* traverseToNode(root, parts, true): walk, linking a fresh object (empty
\* Children, Value "", Version 0) for every missing part.
RECURSIVE WalkCreate(_, _, _, _)
WalkCreate(n, parts, ks, nx) ==
    IF parts = <<>> THEN [node |-> n, kids |-> ks, next |-> nx]
    ELSE IF ks[n][Head(parts)] # Nil
    THEN WalkCreate(ks[n][Head(parts)], Tail(parts), ks, nx)
    ELSE WalkCreate(nx, Tail(parts), [ks EXCEPT ![n][Head(parts)] = nx], nx + 1)

\* Objects the walk would allocate: the parts past the longest existing prefix.
MissingParts(p) == Cardinality({k \in 1 .. Len(p) : Walk(Root, SubSeq(p, 1, k)) = Nil})
-----------------------------------------------------------------------------
Init ==
    /\ kids = [n \in NodeId |-> NoKids]
    /\ data = [n \in NodeId |-> [val |-> NoValue, ver |-> 0]]
    /\ next = 1
    /\ reply = [op |-> "none"]
    /\ crashed = FALSE

\* _setNode: Value = val, Version += 1.
SetData(d, n, v) == [d EXCEPT ![n] = [val |-> v, ver |-> @.ver + 1]]

\* createNode: walk with createMissing; ErrExist when the object's Version
\* is not 0, otherwise _setNode.  The missing parts stay linked either way.
CreateNode(p, v) ==
    LET w == WalkCreate(Root, p, kids, next) IN
    /\ next + MissingParts(p) <= MaxNodes + 1
    /\ data[w.node].ver < MaxVersion
    /\ kids' = w.kids
    /\ next' = w.next
    /\ IF data[w.node].ver # 0
       THEN /\ reply' = [op |-> "create", ok |-> FALSE]
            /\ UNCHANGED data
       ELSE /\ data' = SetData(data, w.node, v)
            /\ reply' = [op |-> "create", ok |-> TRUE]

\* setNode: ErrNotExist when the walk fails, otherwise _setNode.
SetNode(p, v) ==
    LET n == Walk(Root, p) IN
    /\ n # Nil => data[n].ver < MaxVersion
    /\ IF n = Nil
       THEN /\ reply' = [op |-> "set", ok |-> FALSE]
            /\ UNCHANGED data
       ELSE /\ data' = SetData(data, n, v)
            /\ reply' = [op |-> "set", ok |-> TRUE]
    /\ UNCHANGED <<kids, next>>

\* Variant that deletes the last part from the node's own Children.
UnlinkFromSelf(p) == [kids EXCEPT ![Walk(Root, p)][Last(p)] = Nil]

\* delete(p.Children, parts[len(parts)-1]), p the object at parts[:len(parts)-1].
Unlink(p) == [kids EXCEPT ![Walk(Root, Front(p))][Last(p)] = Nil]

\* deleteNode: walk to the node, walk again to parts[:len(parts)-1] and
\* delete the last part from that object's Children.  For "/" the slice
\* bound len(parts)-1 is -1 and the goroutine panics.
DeleteNode(p) ==
    LET n == Walk(Root, p) IN
    \/ /\ n = Nil
       /\ reply' = [op |-> "delete", ok |-> FALSE]
       /\ UNCHANGED <<kids, data, next, crashed>>
    \/ /\ n # Nil /\ p = <<>>
       /\ crashed' = TRUE
       /\ UNCHANGED <<kids, data, next, reply>>
    \/ /\ n # Nil /\ p # <<>>
       /\ kids' = Unlink(p)
       /\ reply' = [op |-> "delete", ok |-> TRUE]
       /\ UNCHANGED <<data, next, crashed>>

\* getNode: the DataNode, or ErrNotExist.
GetNode(p) ==
    LET n == Walk(Root, p) IN
    /\ reply' = [op |-> "get", res |-> IF n = Nil THEN Missing ELSE data[n]]
    /\ UNCHANGED <<kids, data, next>>

\* existsNode: whether the walk found an object.
ExistsNode(p) ==
    /\ reply' = [op |-> "exists", res |-> Walk(Root, p) # Nil]
    /\ UNCHANGED <<kids, data, next>>

\* getChildren: the keys of the object's Children, or ErrNotExist.
GetChildren(p) ==
    LET n == Walk(Root, p) IN
    /\ reply' = [op |-> "children",
                 res |-> IF n = Nil THEN Missing ELSE {x \in Name : kids[n][x] # Nil}]
    /\ UNCHANGED <<kids, data, next>>

\* The root's DataNode is set up by DatabaseServer, outside src/: CREATE,
\* SET and GET are taken on paths below the root.
Next ==
    /\ ~crashed
    /\ \E p \in Path :
          \/ p # <<>> /\ \E v \in Value : CreateNode(p, v) /\ UNCHANGED crashed
          \/ p # <<>> /\ \E v \in Value : SetNode(p, v) /\ UNCHANGED crashed
          \/ p # <<>> /\ GetNode(p) /\ UNCHANGED crashed
          \/ DeleteNode(p)
          \/ ExistsNode(p) /\ UNCHANGED crashed
          \/ GetChildren(p) /\ UNCHANGED crashed

Spec == Init /\ [][Next]_vars
-----------------------------------------------------------------------------
TypeOK ==
    /\ kids \in [NodeId -> [Name -> NodeId \cup {Nil}]]
    /\ next \in 1 .. MaxNodes + 1
    /\ crashed \in BOOLEAN

\* The namespace the objects reachable from the root spell out.
NS == INSTANCE Namespace WITH
        ns <- [p \in Path |-> IF Walk(Root, p) = Nil THEN Missing
                              ELSE data[Walk(Root, p)]]

\* The pointer-level functions implement the path-level contract: every
\* command changes and answers the namespace the reachable objects spell
\* out as Namespace says, including the subtree a DELETE unlinks and the
\* fresh Version-0 objects createNode links in for missing ancestors.
ImplementsNamespace == NS!Spec

=============================================================================
