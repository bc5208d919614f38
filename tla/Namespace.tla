------------------------------ MODULE Namespace ------------------------------
(***************************************************************************)
(* The path-level contract of the phatdb tree: a namespace that maps each  *)
(* slash-delimited path to a node (value and version) or to Missing.       *)
(* The operations are those of spec.md section 4.8, with the two rules the *)
(* tree functions of src/phatdb/phatdb.go follow: CREATE brings missing    *)
(* ancestors into existence with version 0 and succeeds on a node whose    *)
(* version is 0, and DELETE removes a node together with its subtree.      *)
(*                                                                         *)
(* Tree.tla, which keeps the FileNode pointers, is shown to implement this *)
(* specification.                                                          *)
(***************************************************************************)
EXTENDS Naturals, Sequences, SequencesExt

CONSTANTS Name, Value, MaxDepth, NoValue, Missing

VARIABLES ns, reply

\* Paths as sequences of names: <<>> is "/", <<a, b>> is "/a/b".
Path == UNION {[1 .. k -> Name] : k \in 0 .. MaxDepth}

Present(p) == ns[p] # Missing

EmptyNode == [val |-> NoValue, ver |-> 0]

Ancestors(p) == {SubSeq(p, 1, k) : k \in 0 .. Len(p)}

Init ==
    /\ ns = [p \in Path |-> IF p = <<>> THEN EmptyNode ELSE Missing]
    /\ reply = [op |-> "none"]

Create(p, v) ==
    LET filled == [q \in Path |-> IF q \in Ancestors(p) /\ ~Present(q)
                                  THEN EmptyNode ELSE ns[q]]
    IN IF filled[p].ver # 0
       THEN /\ ns' = filled
            /\ reply' = [op |-> "create", ok |-> FALSE]
       ELSE /\ ns' = [filled EXCEPT ![p] = [val |-> v, ver |-> @.ver + 1]]
            /\ reply' = [op |-> "create", ok |-> TRUE]

Set(p, v) ==
    IF Present(p)
    THEN /\ ns' = [ns EXCEPT ![p] = [val |-> v, ver |-> @.ver + 1]]
         /\ reply' = [op |-> "set", ok |-> TRUE]
    ELSE /\ reply' = [op |-> "set", ok |-> FALSE]
         /\ UNCHANGED ns

Delete(p) ==
    IF Present(p)
    THEN /\ ns' = [q \in Path |-> IF IsPrefix(p, q) THEN Missing ELSE ns[q]]
         /\ reply' = [op |-> "delete", ok |-> TRUE]
    ELSE /\ reply' = [op |-> "delete", ok |-> FALSE]
         /\ UNCHANGED ns

Get(p) ==
    /\ reply' = [op |-> "get", res |-> ns[p]]
    /\ UNCHANGED ns

Exists(p) ==
    /\ reply' = [op |-> "exists", res |-> Present(p)]
    /\ UNCHANGED ns

Children(p) ==
    /\ reply' = [op |-> "children",
                 res |-> IF Present(p)
                         THEN {x \in Name : Len(p) < MaxDepth /\ Present(Append(p, x))}
                         ELSE Missing]
    /\ UNCHANGED ns

Next ==
    \E p \in Path :
        \/ \E v \in Value : Create(p, v) \/ Set(p, v)
        \/ Delete(p) \/ Get(p) \/ Exists(p) \/ Children(p)

Spec == Init /\ [][Next]_<<ns, reply>>
=============================================================================
