-------------------------------- MODULE Queue --------------------------------
(***************************************************************************)
(* The queue applier of src/phatqueue/queue_server.go: the QueueServer     *)
(* command loop, its copy-on-write flag, and the goroutine that a SNAPSHOT *)
(* starts to encode the queue while the loop goes on.                      *)
(*                                                                         *)
(* mq is a pointer: the model keeps a heap of MessageQueue objects and the *)
(* object mq points to.  encodeFunc is a closure over the variable mq, so  *)
(* the goroutine reads mq when it runs, not when it is started.            *)
(*                                                                         *)
(* MessageQueue itself is not under src/; its operations follow spec.md    *)
(* section 4.8: PUSH appends, POP moves the head to the in-progress set,   *)
(* DONE removes a message from that set.                                   *)
(***************************************************************************)
EXTENDS Integers, Sequences, FiniteSets

CONSTANTS
    Msg,              \* message values, as model values
    MaxCmds,          \* bound on the requests the loop takes
    MaxSnaps,         \* bound on SNAPSHOT requests (and so on copies)
    UseCopyOnWrite    \* the USE_COPY_ON_WRITE constant

ObjId == 0 .. MaxSnaps

VARIABLES
    heap,         \* ObjId -> MessageQueue contents, for allocated objects
    mq,           \* the object the loop's variable mq points to
    copyOnWrite,  \* the loop's copyOnWrite flag, shared with encodeFunc
    enc,          \* running encodeFunc goroutines
    hist,         \* hist[i + 1]: the queue after the first i requests
    snaps,        \* snapshots sent on request.Done: [idx, data]
    used          \* messages pushed so far (each PUSH carries a new one)

vars == <<heap, mq, copyOnWrite, enc, hist, snaps, used>>

EmptyQueue == [pending |-> <<>>, inProgress |-> {}]

\* Requests taken so far: the index the SNAPSHOT callback reports.
Index == Len(hist) - 1
-----------------------------------------------------------------------------
(* MessageQueue, spec_modelled.                                            *)
MQPush(q, v) == [q EXCEPT !.pending = Append(@, v)]

MQPop(q) ==
    IF q.pending = <<>> THEN q
    ELSE [pending |-> Tail(q.pending), inProgress |-> q.inProgress \cup {Head(q.pending)}]

MQDone(q, v) == [q EXCEPT !.inProgress = @ \ {v}]
-----------------------------------------------------------------------------
Init ==
    /\ heap = [o \in {0} |-> EmptyQueue]
    /\ mq = 0
    /\ copyOnWrite = FALSE
    /\ enc = {}
    /\ hist = <<EmptyQueue>>
    /\ snaps = {}
    /\ used = {}

\* One turn of the loop for a writing command: when copyOnWrite is set,
\* mq = mq.Copy() (a fresh object with the same contents) and the flag is
\* cleared; then the object mq points to takes the new contents q.
Write(q) ==
    LET new == Cardinality(DOMAIN heap)
        tgt == IF copyOnWrite THEN new ELSE mq
        h1  == IF copyOnWrite
               THEN [o \in DOMAIN heap \cup {new} |-> IF o = new THEN heap[mq] ELSE heap[o]]
               ELSE heap
    IN /\ heap' = [h1 EXCEPT ![tgt] = q]
       /\ mq' = tgt
       /\ copyOnWrite' = FALSE
       /\ hist' = Append(hist, heap'[tgt])

Push(v) ==
    /\ Index < MaxCmds
    /\ v \notin used
    /\ Write(MQPush(heap[mq], v))
    /\ used' = used \cup {v}
    /\ UNCHANGED <<enc, snaps>>

Pop ==
    /\ Index < MaxCmds
    /\ Write(MQPop(heap[mq]))
    /\ UNCHANGED <<enc, snaps, used>>

Done(v) ==
    /\ Index < MaxCmds
    /\ v \in used
    /\ Write(MQDone(heap[mq], v))
    /\ UNCHANGED <<enc, snaps, used>>

\* LEN, LEN_IN_PROGRESS and unknown commands read the queue and answer.
Read ==
    /\ Index < MaxCmds
    /\ hist' = Append(hist, heap[mq])
    /\ UNCHANGED <<heap, mq, copyOnWrite, enc, snaps, used>>

\* SNAPSHOT: read the index, then set the flag and start encodeFunc
\* (USE_COPY_ON_WRITE), or run encodeFunc in the loop.
Snapshot ==
    /\ Index < MaxCmds
    /\ Cardinality(snaps) + Cardinality(enc) < MaxSnaps
    /\ hist' = Append(hist, heap[mq])
    /\ IF UseCopyOnWrite
       THEN /\ copyOnWrite' = TRUE
            /\ enc' = enc \cup {[idx |-> Index, snap |-> -1]}
            /\ UNCHANGED snaps
       ELSE /\ snaps' = snaps \cup {[idx |-> Index, data |-> heap[mq]]}
            /\ copyOnWrite' = FALSE
            /\ UNCHANGED enc
    /\ UNCHANGED <<heap, mq, used>>

\* encodeFunc, first statement: mq_snap := mq.
EncodeStart(e) ==
    /\ e.snap = -1
    /\ enc' = (enc \ {e}) \cup {[e EXCEPT !.snap = mq]}
    /\ UNCHANGED <<heap, mq, copyOnWrite, hist, snaps, used>>

\* encodeFunc, the rest: Bytes of the object read, the reply on
\* request.Done with the index taken by the loop, copyOnWrite = false.
EncodeFinish(e) ==
    /\ e.snap # -1
    /\ snaps' = snaps \cup {[idx |-> e.idx, data |-> heap[e.snap]]}
    /\ enc' = enc \ {e}
    /\ copyOnWrite' = FALSE
    /\ UNCHANGED <<heap, mq, hist, used>>

Next ==
    \/ \E v \in Msg : Push(v)
    \/ Pop
    \/ \E v \in Msg : Done(v)
    \/ Read
    \/ Snapshot
    \/ \E e \in enc : EncodeStart(e)
    \/ \E e \in enc : EncodeFinish(e)

Spec == Init /\ [][Next]_vars
-----------------------------------------------------------------------------
TypeOK ==
    /\ DOMAIN heap \subseteq ObjId
    /\ mq \in DOMAIN heap
    /\ copyOnWrite \in BOOLEAN
    /\ used \subseteq Msg

\* A snapshot is the queue as it was at the index sent with it: a replica
\* that installs it and replays the log from that index rebuilds the queue.
SnapshotConsistent ==
    \A s \in snaps : s.data = hist[s.idx + 1]
=============================================================================
