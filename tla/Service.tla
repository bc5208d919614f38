------------------------------- MODULE Service -------------------------------
(***************************************************************************)
(* The replica core composed with the server facade of                    *)
(* src/phatRPC/phatRPC.go (RPCDB, GetMaster, the CommitFunc closure) and   *)
(* the client of src/phatclient/phatclient.go (processCallWithRetry,       *)
(* connectToMaster, NewClient).  A write (CREATE, SET, DELETE, and GET,    *)
(* which RPCDB also sends through VR) is one command; the other reads     *)
(* (CHILDREN, STAT) take RPCDB's default branch to the local database.    *)
(*                                                                         *)
(* RunVR is no longer a step of its own: RPCDB calls it, in the goroutine  *)
(* net/rpc starts for the client call, and its asserts end the process     *)
(* when they fail.  The RPCDB goroutine then blocks on the command's Done  *)
(* channel, which CommitFunc fills when the master applies the command.    *)
(***************************************************************************)
EXTENDS VR

CONSTANTS
    Client,     \* PhatClient instances, as model values
    MaxCalls    \* bound on the RPCDB calls one client sends

\* vr.NREPLICAS: the group without the master
NREPLICAS == N - 1

\* PhatClient.Id of a client NewClient has not created yet
NoServer == -1

VARIABLES
    conn,       \* PhatClient.Id: the server the client's RpcClient talks to
    masterId,   \* PhatClient.MasterId
    busy,       \* the client is inside processCallWithRetry
    req,        \* the client's current call: a write of a command, or a read
    seq,        \* RPCDB calls the client has made (identifies the dbCall)
    rpcs,       \* RPCDB requests and replies in flight
    waiting,    \* RPCDB handlers blocked on the Done channel of a command
    done,       \* commands whose call returned success to the client
    submitted   \* commands some client has sent (each call a fresh one)

clientVars == <<conn, masterId, busy, req, seq>>
svcVars == <<clientVars, rpcs, waiting, done, submitted>>
allVars == <<vars, svcVars>>

\* Server.getMasterId: View % NREPLICAS
GetMasterId(s) == view[s] % NREPLICAS

-----------------------------------------------------------------------------
(* connectToMaster, from the server the client is connected to: ask        *)
(* GetMaster of up to N servers, moving after each failure to             *)
(* (Id + i + 1) % N, where Id is the server connected to last             *)
(* (connectToServer only changes Id when rpc.Dial succeeds); then dial the *)
(* answer, keeping the old connection when that fails.                     *)
ConnectToMaster(id0, mid0) ==
    LET Ask(acc, i) ==
          IF acc.found THEN acc
          ELSE IF Live(acc.id) /\ status[acc.id] = "Normal"
          THEN [acc EXCEPT !.mid = GetMasterId(acc.id), !.found = TRUE]
          ELSE LET nxt == (acc.id + i + 1) % N
               IN [acc EXCEPT !.id = IF Live(nxt) THEN nxt ELSE acc.id]
        res == FoldLeft(Ask, [id |-> id0, mid |-> mid0, found |-> FALSE],
                        [k \in 1 .. N |-> k - 1])
        id2 == IF res.mid # res.id /\ Live(res.mid) THEN res.mid ELSE res.id
    IN [id |-> id2, mid |-> res.mid]

\* The RPCDB call of a client's request to the server it talks to.
Call(c, rq, srv) ==
    [kind |-> "call", client |-> c, seq |-> seq[c] + 1, req |-> rq, dst |-> srv]

Reply(m, ok) == [kind |-> "reply", client |-> m.client, seq |-> m.seq, ok |-> ok]
-----------------------------------------------------------------------------
ServiceInit ==
    /\ Init
    /\ conn = [c \in Client |-> NoServer]
    /\ masterId = [c \in Client |-> 0]
    /\ busy = [c \in Client |-> FALSE]
    /\ req = [c \in Client |-> [op |-> "none"]]
    /\ seq = [c \in Client |-> 0]
    /\ rpcs = {}
    /\ waiting = {}
    /\ done = {}
    /\ submitted = {}

\* NewClient(servers, id): connectToServer(id), which fails (no client)
\* when the server is down, then connectToMaster from MasterId 0.
NewClient(c, id) ==
    /\ conn[c] = NoServer
    /\ Live(id)
    /\ LET cm == ConnectToMaster(id, 0) IN
       /\ conn' = [conn EXCEPT ![c] = cm.id]
       /\ masterId' = [masterId EXCEPT ![c] = cm.mid]
    /\ UNCHANGED <<vars, busy, req, seq, rpcs, waiting, done, submitted>>

\* A client operation enters processCallWithRetry with request rq.
StartCall(c, rq) ==
    /\ conn[c] # NoServer
    /\ ~busy[c]
    /\ seq[c] < MaxCalls
    /\ busy' = [busy EXCEPT ![c] = TRUE]
    /\ req' = [req EXCEPT ![c] = rq]
    /\ seq' = [seq EXCEPT ![c] = @ + 1]
    /\ rpcs' = rpcs \cup {Call(c, rq, conn[c])}

\* Create, SetData, GetData, Delete: a fresh command.
ClientCall(c, cmd) ==
    /\ cmd \notin submitted
    /\ StartCall(c, [op |-> "write", cmd |-> cmd])
    /\ submitted' = submitted \cup {cmd}
    /\ UNCHANGED <<vars, conn, masterId, waiting, done>>

\* GetChildren, GetStats: a read.
ClientRead(c) ==
    /\ StartCall(c, [op |-> "read"])
    /\ UNCHANGED <<vars, conn, masterId, waiting, done, submitted>>

\* The timeout goroutine of processCallWithRetry fires: the call returns
\* "Timed out" and its RPC is left running.
ClientTimeout(c) ==
    /\ busy[c]
    /\ busy' = [busy EXCEPT ![c] = FALSE]
    /\ UNCHANGED <<vars, conn, masterId, req, seq, rpcs, waiting, done, submitted>>

\* dbCall.Done of the current call.  Success returns; an RPC error makes the
\* client run connectToMaster and call again (bounded by MaxCalls).
ClientReceive(m) ==
    /\ m \in rpcs
    /\ m.kind = "reply"
    /\ LET c == m.client
           cm == ConnectToMaster(conn[c], masterId[c])
       IN IF ~busy[c] \/ m.seq # seq[c]
          THEN /\ rpcs' = rpcs \ {m}
               /\ UNCHANGED <<clientVars, done>>
          ELSE IF m.ok
          THEN /\ busy' = [busy EXCEPT ![c] = FALSE]
               /\ done' = IF req[c].op = "write" THEN done \cup {req[c].cmd} ELSE done
               /\ rpcs' = rpcs \ {m}
               /\ UNCHANGED <<conn, masterId, req, seq>>
          ELSE /\ seq[c] < MaxCalls
               /\ conn' = [conn EXCEPT ![c] = cm.id]
               /\ masterId' = [masterId EXCEPT ![c] = cm.mid]
               /\ seq' = [seq EXCEPT ![c] = @ + 1]
               /\ rpcs' = (rpcs \ {m}) \cup {Call(c, req[c], cm.id)}
               /\ UNCHANGED <<busy, req, done>>
    /\ UNCHANGED <<vars, waiting, submitted>>

\* Server.RPCDB on a live server.  Not Normal, or not the master by
\* getMasterId: an error.  A write calls RunVR, whose two asserts (IsMaster
\* and OpNumber == CommitNumber) end the process when they fail; then the
\* handler waits on the command's Done channel.  Any other read goes to
\* the database goroutine directly (the TODO at line 146: no lease check)
\* and answers from what the replica has applied.
RPCDB(m) ==
    /\ m \in rpcs
    /\ m.kind = "call"
    /\ Live(m.dst)
    /\ LET s == m.dst IN
       \/ /\ status[s] # "Normal" \/ s # GetMasterId(s)
          /\ rpcs' = (rpcs \ {m}) \cup {Reply(m, FALSE)}
          /\ UNCHANGED <<vars, waiting>>
       \/ /\ status[s] = "Normal" /\ s = GetMasterId(s)
          /\ m.req.op = "read"
          /\ rpcs' = (rpcs \ {m}) \cup {Reply(m, TRUE)}
          /\ UNCHANGED <<vars, waiting>>
       \/ /\ status[s] = "Normal" /\ s = GetMasterId(s)
          /\ m.req.op = "write"
          /\ ~(MasterOf(view[s]) = s /\ opNumber[s] = commitNumber[s])
          /\ Die(s)
          /\ rpcs' = rpcs \ {m}
          /\ UNCHANGED <<replicaVars, masterVars, vcVars, rcvVars, msgs, lost,
                         clientAcked, waiting>>
       \/ /\ status[s] = "Normal" /\ s = GetMasterId(s)
          /\ m.req.op = "write"
          /\ RunVR(s, m.req.cmd)
          /\ rpcs' = rpcs \ {m}
          /\ waiting' = waiting \cup {[client |-> m.client, seq |-> m.seq,
                                       cmd |-> m.req.cmd, srv |-> s]}
    /\ UNCHANGED <<clientVars, done, submitted>>

\* Variant that answers once the command is in the master's log.
CommitReplyOnAppend(w) ==
    /\ w \in waiting
    /\ Live(w.srv)
    /\ \E i \in 1 .. Len(log[w.srv]) : log[w.srv][i] = w.cmd
    /\ waiting' = waiting \ {w}
    /\ rpcs' = rpcs \cup {Reply(w, TRUE)}
    /\ UNCHANGED <<vars, clientVars, done, submitted>>

\* CommitFunc on the master hands the result to the Done channel of the
\* command once the replica has applied it; RPCDB returns success.
CommitReply(w) ==
    /\ w \in waiting
    /\ Live(w.srv)
    /\ \E i \in 1 .. Len(applied[w.srv]) : applied[w.srv][i] = w.cmd
    /\ waiting' = waiting \ {w}
    /\ rpcs' = rpcs \cup {Reply(w, TRUE)}
    /\ UNCHANGED <<vars, clientVars, done, submitted>>

\* A call to a stopped server ends with an RPC error (connection refused).
CallRefused(m) ==
    /\ m \in rpcs
    /\ m.kind = "call"
    /\ ~Live(m.dst)
    /\ rpcs' = (rpcs \ {m}) \cup {Reply(m, FALSE)}
    /\ UNCHANGED <<vars, clientVars, waiting, done, submitted>>

\* A handler blocked on Done ends with its process: the client's call gets
\* an RPC error (connection shut down).
HandlerGone(w) ==
    /\ w \in waiting
    /\ ~Live(w.srv)
    /\ waiting' = waiting \ {w}
    /\ rpcs' = rpcs \cup {Reply(w, FALSE)}
    /\ UNCHANGED <<vars, clientVars, done, submitted>>
-----------------------------------------------------------------------------
ServiceNext ==
    \/ ReplicaNext /\ UNCHANGED svcVars
    \/ \E c \in Client, id \in Replica : NewClient(c, id)
    \/ \E c \in Client, cmd \in Command : ClientCall(c, cmd)
    \/ \E c \in Client : ClientRead(c)
    \/ \E c \in Client : ClientTimeout(c)
    \/ \E m \in rpcs : ClientReceive(m)
    \/ \E m \in rpcs : RPCDB(m)
    \/ \E w \in waiting : CommitReply(w)
    \/ \E m \in rpcs : CallRefused(m)
    \/ \E w \in waiting : HandlerGone(w)

ServiceSpec == ServiceInit /\ [][ServiceNext]_allVars

\* The replicas' fairness (VR!Fairness), and: net/rpc serves every RPCDB
\* call in a goroutine of its own; the database goroutine takes every
\* command CommitFunc puts on its input channel, so a Done channel whose
\* command the master has applied is filled; a handler whose process ended
\* has its connection closed.  Client timeouts, crashes and new clients
\* are the environment's choice and get none.
ServiceFairness ==
    /\ Fairness
    /\ WF_allVars(\E m \in rpcs : RPCDB(m))
    /\ WF_allVars(\E w \in waiting : CommitReply(w))
    /\ WF_allVars(\E w \in waiting : HandlerGone(w))

ServiceFairSpec == ServiceSpec /\ ServiceFairness
-----------------------------------------------------------------------------
\* A write a client was told succeeded is in the logs of a majority of the
\* replicas: RPCDB only answers after CommitFunc, which the master runs
\* after F PrepareOks.
AckedIsReplicated ==
    \A cmd \in done :
        Cardinality({r \in Replica : \E i \in 1 .. Len(log[r]) : log[r][i] = cmd}) >= F + 1

\* Every RPCDB handler that ran RunVR returns to its client: the Done
\* channel it blocks on is filled by CommitFunc once the command commits
\* on the master, or the connection ends with the process.  The handler
\* waits with no timeout of its own.  Spec 8.5 promises progress to a live
\* quorum, and a replica in Recovery takes no part (it neither acks a
\* Prepare nor answers a Recovery), so the promise is void while fewer than
\* F + 1 live replicas are out of Recovery.
HandlersReturn ==
    \A c \in Client, n \in 1 .. MaxCalls :
        LET Blocked == \E w \in waiting : w.client = c /\ w.seq = n
            NoQuorum == Cardinality({r \in Replica \ crashed :
                                        status[r] # "Recovery"}) < F + 1
        IN Blocked ~> (~Blocked \/ NoQuorum)

\* Local reads are served under a master lease (spec 4.7, 8.4): RPCDB
\* answers CHILDREN and STAT from its own database only while no replica
\* is in Normal status in a later view, which is what a lease granted by
\* F + 1 followers guarantees.  The code serves them on any replica that
\* is Normal and named by getMasterId, with no lease check.
LocalReadsUnderLease ==
    [][\A m \in rpcs :
         (m.kind = "call" /\ m.req.op = "read" /\ Reply(m, TRUE) \in rpcs' \ rpcs)
            => \A r \in Replica : status[r] = "Normal" => view[r] <= view[m.dst]]_allVars
=============================================================================
