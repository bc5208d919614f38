--------------------------------- MODULE VR ---------------------------------
(***************************************************************************)
(* The replica core of goPhat: Viewstamped Replication with master leases  *)
(* as written in src/unnamed/part_000 (package vr) and                     *)
(* src/vr/vrviewchange.go.                                                 *)
(*                                                                         *)
(* Every RPC handler of RPCReplica is one action, taken atomically: the    *)
(* Go handlers run in their own goroutines without a lock, which the       *)
(* model does not split (see README).  Timers are untimed here: the        *)
(* follower lease timer is always armed (ReplicaInit, ReplicaTimeout and   *)
(* ExtendLease only ever re-arm it), so a replica may time out at any      *)
(* moment; the master renewal timer fires once per arming.                 *)
(*                                                                         *)
(* Recovery (PrepareRecovery and its RPCs) is called by the code but not   *)
(* defined under src/; it is modelled from spec.md section 4.6.            *)
(***************************************************************************)
EXTENDS Naturals, Sequences, FiniteSets, SequencesExt

CONSTANTS
    Replica,      \* replica numbers 0 .. N-1 (index into Config)
    Command,      \* client commands, as model values
    MaxView,      \* bound on view numbers (timeouts stop there)
    MaxOp,        \* bound on op numbers the master assigns
    MaxNonce,     \* bound on recoveries started by one replica
    MaxCrash,     \* bound on replicas the environment crashes
    MaxLoss,      \* bound on messages the transport loses
    MaxRenewals   \* bound on the firings of the renewal timers

N == Cardinality(Replica)

ASSUME Replica = 0 .. (N - 1) /\ N >= 3

\* const F = 1, NREPLICAS = 2*F: the group is 2F+1 replicas.
F == (N - 1) \div 2

Statuses == {"Normal", "ViewChange", "Recovery"}

\* IsMaster: View % (NREPLICAS+1) == ReplicaNumber
MasterOf(v) == v % N

VARIABLES
    view, status, opNumber, commitNumber,  \* Rstate
    log,               \* Phatlog, as the sequence of its entries
    nilLog,            \* replicas whose Phatlog is a nil *Log
    applied,           \* commands passed to CommitFunc, in order
    acks,              \* Mstate.Replies bitmap (Mstate.A is its size)
    mTimer,            \* Mstate.Timer armed
    renewals,          \* firings of the renewal timers so far (bound only)
    svcFrom,           \* Vcstate.StartViewReplies (StartViews is its size)
    dvcFrom,           \* Vcstate.DoViewReplies (DoViews is its size)
    dvcMsgs,           \* Vcstate.DoViewChangeMsgs
    vcNormalView,      \* Vcstate.NormalView
    nonce, rcvFrom, rcvMsgs,  \* RecoveryState
    msgs,              \* requests and replies in flight
    crashed,           \* replicas whose process has stopped
    fatal,             \* replicas stopped by a failed assert (log.Fatalf)
    lost,              \* messages lost so far
    clientAcked        \* history: [index, cmd] a master returned to its client

replicaVars == <<view, status, opNumber, commitNumber, log, nilLog, applied>>
masterVars == <<acks, mTimer, renewals>>
vcVars == <<svcFrom, dvcFrom, dvcMsgs, vcNormalView>>
rcvVars == <<nonce, rcvFrom, rcvMsgs>>
envVars == <<crashed, fatal, lost, clientAcked>>
vars == <<replicaVars, masterVars, vcVars, rcvVars, msgs, envVars>>

Others(r) == Replica \ {r}

\* The zero value of DoViewChangeArgs / RecoveryResponseArgs in the arrays:
\* its Log is a nil *phatlog.Log.
NoSlot == [view |-> 0, log |-> <<>>, nilLog |-> TRUE, normalView |-> 0, op |-> 0,
           commit |-> 0]

\* Phatlog.Add(index, command): Commits[index] = command,
\* MaxIndex = max(MaxIndex, index).
LogAdd(l, i, c) == IF i > Len(l) THEN Append(l, c) ELSE [l EXCEPT ![i] = c]

\* r's Phatlog pointer is set to one that is nil or not.
SetNil(r, isNil) == IF isNil THEN nilLog \cup {r} ELSE nilLog \ {r}

\* Messages that are the return value of an RPC, not a call.
ReplyTypes == {"PrepareOk", "HeartbeatReply", "RecoveryResponse"}

\* sendAndRecv(NREPLICAS, ...) calls every replica but the sender.
Broadcast(r, m) == {[m EXCEPT !.dst = d] : d \in Others(r)}
-----------------------------------------------------------------------------
Init ==
    /\ view = [r \in Replica |-> 0]
    /\ status = [r \in Replica |-> "Normal"]
    /\ opNumber = [r \in Replica |-> 0]
    /\ commitNumber = [r \in Replica |-> 0]
    /\ log = [r \in Replica |-> <<>>]
    /\ nilLog = {}
    /\ applied = [r \in Replica |-> <<>>]
    /\ acks = [r \in Replica |-> {}]
    \* RunAsReplica: the master of view 0 calls BecomeMaster
    /\ mTimer = [r \in Replica |-> r = MasterOf(0)]
    /\ renewals = 0
    /\ svcFrom = [r \in Replica |-> {}]
    /\ dvcFrom = [r \in Replica |-> {}]
    /\ dvcMsgs = [r \in Replica |-> [i \in Replica |-> NoSlot]]
    /\ vcNormalView = [r \in Replica |-> 0]
    /\ nonce = [r \in Replica |-> 0]
    /\ rcvFrom = [r \in Replica |-> {}]
    /\ rcvMsgs = [r \in Replica |-> [i \in Replica |-> NoSlot]]
    /\ msgs = {}
    /\ crashed = {}
    /\ fatal = {}
    /\ lost = 0
    /\ clientAcked = {}
-----------------------------------------------------------------------------
(* PrepareRecovery (spec 4.6): pick a fresh nonce, enter Recovery and      *)
(* broadcast Recovery.  `out` are the messages the calling handler sends.  *)
PrepareRecovery(r, out) ==
    /\ nonce[r] < MaxNonce
    /\ status' = [status EXCEPT ![r] = "Recovery"]
    /\ nonce' = [nonce EXCEPT ![r] = @ + 1]
    /\ rcvFrom' = [rcvFrom EXCEPT ![r] = {}]
    /\ rcvMsgs' = [rcvMsgs EXCEPT ![r] = [i \in Replica |-> NoSlot]]
    /\ msgs' = out \cup Broadcast(r, [type |-> "Recovery", nonce |-> nonce[r] + 1,
                                      src |-> r, dst |-> r])

\* Variant of DoCommit without the early return on an old commit number.
DoCommitNoOldCheck(r, cn, op, lg, out) ==
    IF cn > op
    THEN /\ PrepareRecovery(r, out)
         /\ UNCHANGED <<commitNumber, applied>>
    ELSE /\ applied' = [applied EXCEPT ![r] = @ \o SubSeq(lg, commitNumber[r] + 1, cn)]
         /\ commitNumber' = [commitNumber EXCEPT ![r] = cn]
         /\ msgs' = out
         /\ UNCHANGED <<status, rcvVars>>

(* doCommit(cn) once the handler has set op number `op` and log `lg`:      *)
(* ignore an old commit, start recovery past the end of the log, otherwise *)
(* hand every entry up to cn to CommitFunc, in order.                      *)
DoCommit(r, cn, op, lg, out) ==
    IF cn <= commitNumber[r]
    THEN /\ msgs' = out
         /\ UNCHANGED <<commitNumber, applied, status, rcvVars>>
    ELSE IF cn > op
    THEN /\ PrepareRecovery(r, out)
         /\ UNCHANGED <<commitNumber, applied>>
    ELSE /\ applied' = [applied EXCEPT ![r] = @ \o SubSeq(lg, commitNumber[r] + 1, cn)]
         /\ commitNumber' = [commitNumber EXCEPT ![r] = cn]
         /\ msgs' = out
         /\ UNCHANGED <<status, rcvVars>>

Live(r) == r \notin crashed

Receive(m) == Live(m.dst) /\ m \in msgs

\* Variant of Mstate.Reset that leaves the Replies bitmap as it was.
ResetKeepReplies(r) == acks

\* MasterState.Reset: A = 0, Replies = 0.
Reset(r) == [acks EXCEPT ![r] = {}]

\* Variant where the failed assert only logs and the process goes on.
DieLogOnly(r) ==
    /\ crashed' = crashed
    /\ fatal' = fatal \cup {r}

\* the assert() of the code failed: log.Fatalf ends the process
Die(r) ==
    /\ crashed' = crashed \cup {r}
    /\ fatal' = fatal \cup {r}

\* addLog on a nil Phatlog: Log.Add dereferences the nil pointer and the
\* runtime panic ends the process.
AddToNilLog(r) ==
    /\ Die(r)
    /\ UNCHANGED <<replicaVars, masterVars, vcVars, rcvVars, lost, clientAcked>>
-----------------------------------------------------------------------------
(***************************************************************************)
(* Normal case                                                             *)
(***************************************************************************)

\* RunVR(command), reached through the server facade on a Normal master.
\* Its assert(OpNumber == CommitNumber) is taken as the guard here.
RunVR(r, c) ==
    /\ Live(r)
    /\ status[r] = "Normal"
    /\ MasterOf(view[r]) = r
    /\ opNumber[r] = commitNumber[r]
    /\ opNumber[r] < MaxOp
    /\ \/ /\ r \in nilLog
          /\ AddToNilLog(r)
          /\ UNCHANGED msgs
       \/ /\ r \notin nilLog
          /\ acks' = Reset(r)
          /\ opNumber' = [opNumber EXCEPT ![r] = @ + 1]
          /\ log' = [log EXCEPT ![r] = LogAdd(@, opNumber[r] + 1, c)]
          /\ msgs' = msgs \cup Broadcast(r, [type |-> "Prepare", view |-> view[r],
                        cmd |-> c, op |-> opNumber[r] + 1, commit |-> commitNumber[r],
                        src |-> r, dst |-> r])
          /\ UNCHANGED <<view, status, commitNumber, nilLog, applied, mTimer, renewals, vcVars,
                         rcvVars, envVars>>

\* Prepare's next op: OpNumber++, addLog, doCommit of the master's commit
\* number, and the PrepareOk reply.
AcceptPrepare(r, m, rest) ==
    IF r \in nilLog
    THEN AddToNilLog(r) /\ msgs' = rest
    ELSE /\ opNumber' = [opNumber EXCEPT ![r] = m.op]
         /\ log' = [log EXCEPT ![r] = LogAdd(@, m.op, m.cmd)]
         /\ DoCommit(r, m.commit, m.op, log'[r],
               rest \cup {[type |-> "PrepareOk", view |-> view[r], op |-> m.op,
                           src |-> r, dst |-> m.src]})
         /\ UNCHANGED <<view, nilLog, envVars>>

\* Variant of Prepare that accepts any newer op, without the gap check.
ReceivePrepareNoGapCheck(m) ==
    /\ m.type = "Prepare"
    /\ Receive(m)
    /\ LET r == m.dst
           rest == msgs \ {m}
       IN \/ /\ m.view > view[r]
             /\ PrepareRecovery(r, rest)
             /\ UNCHANGED <<view, opNumber, commitNumber, log, nilLog, applied, envVars>>
          \/ /\ \/ m.view < view[r]
                \/ m.view = view[r] /\ status[r] # "Normal"
                \/ m.view = view[r] /\ status[r] = "Normal" /\ m.op <= opNumber[r]
             /\ msgs' = rest
             /\ UNCHANGED <<replicaVars, rcvVars, envVars>>
          \/ /\ m.view = view[r] /\ status[r] = "Normal"
             /\ m.op > opNumber[r]
             /\ AcceptPrepare(r, m, rest)
    /\ UNCHANGED <<masterVars, vcVars>>

\* RPCReplica.Prepare on a backup
ReceivePrepare(m) ==
    /\ m.type = "Prepare"
    /\ Receive(m)
    /\ LET r == m.dst
           rest == msgs \ {m}
       IN \/ /\ m.view > view[r]
             /\ PrepareRecovery(r, rest)
             /\ UNCHANGED <<view, opNumber, commitNumber, log, nilLog, applied, envVars>>
          \/ /\ \/ m.view < view[r]
                \/ m.view = view[r] /\ status[r] # "Normal"
                \/ m.view = view[r] /\ status[r] = "Normal" /\ m.op <= opNumber[r]
             /\ msgs' = rest
             /\ UNCHANGED <<replicaVars, rcvVars, envVars>>
          \/ /\ m.view = view[r] /\ status[r] = "Normal"
             /\ m.op > opNumber[r] + 1
             /\ PrepareRecovery(r, rest)
             /\ UNCHANGED <<view, opNumber, commitNumber, log, nilLog, applied, envVars>>
          \/ /\ m.view = view[r] /\ status[r] = "Normal"
             /\ m.op = opNumber[r] + 1
             /\ AcceptPrepare(r, m, rest)
    /\ UNCHANGED <<masterVars, vcVars>>

\* Variant that waits for an ack from every backup.
CommitQuorumAll == F + 1

\* handlePrepareOK commits when Mstate.A reaches F: the master counts itself.
CommitQuorum == F

\* Rstate.CommitNumber once doCommit(CommitNumber + 1) has run: one more,
\* unless that op is past OpNumber and doCommit went to recovery instead.
CommitAfter(r) ==
    IF commitNumber[r] + 1 <= opNumber[r] THEN commitNumber[r] + 1 ELSE commitNumber[r]

\* handlePrepareOK, run on the master for each Prepare reply.  Heartbeat is
\* called before the op check and asserts IsMaster (always true after the
\* view check).  The F-th new ack commits the next op and sends Commit.
ReceivePrepareOk(m) ==
    /\ m.type = "PrepareOk"
    /\ Receive(m)
    /\ LET r == m.dst IN
       IF m.view # view[r] \/ m.op # opNumber[r] \/ m.src \in acks[r]
       THEN /\ msgs' = msgs \ {m}
            /\ mTimer' = IF m.view = view[r] THEN [mTimer EXCEPT ![r] = TRUE] ELSE mTimer
            /\ UNCHANGED <<replicaVars, acks, rcvVars, clientAcked>>
       ELSE /\ acks' = [acks EXCEPT ![r] = @ \cup {m.src}]
            /\ mTimer' = [mTimer EXCEPT ![r] = TRUE]
            /\ IF Cardinality(acks'[r]) = CommitQuorum
               THEN /\ DoCommit(r, commitNumber[r] + 1, opNumber[r], log[r],
                          (msgs \ {m}) \cup
                          Broadcast(r, [type |-> "Commit", view |-> view[r],
                                        commit |-> CommitAfter(r),
                                        src |-> r, dst |-> r]))
                    \* CommitFunc answers the RPCDB call waiting on the entry
                    /\ clientAcked' =
                          IF commitNumber[r] + 1 <= opNumber[r]
                          THEN clientAcked \cup {[index |-> commitNumber[r] + 1,
                                                  cmd |-> log[r][commitNumber[r] + 1]]}
                          ELSE clientAcked
               ELSE /\ msgs' = msgs \ {m}
                    /\ UNCHANGED <<commitNumber, applied, status, rcvVars, clientAcked>>
            /\ UNCHANGED <<view, opNumber, log, nilLog>>
    /\ UNCHANGED <<renewals, vcVars, crashed, fatal, lost>>

\* RPCReplica.Commit: the view checks of Prepare but no status check; the
\* lease grant goes back to the sender as a HeartbeatReply.
ReceiveCommit(m) ==
    /\ m.type = "Commit"
    /\ Receive(m)
    /\ LET r == m.dst
           rest == msgs \ {m}
       IN \/ /\ m.view > view[r]
             /\ PrepareRecovery(r, rest)
             /\ UNCHANGED <<commitNumber, applied>>
          \/ /\ m.view < view[r]
             /\ msgs' = rest
             /\ UNCHANGED <<commitNumber, applied, status, rcvVars>>
          \/ /\ m.view = view[r]
             /\ DoCommit(r, m.commit, opNumber[r], log[r],
                         rest \cup {[type |-> "HeartbeatReply", src |-> r, dst |-> m.src]})
    /\ UNCHANGED <<view, opNumber, log, nilLog, masterVars, vcVars, envVars>>

\* The handler of sendCommitMsgs: Heartbeat(replica, lease) asserts
\* IsMaster, then re-arms the renewal timer (ExtendNeedsRenewal).
ReceiveHeartbeatReply(m) ==
    /\ m.type = "HeartbeatReply"
    /\ Receive(m)
    /\ msgs' = msgs \ {m}
    /\ IF MasterOf(view[m.dst]) = m.dst
       THEN /\ mTimer' = [mTimer EXCEPT ![m.dst] = TRUE]
            /\ UNCHANGED <<crashed, fatal>>
       ELSE /\ Die(m.dst)
            /\ UNCHANGED mTimer
    /\ UNCHANGED <<replicaVars, acks, renewals, vcVars, rcvVars, lost, clientAcked>>

\* MasterNeedsRenewal: the renewal timer fires (once per arming) and the
\* replica sends Commit, whether or not it is still the master.  The timer
\* is the one source of messages without end; it fires MaxRenewals times.
MasterNeedsRenewal(r) ==
    /\ Live(r)
    /\ mTimer[r]
    /\ renewals < MaxRenewals
    /\ renewals' = renewals + 1
    /\ mTimer' = [mTimer EXCEPT ![r] = FALSE]
    /\ msgs' = msgs \cup Broadcast(r, [type |-> "Commit", view |-> view[r],
                                       commit |-> commitNumber[r], src |-> r, dst |-> r])
    /\ UNCHANGED <<replicaVars, acks, vcVars, rcvVars, envVars>>
-----------------------------------------------------------------------------
(***************************************************************************)
(* View change                                                             *)
(***************************************************************************)

\* ReplicaTimeout -> PrepareViewChange: enter ViewChange in the next view
\* and broadcast StartViewChange.  Neither the replies bitmap nor the
\* last normal view is touched.
ReplicaTimeout(r) ==
    /\ Live(r)
    /\ view[r] < MaxView
    /\ status' = [status EXCEPT ![r] = "ViewChange"]
    /\ view' = [view EXCEPT ![r] = @ + 1]
    /\ msgs' = msgs \cup Broadcast(r, [type |-> "StartViewChange",
                                       view |-> view[r] + 1, src |-> r, dst |-> r])
    /\ UNCHANGED <<opNumber, commitNumber, log, nilLog, applied, masterVars, vcVars,
                   rcvVars, envVars>>

\* StartViewChange sends DoViewChange when StartViews reaches F.
SVCQuorum == F

\* RPCReplica.StartViewChange.  A first message of a higher view is adopted
\* and re-broadcast; the F-th distinct sender makes a non-master send its
\* DoViewChange to the master of the view (SendSync).
ReceiveStartViewChange(m) ==
    /\ m.type = "StartViewChange"
    /\ Receive(m)
    /\ LET r == m.dst
           adopt == view[r] < m.view
           v2 == IF adopt THEN m.view ELSE view[r]
           nv2 == IF adopt THEN view[r] ELSE vcNormalView[r]
           from2 == svcFrom[r] \cup {m.src}
           svc == IF adopt
                  THEN Broadcast(r, [type |-> "StartViewChange", view |-> m.view,
                                     src |-> r, dst |-> r])
                  ELSE {}
           dvc == IF Cardinality(from2) = SVCQuorum /\ MasterOf(v2) # r
                  THEN {[type |-> "DoViewChange", view |-> v2, log |-> log[r],
                         nilLog |-> r \in nilLog, normalView |-> nv2, op |-> opNumber[r],
                         commit |-> commitNumber[r], src |-> r, dst |-> MasterOf(v2)]}
                  ELSE {}
       IN IF view[r] > m.view \/ m.src \in svcFrom[r]
          THEN /\ msgs' = msgs \ {m}
               /\ UNCHANGED <<view, status, svcFrom, vcNormalView>>
          ELSE /\ svcFrom' = [svcFrom EXCEPT ![r] = from2]
               /\ vcNormalView' = [vcNormalView EXCEPT ![r] = nv2]
               /\ view' = [view EXCEPT ![r] = v2]
               /\ status' = IF adopt THEN [status EXCEPT ![r] = "ViewChange"] ELSE status
               /\ msgs' = (msgs \ {m}) \cup svc \cup dvc
    /\ UNCHANGED <<opNumber, commitNumber, log, nilLog, applied, masterVars, dvcFrom,
                   dvcMsgs, rcvVars, envVars>>
-----------------------------------------------------------------------------
\* Variant with the op comparison reversed.
PicksSlotMinOp(s, acc) ==
    \/ s.normalView > acc.maxNormalView
    \/ s.normalView = acc.maxNormalView /\ s.op < acc.maxOp

\* The slot replaces the current choice: a later normal view, or the same
\* one and a larger op number.
PicksSlot(s, acc) ==
    \/ s.normalView > acc.maxNormalView
    \/ s.normalView = acc.maxNormalView /\ s.op > acc.maxOp

(* calcMasterView, as the loop of the code: over i = 0 .. N-1 take the     *)
(* largest view of any slot; over the slots of the other replicas pick     *)
(* (log, op) by NormalView > maxNormalView or (= and larger op), where     *)
(* maxNormalView is never raised from 0, and the largest commit.          *)
CalcMasterView(slots, self) ==
    LET Step(acc, i) ==
          LET s == slots[i]
              pick == i # self /\ PicksSlot(s, acc)
          IN [maxView |-> IF s.view > acc.maxView THEN s.view ELSE acc.maxView,
              maxNormalView |-> acc.maxNormalView,
              maxOp |-> IF pick THEN s.op ELSE acc.maxOp,
              maxIdx |-> IF pick THEN i ELSE acc.maxIdx,
              maxCommit |-> IF i # self /\ s.commit > acc.maxCommit
                            THEN s.commit ELSE acc.maxCommit]
        order == [k \in 1 .. N |-> k - 1]
        res == FoldLeft(Step, [maxView |-> 0, maxNormalView |-> 0, maxOp |-> 0,
                               maxIdx |-> 0, maxCommit |-> 0], order)
    IN [view |-> res.maxView, log |-> slots[res.maxIdx].log,
        nilLog |-> slots[res.maxIdx].nilLog,
        op |-> res.maxOp, commit |-> res.maxCommit]

\* RPCReplica.DoViewChange, on the master of the new view.  No view or
\* status check.  At the F-th distinct sender: calcMasterView, status
\* Normal, BecomeMaster (assert IsMaster, Mstate.Reset, timers) and a
\* StartView broadcast.  The bitmaps are not reset here.
ReceiveDoViewChange(m) ==
    /\ m.type = "DoViewChange"
    /\ Receive(m)
    /\ LET r == m.dst
           from2 == dvcFrom[r] \cup {m.src}
           slots2 == [dvcMsgs[r] EXCEPT ![m.src] =
                        [view |-> m.view, log |-> m.log, nilLog |-> m.nilLog,
                         normalView |-> m.normalView,
                         op |-> m.op, commit |-> m.commit]]
           new == CalcMasterView(slots2, r)
       IN IF m.src \in dvcFrom[r]
          THEN /\ msgs' = msgs \ {m}
               /\ UNCHANGED <<replicaVars, masterVars, dvcFrom, dvcMsgs, crashed, fatal>>
          ELSE /\ dvcFrom' = [dvcFrom EXCEPT ![r] = from2]
               /\ dvcMsgs' = [dvcMsgs EXCEPT ![r] = slots2]
               /\ IF Cardinality(from2) # F
                  THEN /\ msgs' = msgs \ {m}
                       /\ UNCHANGED <<replicaVars, masterVars, crashed, fatal>>
                  ELSE IF MasterOf(new.view) # r
                  THEN /\ Die(r)
                       /\ msgs' = msgs \ {m}
                       /\ UNCHANGED <<replicaVars, masterVars>>
                  ELSE /\ view' = [view EXCEPT ![r] = new.view]
                       /\ log' = [log EXCEPT ![r] = new.log]
                       /\ nilLog' = SetNil(r, new.nilLog)
                       /\ opNumber' = [opNumber EXCEPT ![r] = new.op]
                       /\ commitNumber' = [commitNumber EXCEPT ![r] = new.commit]
                       /\ status' = [status EXCEPT ![r] = "Normal"]
                       /\ acks' = Reset(r)
                       /\ mTimer' = [mTimer EXCEPT ![r] = TRUE]
                       /\ msgs' = (msgs \ {m}) \cup
                             Broadcast(r, [type |-> "StartView", view |-> new.view,
                                           log |-> new.log, nilLog |-> new.nilLog,
                                           op |-> new.op,
                                           commit |-> new.commit, src |-> r, dst |-> r])
                       /\ UNCHANGED <<applied, crashed, fatal>>
    /\ UNCHANGED <<renewals, svcFrom, vcNormalView, rcvVars, lost, clientAcked>>

\* RPCReplica.StartView: adopt log, op and commit numbers, become Normal,
\* resetVcstate.  No check of the message's view, and the view itself is
\* not adopted; the commit number is set without calling CommitFunc.
ReceiveStartView(m) ==
    /\ m.type = "StartView"
    /\ Receive(m)
    /\ LET r == m.dst IN
       /\ log' = [log EXCEPT ![r] = m.log]
       /\ nilLog' = SetNil(r, m.nilLog)
       /\ opNumber' = [opNumber EXCEPT ![r] = m.op]
       /\ commitNumber' = [commitNumber EXCEPT ![r] = m.commit]
       /\ status' = [status EXCEPT ![r] = "Normal"]
       /\ svcFrom' = [svcFrom EXCEPT ![r] = {}]
       /\ dvcFrom' = [dvcFrom EXCEPT ![r] = {}]
       /\ dvcMsgs' = [dvcMsgs EXCEPT ![r] = [i \in Replica |-> NoSlot]]
       /\ vcNormalView' = [vcNormalView EXCEPT ![r] = 0]
    /\ msgs' = msgs \ {m}
    /\ UNCHANGED <<view, applied, masterVars, rcvVars, envVars>>
-----------------------------------------------------------------------------
(***************************************************************************)
(* Recovery (spec 4.6; the code calls PrepareRecovery but src/ has no      *)
(* definition of it)                                                       *)
(***************************************************************************)

\* A Normal replica answers Recovery with its state, echoing the nonce.
ReceiveRecovery(m) ==
    /\ m.type = "Recovery"
    /\ Receive(m)
    /\ LET s == m.dst IN
       msgs' = (msgs \ {m}) \cup
               IF status[s] = "Normal"
               THEN {[type |-> "RecoveryResponse", view |-> view[s], nonce |-> m.nonce,
                      log |-> log[s], nilLog |-> s \in nilLog, op |-> opNumber[s], commit |-> commitNumber[s],
                      src |-> s, dst |-> m.src]}
               ELSE {}
    /\ UNCHANGED <<replicaVars, masterVars, vcVars, rcvVars, envVars>>

\* Best response: largest view, then largest op number.
BestResponse(slots, from) ==
    CHOOSE i \in from : \A j \in from :
        \/ slots[i].view > slots[j].view
        \/ slots[i].view = slots[j].view /\ slots[i].op >= slots[j].op

\* Variant that hands the committed prefix over again from its first entry.
RecoveredAppliedFromStart(r, best) == applied[r] \o SubSeq(best.log, 1, best.commit)

\* The state machine gets the entries committed since its own commit number.
RecoveredApplied(r, best) == applied[r] \o SubSeq(best.log, commitNumber[r] + 1, best.commit)

\* F+1 responses with the current nonce: adopt view, log, op and commit
\* numbers of the best one, hand the newly committed entries to the state
\* machine, and return to Normal.
ReceiveRecoveryResponse(m) ==
    /\ m.type = "RecoveryResponse"
    /\ Receive(m)
    /\ LET r == m.dst
           from2 == rcvFrom[r] \cup {m.src}
           slots2 == [rcvMsgs[r] EXCEPT ![m.src] =
                        [view |-> m.view, log |-> m.log, nilLog |-> m.nilLog,
                         normalView |-> 0,
                         op |-> m.op, commit |-> m.commit]]
           best == slots2[BestResponse(slots2, from2)]
       IN IF status[r] # "Recovery" \/ m.nonce # nonce[r] \/ m.src \in rcvFrom[r]
          THEN /\ UNCHANGED <<replicaVars, rcvFrom, rcvMsgs>>
          ELSE /\ rcvFrom' = [rcvFrom EXCEPT ![r] = from2]
               /\ rcvMsgs' = [rcvMsgs EXCEPT ![r] = slots2]
               /\ IF Cardinality(from2) < F + 1
                  THEN UNCHANGED replicaVars
                  ELSE /\ view' = [view EXCEPT ![r] = best.view]
                       /\ log' = [log EXCEPT ![r] = best.log]
                       /\ nilLog' = SetNil(r, best.nilLog)
                       /\ opNumber' = [opNumber EXCEPT ![r] = best.op]
                       /\ status' = [status EXCEPT ![r] = "Normal"]
                       /\ commitNumber' = [commitNumber EXCEPT ![r] = best.commit]
                       /\ applied' = [applied EXCEPT ![r] = RecoveredApplied(r, best)]
    /\ msgs' = msgs \ {m}
    /\ UNCHANGED <<masterVars, vcVars, nonce, envVars>>
-----------------------------------------------------------------------------
(***************************************************************************)
(* Environment: sendAndRecv gives up after MAX_TRIES failed attempts, so a *)
(* request or reply can be lost; a replica process can stop.               *)
(***************************************************************************)
LoseMessage(m) ==
    /\ m \in msgs
    /\ lost < MaxLoss
    /\ msgs' = msgs \ {m}
    /\ lost' = lost + 1
    /\ UNCHANGED <<replicaVars, masterVars, vcVars, rcvVars, crashed, fatal, clientAcked>>

Crash(r) ==
    /\ Live(r)
    /\ Cardinality(crashed \ fatal) < MaxCrash
    /\ crashed' = crashed \cup {r}
    /\ UNCHANGED <<replicaVars, masterVars, vcVars, rcvVars, msgs, fatal, lost, clientAcked>>
(* A process that stopped is started again: RunAsReplica builds a fresh   *)
(* Replica, whose zero Rstate is view 0, op and commit 0, status Normal    *)
(* (= iota 0); ReplicaInit gives it an empty Phatlog and a stopped renewal *)
(* timer, and BecomeMaster arms it when IsMaster holds, that is on the     *)
(* master of view 0.  The new process has a new database (an empty        *)
(* history) and no recovery.  The old process's connections are closed:  *)
(* the replies to its calls, and its calls not yet read by their receiver, *)
(* are gone (a call read while it was down has had its effect there).     *)
(* Calls to it are retried by their senders on a new connection and stay  *)
(* in flight.                                                              *)
Restart(r) ==
    /\ r \in crashed
    /\ crashed' = crashed \ {r}
    /\ view' = [view EXCEPT ![r] = 0]
    /\ status' = [status EXCEPT ![r] = "Normal"]
    /\ opNumber' = [opNumber EXCEPT ![r] = 0]
    /\ commitNumber' = [commitNumber EXCEPT ![r] = 0]
    /\ log' = [log EXCEPT ![r] = <<>>]
    /\ nilLog' = nilLog \ {r}
    /\ applied' = [applied EXCEPT ![r] = <<>>]
    /\ acks' = Reset(r)
    /\ mTimer' = [mTimer EXCEPT ![r] = (r = MasterOf(0))]
    /\ svcFrom' = [svcFrom EXCEPT ![r] = {}]
    /\ dvcFrom' = [dvcFrom EXCEPT ![r] = {}]
    /\ dvcMsgs' = [dvcMsgs EXCEPT ![r] = [i \in Replica |-> NoSlot]]
    /\ vcNormalView' = [vcNormalView EXCEPT ![r] = 0]
    /\ nonce' = [nonce EXCEPT ![r] = 0]
    /\ rcvFrom' = [rcvFrom EXCEPT ![r] = {}]
    /\ rcvMsgs' = [rcvMsgs EXCEPT ![r] = [i \in Replica |-> NoSlot]]
    /\ msgs' = {m \in msgs : IF m.type \in ReplyTypes THEN m.dst # r ELSE m.src # r}
    /\ fatal' = fatal \ {r}
    /\ UNCHANGED <<renewals, lost, clientAcked>>
-----------------------------------------------------------------------------
\* Every step of the replicas and the transport except RunVR, which the
\* server facade starts on a client's behalf.
ReplicaNext ==
    \/ \E r \in Replica : MasterNeedsRenewal(r)
    \/ \E r \in Replica : ReplicaTimeout(r)
    \/ \E r \in Replica : Crash(r)
    \/ \E m \in msgs : ReceivePrepare(m)
    \/ \E m \in msgs : ReceivePrepareOk(m)
    \/ \E m \in msgs : ReceiveCommit(m)
    \/ \E m \in msgs : ReceiveHeartbeatReply(m)
    \/ \E m \in msgs : ReceiveStartViewChange(m)
    \/ \E m \in msgs : ReceiveDoViewChange(m)
    \/ \E m \in msgs : ReceiveStartView(m)
    \/ \E m \in msgs : ReceiveRecovery(m)
    \/ \E m \in msgs : ReceiveRecoveryResponse(m)
    \/ \E m \in msgs : LoseMessage(m)

Next ==
    \/ \E r \in Replica, c \in Command : RunVR(r, c)
    \/ ReplicaNext

Spec == Init /\ [][Next]_vars

(* Each RPC that reaches a live replica is served: net/rpc runs every      *)
(* request in a goroutine of its own, and sendAndRecvTo hands every reply  *)
(* to its handler.  So each handler is weakly fair on each replica.  The  *)
(* renewal timer, once armed, fires (time.AfterFunc).  RunVR, timeouts,    *)
(* crashes and losses are the environment's choice and get no fairness.    *)
Fairness ==
    /\ \A r \in Replica :
        /\ WF_vars(MasterNeedsRenewal(r))
        /\ WF_vars(\E m \in msgs : m.dst = r /\ ReceivePrepare(m))
        /\ WF_vars(\E m \in msgs : m.dst = r /\ ReceivePrepareOk(m))
        /\ WF_vars(\E m \in msgs : m.dst = r /\ ReceiveCommit(m))
        /\ WF_vars(\E m \in msgs : m.dst = r /\ ReceiveHeartbeatReply(m))
        /\ WF_vars(\E m \in msgs : m.dst = r /\ ReceiveRecovery(m))
        /\ WF_vars(\E m \in msgs : m.dst = r /\ ReceiveRecoveryResponse(m))

FairSpec == Spec /\ Fairness

\* A view change needs only its own handlers to run, and the less is assumed
\* the more a property under it says.  So the assumption is just that, while
\* a view-change message is waiting, some view-change handler runs: each one
\* consumes its message and views are bounded, so all of them are served.
ViewChangeFairness ==
    WF_vars(\E m \in msgs : \/ ReceiveStartViewChange(m)
                             \/ ReceiveDoViewChange(m)
                             \/ ReceiveStartView(m))

VCFairSpec == Spec /\ ViewChangeFairness

\* The system where stopped processes are also started again (Restart).
RestartSpec == Init /\ [][Next \/ \E r \in Replica : Restart(r)]_vars
-----------------------------------------------------------------------------
TypeOK ==
    /\ view \in [Replica -> 0 .. MaxView]
    /\ status \in [Replica -> Statuses]
    /\ opNumber \in [Replica -> 0 .. MaxOp]
    /\ commitNumber \in [Replica -> 0 .. MaxOp]
    /\ log \in [Replica -> Seq(Command)]
    /\ nilLog \subseteq Replica
    /\ applied \in [Replica -> Seq(Command)]
    /\ acks \in [Replica -> SUBSET Replica]
    /\ mTimer \in [Replica -> BOOLEAN]
    /\ renewals \in 0 .. MaxRenewals
    /\ svcFrom \in [Replica -> SUBSET Replica]
    /\ dvcFrom \in [Replica -> SUBSET Replica]
    /\ vcNormalView \in [Replica -> 0 .. MaxView]
    /\ nonce \in [Replica -> 0 .. MaxNonce]
    /\ rcvFrom \in [Replica -> SUBSET Replica]
    /\ crashed \subseteq Replica /\ fatal \subseteq crashed
    /\ lost \in 0 .. MaxLoss
-----------------------------------------------------------------------------
(***************************************************************************)
(* Properties                                                              *)
(***************************************************************************)

\* Prefix agreement (spec 8.1): the commands any two replicas have handed
\* to CommitFunc agree index by index, across doCommit, StartView,
\* calcMasterView and recovery.
AppliedAgreement ==
    \A r, s \in Replica : IsPrefix(applied[r], applied[s]) \/ IsPrefix(applied[s], applied[r])

\* What a replica's state machine has executed is exactly the first
\* CommitNumber entries of its own log: no op skipped by a commit number
\* that is adopted without CommitFunc, none applied twice, none from a log
\* that was replaced afterwards.
AppliedIsCommittedLog ==
    \A r \in Replica \ crashed :
        /\ commitNumber[r] <= Len(log[r])
        /\ applied[r] = SubSeq(log[r], 1, commitNumber[r])

\* An op a master reported committed to its client (handlePrepareOK at the
\* F-th ack) is at its index in the log of every later Normal master.
DurableAck ==
    \A a \in clientAcked : \A r \in Replica \ crashed :
        (status[r] = "Normal" /\ MasterOf(view[r]) = r) =>
            /\ a.index <= Len(log[r])
            /\ log[r][a.index] = a.cmd

\* No replica process ends on one of the code's assert() calls
\* (Heartbeat's and BecomeMaster's assert(r.IsMaster())).
NoFatal == fatal = {}

\* op_number >= commit_number (spec section 3): a replica never believes
\* more is committed than its log holds, which RunVR's
\* assert(OpNumber == CommitNumber) and GetCommand rely on.
OpCoversCommit ==
    \A r \in Replica \ crashed : commitNumber[r] <= opNumber[r]

\* An op the master of view 0 has prepared is eventually committed there
\* (spec 8.5), so RunVR's caller, blocked on its Done channel, returns:
\* through Prepare, PrepareOk and the F-th ack, with backups that fell
\* behind on a gap or an early Commit going through recovery meanwhile.
EventuallyCommitted ==
    \A i \in 1 .. MaxOp :
        (opNumber[MasterOf(0)] >= i) ~> (commitNumber[MasterOf(0)] >= i)

\* Committed log prefixes agree (spec 8.1) among the replicas in Normal
\* status, the ones that serve and apply: two of them hold the same command
\* at every index both consider committed, through a view change, where
\* calcMasterView picks the log a new view starts from and StartView
\* installs it on the backups.  Length is OpCoversCommit's business: this
\* compares entries both replicas hold.
CommittedLogAgreement ==
    \A r, s \in {q \in Replica \ crashed : status[q] = "Normal"} :
        \A i \in 1 .. Min({commitNumber[r], commitNumber[s], Len(log[r]), Len(log[s])}) :
            log[r][i] = log[s][i]

\* A view change that a live replica takes part in completes (spec 8.5 and
\* its scenario "Master crash, view change"): a replica in ViewChange status
\* leaves it, through StartViewChange rebroadcasts, the F-th
\* StartViewChange sending DoViewChange, the F-th DoViewChange running
\* calcMasterView and the StartView it broadcasts.  Spec 8.5 assumes a live
\* quorum and bounded delay, so it is checked without lost messages, and
\* excuses a crash of the master of the replica's current view and a
\* majority of the processes gone (crashed or stopped by an assert).
ViewChangeCompletes ==
    \A r \in Replica :
        (r \notin crashed /\ status[r] = "ViewChange")
            ~> \/ r \in crashed
               \/ status[r] # "ViewChange"
               \/ MasterOf(view[r]) \in crashed
               \/ Cardinality(crashed) > F

\* The longest history any replica's state machine has executed.
LongestApplied ==
    CHOOSE a \in {applied[r] : r \in Replica} :
        \A r \in Replica : Len(applied[r]) <= Len(a)

CL == INSTANCE CommandLog WITH
        clog <- LongestApplied,
        executed <- [r \in Replica |-> Len(applied[r])]

\* The replica group implements the command log: the replicas' state
\* machines execute prefixes of one sequence that only grows at its end,
\* each in order and never going back, through Prepare gaps, early
\* Commits, recoveries and renewal Commits.
ImplementsCommandLog == CL!Spec

\* A replica's commit number never goes down (spec 8.2).
CommitMonotone ==
    [][\A r \in Replica : commitNumber'[r] >= commitNumber[r]]_vars

\* A replica's view never goes down (spec 8.3).
ViewMonotone ==
    [][\A r \in Replica : view'[r] >= view[r]]_vars
=============================================================================
