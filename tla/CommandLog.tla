------------------------------ MODULE CommandLog ------------------------------
(***************************************************************************)
(* What the replica group promises its state machines (spec.md sections 1 *)
(* and 8.1): there is one sequence of committed commands, it only grows at *)
(* its end, and each replica executes a prefix of it, in order, never      *)
(* going back.                                                             *)
(*                                                                         *)
(* A replica that has executed the whole sequence may commit further       *)
(* commands (the master at its F-th PrepareOk); any replica may execute    *)
(* entries it has not executed yet (a backup on Commit, or on recovery).   *)
(* A step may commit or execute several commands at once, as doCommit and  *)
(* a recovery do.                                                          *)
(***************************************************************************)
EXTENDS Naturals, Sequences, SequencesExt

CONSTANTS Replica, Command

VARIABLES
    clog,       \* the committed commands, in order
    executed    \* executed[r]: how many of them replica r has executed

Init ==
    /\ clog = <<>>
    /\ executed = [r \in Replica |-> 0]

\* Replica r, up to date, commits new commands and executes them.
CommitNew(r) ==
    /\ executed[r] = Len(clog)
    /\ Len(clog') > Len(clog)
    /\ IsPrefix(clog, clog')
    /\ Range(clog') \subseteq Command
    /\ executed' = [executed EXCEPT ![r] = Len(clog')]

\* Replica r executes committed commands it had not executed yet.
CatchUp(r) ==
    /\ \E k \in executed[r] + 1 .. Len(clog) : executed' = [executed EXCEPT ![r] = k]
    /\ UNCHANGED clog

Next == \E r \in Replica : CommitNew(r) \/ CatchUp(r)

Spec == Init /\ [][Next]_<<clog, executed>>
=============================================================================
