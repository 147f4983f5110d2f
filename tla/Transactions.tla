---- MODULE Transactions ----
(***************************************************************************)
(* The broker side of Kafka transactions, external to the repository and   *)
(* modelled from how transformer.py uses it: one transactional ID per      *)
(* input partition ({application_id}-{partition}), InitProducerId as the   *)
(* fence, and a commit that makes a transaction's outputs, changelog write *)
(* and consumer offset visible together.                                   *)
(*                                                                         *)
(* Producer epochs are kept as what they decide: holder[p] is the instance *)
(* whose latest InitProducerId for p is the latest of all; every other     *)
(* producer of that transactional ID is fenced.                            *)
(***************************************************************************)
EXTENDS Runners, Records

VARIABLES holder,       \* [Partition -> Instance or None]
          txn,          \* [Partition -> the ongoing transaction, or NoTxn]
          committed,    \* [Partition -> committed offset of the group]
          changelog,    \* [Partition -> state in the changelog up to the LSO]
          output        \* [Partition -> outputs a read_committed reader sees]

txnVars == <<holder, txn, committed, changelog, output>>
logVars == <<committed, changelog, output>>

NoTxn == [open |-> FALSE, out |-> <<>>, state |-> 0, offset |-> 0]

Txn == [open : BOOLEAN, out : Seq(Message), state : Nat, offset : Offset]

TxnTypeOK ==
    /\ holder \in [Partition -> Instance \cup {None}]
    /\ txn \in [Partition -> Txn]
    /\ committed \in [Partition -> Offset]
    /\ changelog \in [Partition -> Nat]
    /\ output \in [Partition -> Seq(Message)]

TxnInit ==
    /\ holder = [p \in Partition |-> None]
    /\ txn = [p \in Partition |-> NoTxn]
    /\ committed = [p \in Partition |-> 0]
    /\ changelog = [p \in Partition |-> 0]
    /\ output = [p \in Partition |-> <<>>]

\* producer.start(): fence every earlier producer of p, abort its transaction.
InitProducerId(i, p) ==
    /\ holder' = [holder EXCEPT ![p] = i]
    /\ txn' = [txn EXCEPT ![p] = NoTxn]
    /\ UNCHANGED logVars

\* Produce outputs and the changelog record into i's transaction.
ProduceInTxn(i, p, out, state) ==
    /\ holder[p] = i
    /\ txn' = [txn EXCEPT ![p] =
                  [open |-> TRUE, out |-> out, state |-> state, offset |-> 0]]
    /\ UNCHANGED <<holder, logVars>>

\* send_offsets_to_transaction: the offset commit joins the transaction.
AddOffset(i, p, offset) ==
    /\ holder[p] = i
    /\ txn[p].open
    /\ txn' = [txn EXCEPT ![p].offset = offset]
    /\ UNCHANGED <<holder, logVars>>

\* EndTxn(commit): everything in the transaction becomes visible at once.
CommitTxn(i, p) ==
    /\ holder[p] = i
    /\ txn[p].open
    /\ output' = [output EXCEPT ![p] = @ \o txn[p].out]
    /\ changelog' = [changelog EXCEPT ![p] = txn[p].state]
    /\ committed' = [committed EXCEPT ![p] = txn[p].offset]
    /\ txn' = [txn EXCEPT ![p] = NoTxn]
    /\ UNCHANGED holder

\* EndTxn(abort), sent by the producer's transaction() scope on an exception.
AbortTxn(i, p) ==
    /\ txn' = [txn EXCEPT ![p] = IF holder[p] = i THEN NoTxn ELSE @]
    /\ UNCHANGED <<holder, logVars>>

\* transaction.timeout.ms: the coordinator aborts and bumps the epoch.
TxnTimeout(p) ==
    /\ txn[p].open
    /\ txn' = [txn EXCEPT ![p] = NoTxn]
    /\ holder' = [holder EXCEPT ![p] = None]
    /\ UNCHANGED logVars
====
