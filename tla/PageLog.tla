---- MODULE PageLog ----
(***************************************************************************)
(* The broker side of an extractor's page transactions, external to the    *)
(* repository and modelled from how extractor.py uses it: one              *)
(* transactional ID per token ({application_id}-{token}), and a changelog  *)
(* topic whose partition for a state key is the key's hash - not the       *)
(* token.  A read_committed reader stops at the last stable offset: the    *)
(* first record of a transaction still open, whoever's it is.              *)
(***************************************************************************)
EXTENDS Runners, Naturals, FiniteSets, Sequences, SequencesExt

CONSTANTS Config,       \* wire keys of the configs that are polled
          StateKey,     \* their state keys
          KeyOf,        \* [Config -> StateKey], extract_state_key
          TokenOf,      \* [StateKey -> Partition], token_for
          LogOf,        \* [StateKey -> changelog partition]
          NumItems      \* items each config's source holds

ASSUME PageLogAssumption ==
    /\ KeyOf \in [Config -> StateKey]
    /\ TokenOf \in [StateKey -> Partition]
    /\ NumItems \in Nat

VARIABLES holder,       \* [Partition -> Instance or None], see Transactions
          txn,          \* [Partition -> the ongoing transaction, or NoTxn]
          log,          \* per changelog partition: its records by offset, aborted
                        \* ones left out
          output        \* [Config -> items a read_committed reader sees]

brokerVars == <<holder, txn, log, output>>

Cursor == 0..NumItems
Token(c) == TokenOf[KeyOf[c]]
ConfigsOf(k) == {c \in Config : KeyOf[c] = k}

NoTxn == [open |-> FALSE, sent |-> [c \in Config |-> <<>>]]

\* The state under a state key holds one resume cursor per config that shares it.
LogRecord(k) ==
    [at : Nat, key : {k}, cursors : [ConfigsOf(k) -> Cursor], open : BOOLEAN]

Log == {LogOf[k] : k \in StateKey}

BrokerTypeOK ==
    /\ holder \in [Partition -> Instance \cup {None}]
    /\ txn \in [Partition -> [open : BOOLEAN, sent : [Config -> Seq(1..NumItems)]]]
    /\ DOMAIN log = Log
    /\ \A l \in Log : \A r \in log[l] : \E k \in StateKey : l = LogOf[k] /\ r \in LogRecord(k)
    /\ output \in [Config -> Seq(1..NumItems)]

BrokerInit ==
    /\ holder = [t \in Partition |-> None]
    /\ txn = [t \in Partition |-> NoTxn]
    /\ log = [l \in Log |-> {}]
    /\ output = [c \in Config |-> <<>>]

\* The state of key k after these records: what the last one under k holds.
StateIn(records, k) ==
    LET of == {r \in records : r.key = k}
    IN  IF of = {} THEN [c \in ConfigsOf(k) |-> 0]
        ELSE (CHOOSE r \in of : \A s \in of : s.at <= r.at).cursors

\* What a restore reads: everything before the LSO ...
Stable(l) == {r \in log[l] : \A s \in log[l] : s.open => r.at < s.at}
HasRecord(k) == \E r \in Stable(LogOf[k]) : r.key = k
Restorable(k) == StateIn(Stable(LogOf[k]), k)

\* ... and what is committed.
Closed(l) == {r \in log[l] : ~r.open}
Durable(c) == StateIn(Closed(LogOf[KeyOf[c]]), KeyOf[c])[c]

\* The open records of token t's transaction are dropped, or become final.
Drop(t) == log' = [l \in Log |-> {r \in log[l] : ~(r.open /\ TokenOf[r.key] = t)}]
Settled(r, t) == IF TokenOf[r.key] = t THEN [r EXCEPT !.open = FALSE] ELSE r
Settle(t) == log' = [l \in Log |-> {Settled(r, t) : r \in log[l]}]

\* The offset behind the last record.
EndOffset(l) == IF log[l] = {} THEN 0 ELSE 1 + Max({r.at : r \in log[l]})

\* producer.start(): fence every earlier producer of t, abort its transaction.
InitProducerId(i, t) ==
    /\ holder' = [holder EXCEPT ![t] = i]
    /\ txn' = [txn EXCEPT ![t] = NoTxn]
    /\ Drop(t)
    /\ UNCHANGED output

\* send() of an output message; the transaction begins with the first one.
SendItem(i, c, item) ==
    /\ holder[Token(c)] = i
    /\ txn' = [txn EXCEPT ![Token(c)].open = TRUE, ![Token(c)].sent[c] = Append(@, item)]
    /\ UNCHANGED <<holder, log, output>>

\* send() of a state to the changelog.
SendState(i, k, cursors) ==
    /\ holder[TokenOf[k]] = i
    /\ txn[TokenOf[k]].open
    /\ log' = [log EXCEPT ![LogOf[k]] = @ \cup
           {[at |-> EndOffset(LogOf[k]), key |-> k, cursors |-> cursors, open |-> TRUE]}]
    /\ UNCHANGED <<holder, txn, output>>

\* EndTxn(commit): the page and its state become visible at once.
CommitTxn(i, t) ==
    /\ holder[t] = i
    /\ txn[t].open
    /\ output' = [c \in Config |-> output[c] \o txn[t].sent[c]]
    /\ txn' = [txn EXCEPT ![t] = NoTxn]
    /\ Settle(t)
    /\ UNCHANGED holder

\* EndTxn(abort); nothing if i is fenced.
AbortTxn(i, t) ==
    IF holder[t] = i
    THEN /\ txn' = [txn EXCEPT ![t] = NoTxn]
         /\ Drop(t)
         /\ UNCHANGED <<holder, output>>
    ELSE UNCHANGED brokerVars

\* transaction.timeout.ms: the coordinator aborts and bumps the epoch.
TxnTimeout(t) ==
    /\ txn[t].open
    /\ holder' = [holder EXCEPT ![t] = None]
    /\ txn' = [txn EXCEPT ![t] = NoTxn]
    /\ Drop(t)
    /\ UNCHANGED output
====
