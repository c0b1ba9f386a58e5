----------------------------- MODULE DbContract -----------------------------
(***************************************************************************)
(* What core/db.h promises of a database binding: a table of records, each *)
(* a set of field/value pairs, on which the calls of concurrent clients    *)
(* take effect one at a time, each somewhere between its invocation and    *)
(* its return.                                                             *)
(***************************************************************************)
EXTENDS Integers, Sequences, FiniteSetsExt, SequencesExt

CONSTANTS
    Clients,     \* the client threads
    Keys,        \* the keys, in their order: a set of natural numbers
    FieldNames,  \* every field name; asked for all of them is asked for no list
    Values,      \* the values of fields
    Upserts      \* whether an update of a key that has no record inserts it

VARIABLES
    table,    \* the record of each key
    call,     \* the call each client is in
    answer    \* what that call will return, once it has taken effect

cvars == <<table, call, answer>>

NoRow == [f \in {} |-> 0]
Rows == UNION {[S -> Values] : S \in SUBSET FieldNames}

Calls == [op : {"read", "scan", "insert", "update", "delete"}, key : Keys, vals : Rows,
          fields : SUBSET FieldNames, len : Nat]

NoCall == [op |-> "none", key |-> 0, vals |-> NoRow, fields |-> {}, len |-> 0]
NoAnswer == [status |-> "none", rows |-> <<>>]
Ok(rows) == [status |-> "ok", rows |-> rows]
Failed == {[status |-> s, rows |-> <<>>] : s \in {"notfound", "error"}}

Project(row, fields) == [f \in DOMAIN row \cap fields |-> row[f]]

(* "overwriting any existing values with the same field names" *)
Overlay(row, vals) == [f \in DOMAIN row \cup DOMAIN vals |->
                         IF f \in DOMAIN vals THEN vals[f] ELSE row[f]]

Present == {k \in Keys : table[k] # NoRow}

(* The i-th of a set of keys, in their order. *)
Nth(S, i) == CHOOSE k \in S : Cardinality({j \in S : j <= k}) = i

(* The first n records at or after k, in the order of their keys. *)
RangeFrom(k, n) ==
    LET S == {j \in Present : j >= k}
    IN  [i \in 1 .. Min({n, Cardinality(S)}) |-> table[Nth(S, i)]]

Init ==
    /\ table \in [Keys -> Rows]
    /\ call = [c \in Clients |-> NoCall]
    /\ answer = [c \in Clients |-> NoAnswer]

Invoke(c) ==
    /\ call[c] = NoCall
    /\ call'[c] \in Calls
    /\ call' = [call EXCEPT ![c] = call'[c]]
    /\ UNCHANGED <<table, answer>>

Waiting(c, op) == call[c].op = op /\ answer[c] = NoAnswer

Answer(c, A) == \E a \in A : answer' = [answer EXCEPT ![c] = a]

Read(c) ==
    /\ Waiting(c, "read")
    /\ Answer(c, IF call[c].key \in Present
                 THEN {Ok(<<Project(table[call[c].key], call[c].fields)>>)}
                 ELSE Failed)
    /\ UNCHANGED <<table, call>>

(* A scan from a key that has no record may be refused. *)
Scan(c) ==
    /\ Waiting(c, "scan")
    /\ LET found == RangeFrom(call[c].key, call[c].len)
           rows == [i \in DOMAIN found |-> Project(found[i], call[c].fields)]
       IN  Answer(c, {Ok(rows)} \cup (IF call[c].key \in Present THEN {} ELSE Failed))
    /\ UNCHANGED <<table, call>>

(* A binding may refuse to insert a key that has a record. *)
Insert(c) ==
    /\ Waiting(c, "insert")
    /\ \/ /\ table' = [table EXCEPT ![call[c].key] = call[c].vals]
          /\ Answer(c, {Ok(<<>>)})
       \/ /\ call[c].key \in Present
          /\ Answer(c, Failed)
          /\ UNCHANGED table
    /\ UNCHANGED call

(* What Update and Delete answer if there is no record is left open. *)
Update(c) ==
    /\ Waiting(c, "update")
    /\ IF call[c].key \in Present
       THEN /\ table' = [table EXCEPT ![call[c].key] = Overlay(@, call[c].vals)]
            /\ Answer(c, {Ok(<<>>)})
       ELSE IF Upserts
       THEN table' = [table EXCEPT ![call[c].key] = call[c].vals] /\ Answer(c, {Ok(<<>>)})
       ELSE Answer(c, {Ok(<<>>)} \cup Failed) /\ UNCHANGED table
    /\ UNCHANGED call

Delete(c) ==
    /\ Waiting(c, "delete")
    /\ IF call[c].key \in Present
       THEN /\ table' = [table EXCEPT ![call[c].key] = NoRow]
            /\ Answer(c, {Ok(<<>>)})
       ELSE Answer(c, {Ok(<<>>)} \cup Failed) /\ UNCHANGED table
    /\ UNCHANGED call

(* A binding need not implement every operation. *)
Refuse(c) ==
    /\ call[c] # NoCall /\ answer[c] = NoAnswer
    /\ Answer(c, {[status |-> "notimplemented", rows |-> <<>>]})
    /\ UNCHANGED <<table, call>>

(* The database fails: the call has no effect.  Not a step of Next: for     *)
(* bindings whose database may fail.                                        *)
Fail(c) ==
    /\ call[c] # NoCall /\ answer[c] = NoAnswer
    /\ Answer(c, {[status |-> "error", rows |-> <<>>]})
    /\ UNCHANGED <<table, call>>

Return(c) ==
    /\ answer[c] # NoAnswer
    /\ call' = [call EXCEPT ![c] = NoCall]
    /\ answer' = [answer EXCEPT ![c] = NoAnswer]
    /\ UNCHANGED table

Next == \E c \in Clients :
    \/ Invoke(c) \/ Return(c) \/ Refuse(c)
    \/ Read(c) \/ Scan(c) \/ Insert(c) \/ Update(c) \/ Delete(c)

Spec == Init /\ [][Next]_cvars
=============================================================================
