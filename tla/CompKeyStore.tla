---------------------------- MODULE CompKeyStore ----------------------------
(***************************************************************************)
(* leveldb's formats "row" and "column", which store every field of a      *)
(* record as an entry of its own under a composite key, called by          *)
(* concurrent clients with the records that CoreWorkload builds.           *)
(*                                                                         *)
(* leveldb keeps its entries in the byte order of their keys, and reads    *)
(* and scans walk them, so key names are what matters here.  A string is   *)
(* the sequence of its characters: the digits and ":", which follows "9"   *)
(* in ASCII.  The prefixes "user" and "field", equal in all, are left out. *)
(* Assertions are compiled out (NDEBUG), as in the release build.          *)
(*                                                                         *)
(* Every operation is one step: a write is one WriteBatch, and an iterator *)
(* sees the database as it was when it was created.                        *)
(***************************************************************************)
EXTENDS Integers, Sequences, FiniteSetsExt, SequencesExt

CONSTANTS
    Clients,      \* the client threads
    Numbers,      \* the key numbers, a sequence in the order of their decimal strings
    Paddings,     \* values of zeropadding
    MaxF,         \* fieldcount is at most this
    Mixes,        \* the sets of operations the workload may mix
    ScanLen,      \* the length of scans
    MaxCalls      \* bound: calls of all clients together

ASSUME CompKeyAssumption ==
    /\ {MaxF, ScanLen} \subseteq Nat \ {0} /\ MaxCalls \in Nat
    /\ Numbers \in Seq(Nat) /\ Paddings \subseteq Nat

VARIABLES
    cfg,      \* format_, fieldcount_, zero_padding_, the mix, readallfields, and
              \* writeallfields now and at loading
    db,       \* the entries of the database: composite key -> value
    call,     \* the call each client is in
    answer,   \* what it will return
    leaked,   \* iterators that were never deleted
    calls     \* how many calls there were; the values of a call's record are its number

vars == <<cfg, db, call, answer, leaked, calls>>

Colon == 10
Unnamed == <<>>

Digits[n \in Nat] == IF n < 10 THEN <<n>> ELSE Append(Digits[n \div 10], n % 10)   \* to_string

FieldName(i) == Digits[i]                   \* field_prefix_ + std::to_string(i)

Keys == DOMAIN Numbers
FieldNames == {Unnamed} \cup {FieldName(i) : i \in 0 .. (MaxF - 1)}
Values == 0 .. MaxCalls
Fieldnames(n) == {FieldName(i) : i \in 0 .. (n - 1)}

-----------------------------------------------------------------------------
(* Composite keys *)

BuildCompKey(key, field) ==
    IF cfg.format = "row" THEN key \o <<Colon>> \o field ELSE field \o <<Colon>> \o key

ColonAt(s) == CHOOSE i \in DOMAIN s : s[i] = Colon /\ \A j \in 1 .. (i - 1) : s[j] # Colon

(* Mutation: the colon is taken for a part of the key. *)
KeyWithColon(s) == SubSeq(s, 1, ColonAt(s))

KeyFromCompKey(s) == SubSeq(s, 1, ColonAt(s) - 1)

FieldFromCompKey(s) == SubSeq(s, ColonAt(s) + 1, Len(s))

(* leveldb's BytewiseComparator. *)
Precedes(s, t) ==
    \/ IsStrictPrefix(s, t)
    \/ \E i \in 1 .. Min({Len(s), Len(t)}) :
         s[i] < t[i] /\ \A j \in 1 .. (i - 1) : s[j] = t[j]

(* What an iterator yields after Seek(target). *)
Seek(target) ==
    LET S == {s \in DOMAIN db : ~Precedes(s, target)}
    IN  [i \in 1 .. Cardinality(S) |->
           CHOOSE s \in S : Cardinality({t \in S : Precedes(t, s)}) = i - 1]

-----------------------------------------------------------------------------
(* BuildKeyName: the number, filled up with zeros on the left. *)
Name(k) ==
    LET value == Digits[Numbers[k]]
        fill == Max({0, cfg.padding - Len(value)})
    IN  [i \in 1 .. fill |-> 0] \o value

(* BuildValues names the fields; BuildSingleValue leaves the name empty. *)
Built(writeall, v) == [f \in IF writeall THEN Fieldnames(cfg.fieldcount) ELSE {Unnamed} |-> v]

(* The batch of InsertCompKey: one Put for each field. *)
Put(key, vals) ==
    LET entry == [s \in {BuildCompKey(key, f) : f \in DOMAIN vals} |->
                    vals[CHOOSE f \in DOMAIN vals : BuildCompKey(key, f) = s]]
    IN  [s \in DOMAIN db \cup DOMAIN entry |-> IF s \in DOMAIN entry THEN entry[s] ELSE db[s]]

(* The batch of DeleteCompKey: one Delete for each of field0, field1, ... *)
Without(key) ==
    [s \in DOMAIN db \ {BuildCompKey(key, f) : f \in Fieldnames(cfg.fieldcount)} |-> db[s]]

NoRow == [f \in {} |-> 0]

(* The record of a key, for the properties: the entries that hold its fields. *)
RowOf(key) == LET S == {f \in FieldNames : BuildCompKey(key, f) \in DOMAIN db}
              IN  [f \in S |-> db[BuildCompKey(key, f)]]
table == [k \in Keys |-> RowOf(Name(k))]

(* A vector of fields as a row; one in which a name occurs twice is no row. *)
Torn == [f \in {<<Colon>>} |-> 0]
AsRow(values) ==
    LET names == {values[i].first : i \in DOMAIN values}
    IN  IF Cardinality(names) < Len(values) THEN Torn
        ELSE [f \in names |-> values[CHOOSE i \in DOMAIN values : values[i].first = f].second]

Contract == INSTANCE DbContract WITH
    Upserts <- TRUE,
    answer <- [c \in Clients |->
                 [answer[c] EXCEPT !.rows = [i \in DOMAIN @ |-> AsRow(@[i])]]]

NoCall == Contract!NoCall
NoAnswer == Contract!NoAnswer
Result(s, rows) == [status |-> s, rows |-> rows]

Init ==
    /\ cfg \in [format : {"row", "column"}, fieldcount : 1 .. MaxF, padding : Paddings,
                mix : Mixes, readall : BOOLEAN, writeall : BOOLEAN, loadall : BOOLEAN]
    /\ \E loaded \in SUBSET Keys :
         db = [s \in {BuildCompKey(Name(k), f) : k \in loaded, f \in DOMAIN Built(cfg.loadall, 0)}
                 |-> 0]
    /\ call = [c \in Clients |-> NoCall]
    /\ answer = [c \in Clients |-> NoAnswer]
    /\ leaked = 0
    /\ calls = 0

(* The list of fields of a read or scan: NextFieldName, or none. *)
Lists == IF cfg.readall THEN {FieldNames} ELSE {{f} : f \in Fieldnames(cfg.fieldcount)}

Invoke(c) ==
    /\ call[c] = NoCall /\ calls < MaxCalls
    /\ calls' = calls + 1
    /\ \E op \in cfg.mix, k \in Keys :
         \/ /\ op \in {"read", "scan"}
            /\ \E fields \in Lists :
                 call' = [call EXCEPT ![c] = [NoCall EXCEPT !.op = op, !.key = k,
                                                !.fields = fields,
                                                !.len = IF op = "scan" THEN ScanLen ELSE 0]]
         \/ /\ op \in {"insert", "update"}
            /\ call' = [call EXCEPT ![c] = [NoCall EXCEPT !.op = op, !.key = k,
                                              !.vals = Built(cfg.writeall, calls + 1)]]
         \/ /\ op = "delete"
            /\ call' = [call EXCEPT ![c] = [NoCall EXCEPT !.op = op, !.key = k]]
    /\ UNCHANGED <<cfg, db, answer, leaked>>

Waiting(c, op) == call[c].op = op /\ answer[c] = NoAnswer
Answer(c, a) == answer' = [answer EXCEPT ![c] = a]

-----------------------------------------------------------------------------
(***************************************************************************)
(* The loops of ReadCompKeyRM and ScanCompKeyRM.  From its p-th entry on,  *)
(* the iterator moves over at most fieldcount_ entries, whosever they are, *)
(* and with a list (of one field) no further than the field listed.        *)
(***************************************************************************)
Hits(it, p, fields) ==
    {i \in p .. Min({p + cfg.fieldcount - 1, Len(it)}) : FieldFromCompKey(it[i]) \in fields}

LastVisited(it, p, fields) ==
    IF fields # FieldNames /\ Hits(it, p, fields) # {} THEN Min(Hits(it, p, fields))
    ELSE Min({p + cfg.fieldcount - 1, Len(it)})

Visit(it, p, fields) ==
    LET hits == SetToSortSeq(Hits(it, p, fields) \cap (p .. LastVisited(it, p, fields)), <)
    IN  [i \in DOMAIN hits |-> [first |-> FieldFromCompKey(it[hits[i]]), second |-> db[it[hits[i]]]]]

(* The iterator is not deleted on the way out with kNotFound. *)
ReadCompKeyRM(c) ==
    LET key == Name(call[c].key)
        it == Seek(key)
    IN  IF it = <<>> \/ KeyFromCompKey(it[1]) # key
        THEN Answer(c, Result("notfound", <<>>)) /\ leaked' = leaked + 1
        ELSE Answer(c, Result("ok", <<Visit(it, 1, call[c].fields)>>)) /\ UNCHANGED leaked

(* Mutation: the iterator moves one entry too far between records. *)
NextRecordSkipping(it, p, fields) == LastVisited(it, p, fields) + 2

NextRecord(it, p, fields) == LastVisited(it, p, fields) + 1

ScanCompKeyRM(c) ==
    LET it == Seek(Name(call[c].key))
        fields == call[c].fields
        records[p \in 1 .. (Len(it) + 2), n \in 0 .. ScanLen] ==
            IF n = 0 \/ p > Len(it) THEN <<>>
            ELSE <<Visit(it, p, fields)>> \o records[NextRecord(it, p, fields), n - 1]
    IN  Answer(c, Result("ok", records[1, call[c].len])) /\ UNCHANGED leaked

(* ReadCompKeyCM and ScanCompKeyCM. *)
NotImplemented(c) == Answer(c, Result("notimplemented", <<>>)) /\ UNCHANGED leaked

Read(c) ==
    /\ Waiting(c, "read")
    /\ IF cfg.format = "row" THEN ReadCompKeyRM(c) ELSE NotImplemented(c)
    /\ UNCHANGED <<cfg, db, call, calls>>

Scan(c) ==
    /\ Waiting(c, "scan")
    /\ IF cfg.format = "row" THEN ScanCompKeyRM(c) ELSE NotImplemented(c)
    /\ UNCHANGED <<cfg, db, call, calls>>

(* method_insert_ and method_update_ are both InsertCompKey. *)
InsertCompKey(c) ==
    /\ Waiting(c, "insert") \/ Waiting(c, "update")
    /\ db' = Put(Name(call[c].key), call[c].vals)
    /\ Answer(c, Result("ok", <<>>))
    /\ UNCHANGED <<cfg, call, leaked, calls>>

DeleteCompKey(c) ==
    /\ Waiting(c, "delete")
    /\ db' = Without(Name(call[c].key))
    /\ Answer(c, Result("ok", <<>>))
    /\ UNCHANGED <<cfg, call, leaked, calls>>

Return(c) ==
    /\ answer[c] # NoAnswer
    /\ call' = [call EXCEPT ![c] = NoCall]
    /\ answer' = [answer EXCEPT ![c] = NoAnswer]
    /\ UNCHANGED <<cfg, db, leaked, calls>>

Next == \E c \in Clients :
    \/ Invoke(c) \/ Return(c)
    \/ Read(c) \/ Scan(c) \/ InsertCompKey(c) \/ DeleteCompKey(c)

Spec == Init /\ [][Next]_vars

-----------------------------------------------------------------------------
(* No key name begins with another one, as zero padding makes sure. *)
PrefixFree == \A j, k \in Keys : ~IsStrictPrefix(Name(j), Name(k))

(***************************************************************************)
(* The conditions under which the format keeps to db.h: the records have   *)
(* the same fields at loading and now; these have names (or there is only  *)
(* one, and no delete, which goes by name); a scan does not list fields;   *)
(* and no key name begins with another one, which "1:" and "10:" would     *)
(* swap in the order of entries.                                           *)
(***************************************************************************)
Covered ==
    /\ cfg.writeall = cfg.loadall
    /\ cfg.writeall \/ (cfg.fieldcount = 1 /\ "delete" \notin cfg.mix)
    /\ "scan" \in cfg.mix => cfg.readall \/ cfg.fieldcount = 1
    /\ PrefixFree

(***************************************************************************)
(* Under them the entries are a table of records as db.h describes it, in  *)
(* which an update of a key that has no record inserts one: reads and      *)
(* scans return the records' own fields, although the loops of the code    *)
(* never look at whose entries they take.                                  *)
(***************************************************************************)
EntriesImplementTable ==
    [][Covered => Contract!Next]_<<table, call, answer>>

(***************************************************************************)
(* Under them a read of a key that has a record never leaves its iterator  *)
(* behind: ReadCompKeyRM returns kNotFound without deleting it, so a key   *)
(* that is there but not found would leak one at every read.               *)
(***************************************************************************)
LeaksOnlyOnMiss ==
    [][leaked' # leaked /\ Covered =>
         \E c \in Clients : Waiting(c, "read") /\ table[call[c].key] = NoRow]_vars
=============================================================================
