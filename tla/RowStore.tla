------------------------------ MODULE RowStore ------------------------------
(***************************************************************************)
(* The record operations of the bindings that keep a whole row under its   *)
(* key: rocksdb, leveldb (format "single"), lmdb, wiredtiger, sqlocal and  *)
(* postgres, called by concurrent client threads with the rows that        *)
(* CoreWorkload builds.                                                    *)
(*                                                                         *)
(* A row is the function from its field names to values.  SerializeRow and *)
(* DeserializeRow, which turn it into bytes and back, are modelled by what *)
(* they are in RowCodec; here a row is stored as it is.                    *)
(* Assertions are compiled out (NDEBUG), as in the release build.  What    *)
(* differs from binding to binding is in the trait records below.          *)
(***************************************************************************)
EXTENDS Integers, Sequences, FiniteSetsExt, SequencesExt

CONSTANTS
    Clients,     \* the client threads
    K,           \* the keys are 1 .. K; NoClient is not a client
    F,           \* fieldcount
    Bindings,    \* the bindings to check, by name
    Mixes,       \* the sets of operations the workload may mix
    ScanLen,     \* the length of scans
    MaxCalls,    \* bound: calls of all clients together
    NoClient

ASSUME RowStoreAssumption ==
    /\ {K, F, ScanLen} \subseteq Nat \ {0} /\ MaxCalls \in Nat
    /\ NoClient \notin Clients
    /\ Bindings \subseteq {"rocksdb", "leveldb", "wiredtiger", "lmdb", "sqlocal", "postgres"}

VARIABLES
    cfg,      \* the binding, the mix, readallfields, writeallfields now and at loading,
              \* and whether the values of a row exceed VARCHAR(255) (postgres)
    table,    \* the rows in the database
    call,     \* the call each client is in
    answer,   \* what it will return
    held,     \* what an update in progress read
    writer,   \* lmdb: the client whose write transaction is open
    calls,    \* how many calls there were; the values of a call's row are its number
    exited    \* an exception ended the process (ClientThread)

vars == <<cfg, table, call, answer, held, writer, calls, exited>>

Keys == 1 .. K
Unnamed == -1                      \* the empty field name
FieldNames == {Unnamed} \cup 0 .. (F - 1)
Cut == -1                          \* a value of which only the first 255 bytes are left
Values == Cut .. MaxCalls

Contract == INSTANCE DbContract WITH Upserts <- FALSE

NoRow == Contract!NoRow
NoCall == Contract!NoCall
NoAnswer == Contract!NoAnswer
Status(s) == [status |-> s, rows |-> <<>>]

-----------------------------------------------------------------------------
(***************************************************************************)
(* The bindings.                                                           *)
(*   update  "get_put": read the row, then write it back;                  *)
(*           "txn": the same in a write transaction; "replace": one        *)
(*           statement that writes the given fields as the whole row       *)
(*   absent  what an update of an absent key comes to                      *)
(*   insert  "put": overwrites; "unique": refuses a key that is there      *)
(*   remove  what a delete of an absent key may come to                    *)
(*   scan    "iterate": from the first key at or after the given one;      *)
(*           "exact": only from a key that is there; "repeat": the cursor  *)
(*           is not moved between records; "none": not implemented         *)
(*   filter  a read honours the list of fields                             *)
(*   packs   the values are stored as one string, without field names      *)
(***************************************************************************)
RocksdbDB == [update |-> "get_put", absent |-> "notfound", insert |-> "put",
              remove |-> {"ok"}, scan |-> "iterate", filter |-> TRUE, packs |-> FALSE]

LeveldbDB == [update |-> "get_put", absent |-> "notfound", insert |-> "put",
              remove |-> {"ok"}, scan |-> "iterate", filter |-> TRUE, packs |-> FALSE]

(* WiredTiger's remove of an absent key is an error or not, by its version. *)
WTDB == [update |-> "get_put", absent |-> "notfound", insert |-> "put",
         remove |-> {"ok", "throw"}, scan |-> "repeat", filter |-> TRUE, packs |-> FALSE]

LmdbDB == [update |-> "txn", absent |-> "throw", insert |-> "put",
           remove |-> {"throw"}, scan |-> "exact", filter |-> TRUE, packs |-> FALSE]

SQLocalDB == [update |-> "replace", absent |-> "ok", insert |-> "unique",
              remove |-> {"ok"}, scan |-> "none", filter |-> FALSE, packs |-> FALSE]

PostgresDB == [update |-> "replace", absent |-> "notfound", insert |-> "unique",
               remove |-> {"ok"}, scan |-> "none", filter |-> FALSE, packs |-> TRUE]

Traits(b) == CASE b = "rocksdb" -> RocksdbDB
               [] b = "leveldb" -> LeveldbDB
               [] b = "wiredtiger" -> WTDB
               [] b = "lmdb" -> LmdbDB
               [] b = "sqlocal" -> SQLocalDB
               [] b = "postgres" -> PostgresDB

Db == Traits(cfg.binding)

(* BuildValues names the fields; BuildSingleValue leaves the name empty. *)
Built(writeall, v) == [f \in IF writeall THEN 0 .. (F - 1) ELSE {Unnamed} |-> v]

(* for (auto &f : values) value.append(f.second): one string, read back unnamed. *)
Stored(row) == IF Db.packs THEN [f \in {Unnamed} |-> row[Min(DOMAIN row)]] ELSE row

(* VALUES (key, $1::varchar(255)) *)
Inserted(row) == IF Db.packs /\ cfg.long THEN [f \in {Unnamed} |-> Cut] ELSE Stored(row)

Configs == [binding : Bindings, mix : Mixes, readall : BOOLEAN, writeall : BOOLEAN,
            loadall : BOOLEAN, long : BOOLEAN]

Init ==
    /\ cfg \in Configs
    /\ cfg.long => Db.packs
    /\ \E loaded \in SUBSET Keys :
         table = [k \in Keys |-> IF k \in loaded THEN Inserted(Built(cfg.loadall, 0)) ELSE NoRow]
    /\ call = [c \in Clients |-> NoCall]
    /\ answer = [c \in Clients |-> NoAnswer]
    /\ held = [c \in Clients |-> NoRow]
    /\ writer = NoClient
    /\ calls = 0
    /\ exited = FALSE

Present(k) == table[k] # NoRow
Waiting(c, op) == ~exited /\ call[c].op = op /\ answer[c] = NoAnswer
Answer(c, a) == answer' = [answer EXCEPT ![c] = a]

(* Mutation: two write transactions at a time. *)
MayWriteAlways == TRUE

(* lmdb has one write transaction at a time; a scan opens one too. *)
MayWrite == Db.update = "txn" => writer = NoClient

Throw == exited' = TRUE /\ UNCHANGED <<table, answer>>

-----------------------------------------------------------------------------
(* The fields NextFieldName lists, or no list. *)
Fields == IF cfg.readall THEN {FieldNames} ELSE {{f} : f \in 0 .. (F - 1)}

Invoke(c) ==
    /\ ~exited /\ call[c] = NoCall /\ calls < MaxCalls
    /\ calls' = calls + 1
    /\ \E op \in cfg.mix, k \in Keys :
         \/ /\ op \in {"read", "scan"}
            /\ \E fields \in Fields :
                 call' = [call EXCEPT ![c] = [NoCall EXCEPT !.op = op, !.key = k,
                                                !.fields = fields,
                                                !.len = IF op = "scan" THEN ScanLen ELSE 0]]
         \/ /\ op \in {"insert", "update"}
            /\ call' = [call EXCEPT ![c] = [NoCall EXCEPT !.op = op, !.key = k,
                                              !.vals = Built(cfg.writeall, calls + 1)]]
         \/ /\ op = "delete"
            /\ call' = [call EXCEPT ![c] = [NoCall EXCEPT !.op = op, !.key = k]]
    /\ UNCHANGED <<cfg, table, answer, held, writer, exited>>

Filtered(row, fields) == IF Db.filter THEN Contract!Project(row, fields) ELSE row

Read(c) ==
    /\ Waiting(c, "read")
    /\ LET row == table[call[c].key]
       IN  Answer(c, IF row = NoRow THEN Status("notfound")
                     ELSE Contract!Ok(<<Filtered(row, call[c].fields)>>))
    /\ UNCHANGED <<cfg, table, call, held, writer, calls, exited>>

Scanned(c) ==
    LET rows == Contract!RangeFrom(call[c].key, call[c].len)
        out == IF Db.scan = "repeat" /\ rows # <<>>
               THEN [i \in 1 .. call[c].len |-> rows[1]] ELSE rows
    IN  [i \in DOMAIN out |-> Filtered(out[i], call[c].fields)]

(* search_near on an empty table is WT_NOTFOUND, which error_check throws. *)
Scan(c) ==
    /\ Waiting(c, "scan") /\ MayWrite
    /\ \/ /\ Db.scan = "repeat" /\ \A k \in Keys : ~Present(k)
          /\ Throw
       \/ /\ Db.scan = "repeat" => \E k \in Keys : Present(k)
          /\ Answer(c, IF Db.scan = "none" THEN Status("notimplemented")
                       ELSE IF Db.scan = "exact" /\ ~Present(call[c].key)
                       THEN Status("notfound")
                       ELSE Contract!Ok(Scanned(c)))
          /\ UNCHANGED <<table, exited>>
    /\ UNCHANGED <<cfg, call, held, writer, calls>>

Insert(c) ==
    /\ Waiting(c, "insert") /\ MayWrite
    /\ IF Db.insert = "unique" /\ Present(call[c].key)
       THEN Answer(c, Status("error")) /\ UNCHANGED table
       ELSE /\ table' = [table EXCEPT ![call[c].key] = Inserted(call[c].vals)]
            /\ Answer(c, Status("ok"))
    /\ UNCHANGED <<cfg, call, held, writer, calls, exited>>

Delete(c) ==
    /\ Waiting(c, "delete") /\ MayWrite
    /\ \/ /\ Present(call[c].key) \/ "ok" \in Db.remove
          /\ table' = [table EXCEPT ![call[c].key] = NoRow]
          /\ Answer(c, Status("ok"))
          /\ UNCHANGED exited
       \/ ~Present(call[c].key) /\ "throw" \in Db.remove /\ Throw
    /\ UNCHANGED <<cfg, call, held, writer, calls>>

-----------------------------------------------------------------------------
(* Update *)

(* Get, or mdb_txn_begin and mdb_get, or cursor search. *)
UpdateGet(c) ==
    /\ Waiting(c, "update") /\ Db.update \in {"get_put", "txn"} /\ held[c] = NoRow /\ MayWrite
    /\ \/ /\ Present(call[c].key)
          /\ held' = [held EXCEPT ![c] = table[call[c].key]]
          /\ writer' = IF Db.update = "txn" THEN c ELSE writer
          /\ UNCHANGED <<table, answer, exited>>
       \/ /\ ~Present(call[c].key) /\ Db.absent = "throw"
          /\ Throw
          /\ UNCHANGED <<held, writer>>
       \/ /\ ~Present(call[c].key) /\ Db.absent # "throw"
          /\ Answer(c, Status(Db.absent))
          /\ UNCHANGED <<table, held, writer, exited>>
    /\ UNCHANGED <<cfg, call, calls>>

(* Mutation: only the first field is written. *)
MergedFirstOnly(row, vals) == [row EXCEPT ![Min(DOMAIN row)] = vals[Min(DOMAIN vals)]]

(* For each new field the first current field of that name; others are ignored. *)
Merged(row, vals) == [f \in DOMAIN row |-> IF f \in DOMAIN vals THEN vals[f] ELSE row[f]]

(* Mutation: the transaction is not committed. *)
WriterAfterKept == writer

WriterAfter == NoClient      \* mdb_txn_commit

(* Put, or mdb_put and mdb_txn_commit, or cursor update (overwrite=true). *)
UpdatePut(c) ==
    /\ Waiting(c, "update") /\ held[c] # NoRow
    /\ table' = [table EXCEPT ![call[c].key] = Merged(held[c], call[c].vals)]
    /\ held' = [held EXCEPT ![c] = NoRow]
    /\ writer' = WriterAfter
    /\ Answer(c, Status("ok"))
    /\ UNCHANGED <<cfg, call, calls, exited>>

(* UPDATE ... SET value = ? WHERE key = ? *)
UpdateStatement(c) ==
    /\ Waiting(c, "update") /\ Db.update = "replace"
    /\ IF Present(call[c].key)
       THEN /\ table' = [table EXCEPT ![call[c].key] = Stored(call[c].vals)]
            /\ Answer(c, Status("ok"))
       ELSE Answer(c, Status(Db.absent)) /\ UNCHANGED table
    /\ UNCHANGED <<cfg, call, held, writer, calls, exited>>

Return(c) ==
    /\ ~exited /\ answer[c] # NoAnswer
    /\ call' = [call EXCEPT ![c] = NoCall]
    /\ answer' = [answer EXCEPT ![c] = NoAnswer]
    /\ UNCHANGED <<cfg, table, held, writer, calls, exited>>

Next == \E c \in Clients :
    \/ Invoke(c) \/ Return(c)
    \/ Read(c) \/ Scan(c) \/ Insert(c) \/ Delete(c)
    \/ UpdateGet(c) \/ UpdatePut(c) \/ UpdateStatement(c)

Spec == Init /\ [][Next]_vars

-----------------------------------------------------------------------------
RowsTypeOK ==
    /\ cfg \in Configs
    /\ table \in [Keys -> Contract!Rows]
    /\ call \in [Clients -> Contract!Calls \cup {NoCall}]
    /\ answer = [c \in Clients |-> answer[c]]
    /\ \A c \in Clients : answer[c] # NoAnswer => call[c] # NoCall
    /\ held \in [Clients -> Contract!Rows]
    /\ writer # NoClient => writer \in Clients /\ held[writer] # NoRow
    /\ calls \in 0 .. MaxCalls /\ exited \in BOOLEAN

Shapes == {0 .. (F - 1), {Unnamed}}
Whole(row) == DOMAIN row \in Shapes /\ \A f, g \in DOMAIN row : row[f] = row[g]

(***************************************************************************)
(* A row is always exactly what one insert or one update wrote, whatever   *)
(* updates of it overlap: every update CoreWorkload issues writes all the  *)
(* fields of the rows it loaded, so the unprotected read-modify-write of   *)
(* UpdateSingle never mixes two updates.                                   *)
(***************************************************************************)
RowsWhole == \A k \in Keys : Present(k) => Whole(table[k])

(***************************************************************************)
(* The conditions under which a binding keeps to db.h: the rows have the   *)
(* same fields at loading and now; nothing is deleted between the read and *)
(* the write of an update that is not a transaction; the cursor of a scan  *)
(* moves; a read that lists fields is given to a binding that looks at     *)
(* them; rows stored as one string have one short, unnamed field.          *)
(***************************************************************************)
Covered ==
    /\ cfg.writeall = cfg.loadall
    /\ Db.update = "get_put" => "delete" \notin cfg.mix
    /\ Db.scan = "repeat" => "scan" \notin cfg.mix
    /\ Db.filter \/ cfg.readall
    /\ Db.packs => ~cfg.writeall /\ ~cfg.long

(***************************************************************************)
(* Under them the binding is a table of records as db.h describes it: each *)
(* call takes effect at once, between its invocation and its return, and   *)
(* returns what the table then holds.                                      *)
(***************************************************************************)
ImplementsContract == [][Covered => Contract!Next]_<<table, call, answer>>

-----------------------------------------------------------------------------
(* Why a binding keeps to the contract, as an invariant that every step preserves. *)

(* What is written now: the names of its fields. *)
Shape == DOMAIN Built(cfg.writeall, 0)

GoodRow(row) ==
    /\ row \in Contract!Rows
    /\ Whole(row)
    /\ Covered => DOMAIN row = Shape

(* A call is one that the workload makes. *)
CallInv ==
    \A c \in Clients : call[c] # NoCall =>
        /\ call[c].op \in cfg.mix
        /\ call[c].op \in {"insert", "update"} =>
             \E v \in 1 .. MaxCalls : call[c].vals = Built(cfg.writeall, v)
        /\ call[c].op = "read" /\ cfg.readall => call[c].fields = FieldNames

RowsInv == \A k \in Keys : Present(k) => GoodRow(table[k])

(* What an update has read is a row; where nothing deletes it, it is still there to *)
(* be written, and an lmdb update that has read is the one that may write.          *)
HeldInv ==
    /\ \A c \in Clients : held[c] # NoRow =>
         /\ call[c].op = "update" /\ answer[c] = NoAnswer
         /\ Db.update \in {"get_put", "txn"}
         /\ GoodRow(held[c])
         /\ Db.update = "txn" => writer = c
         /\ Db.update = "txn" \/ "delete" \notin cfg.mix => Present(call[c].key)
    /\ writer # NoClient => Db.update = "txn"

(***************************************************************************)
(* The types, and: rows are whole and shaped as the workload writes them,  *)
(* and the row that an update in progress read has not been deleted where  *)
(* the binding or the workload rules that out.                             *)
(***************************************************************************)
StoreInv == RowsTypeOK /\ CallInv /\ RowsInv /\ HeldInv
=============================================================================
