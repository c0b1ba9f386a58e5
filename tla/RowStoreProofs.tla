--------------------------- MODULE RowStoreProofs ---------------------------
(***************************************************************************)
(* The record operations of the embedded bindings, for every number of     *)
(* clients, keys, fields and calls: rows are whole, and under the          *)
(* conditions of Covered each step of a binding is a step of DbContract.   *)
(***************************************************************************)
EXTENDS RowStore, TLAPS

-----------------------------------------------------------------------------
(* The bindings, and the rows the workload writes. *)

(* What the six bindings have in common. *)
LEMMA DbTraits ==
    ASSUME cfg \in Configs
    PROVE  /\ Db.update \in {"get_put", "txn", "replace"}
           /\ Db.update = "get_put" => Db.absent = "notfound"
           /\ Db.update = "replace" => Db.absent \in {"ok", "notfound"}
           /\ Db.packs => Db.update = "replace"
           /\ Db.scan # "none" => Db.filter
<1>1. cfg.binding \in {"rocksdb", "leveldb", "wiredtiger", "lmdb", "sqlocal", "postgres"}
  BY RowStoreAssumption DEF Configs
<1> QED
  BY <1>1 DEF Db, Traits, RocksdbDB, LeveldbDB, WTDB, LmdbDB, SQLocalDB, PostgresDB

(* Names and values: a row has all the fields or the one without a name. *)
LEMMA ShapesDisjoint ==
    /\ \A S \in Shapes : S # {} /\ S \subseteq FieldNames
    /\ \A S, T \in Shapes : S # T => S \cap T = {}
<1>1. F \in Nat /\ F # 0
  BY RowStoreAssumption
<1> QED BY <1>1 DEF Shapes, FieldNames, Unnamed

(* A row that something wrote is not absent. *)
LEMMA WholeIsPresent == ASSUME NEW row, Whole(row) PROVE row # NoRow
<1>1. DOMAIN row # {}
  BY ShapesDisjoint DEF Whole
<1>2. DOMAIN NoRow = {}
  BY DEF NoRow, Contract!NoRow
<1> QED BY <1>1, <1>2

(* The absent row is one of the contract's. *)
LEMMA NoRowIsRow == NoRow \in Contract!Rows
<1>1. NoRow \in [{} -> Values]
  BY DEF NoRow, Contract!NoRow
<1> QED BY <1>1 DEF Contract!Rows

(* The functions on a shape that are constant are whole rows. *)
LEMMA ConstantIsWhole ==
    ASSUME NEW S \in Shapes, NEW v \in Values
    PROVE  LET row == [f \in S |-> v] IN row \in Contract!Rows /\ Whole(row)
<1> DEFINE row == [f \in S |-> v]
<1>1. row \in [S -> Values] /\ S \in SUBSET FieldNames
  BY ShapesDisjoint
<1>2. row \in Contract!Rows
  BY <1>1 DEF Contract!Rows
<1>3. Whole(row)
  BY DEF Whole
<1> QED BY <1>2, <1>3

(* The fields of the configured rows are one of the shapes. *)
LEMMA ShapeIsOne == ASSUME cfg \in Configs PROVE Shape \in Shapes
BY DEF Shape, Shapes, Built

(* The number of a call, a cut value and no value are values. *)
LEMMA ValueTypes == Cut \in Values /\ 0 \in Values /\ 1 .. MaxCalls \subseteq Values
BY RowStoreAssumption DEF Cut, Values

(* A row that a call builds is good, and has the configured fields. *)
LEMMA BuiltIsGood ==
    ASSUME cfg \in Configs, NEW v \in Values
    PROVE  GoodRow(Built(cfg.writeall, v)) /\ DOMAIN Built(cfg.writeall, v) = Shape
<1>1. Built(cfg.writeall, v) = [f \in Shape |-> v]
  BY DEF Built, Shape
<1>2. Shape \in Shapes
  BY ShapeIsOne
<1> HIDE DEF Shape
<1> QED BY <1>1, <1>2, ConstantIsWhole DEF GoodRow

(* The least field of a shape is in it. *)
LEMMA LeastOfShape == ASSUME NEW S \in Shapes PROVE Min(S) \in S
<1>1. F \in Nat /\ F # 0
  BY RowStoreAssumption
<1>2. \E x \in S : \A y \in S : x <= y
  <2>1. CASE S = 0 .. (F - 1)
    <3>1. 0 \in S /\ \A y \in S : 0 <= y
      BY <1>1, <2>1
    <3> QED BY <3>1
  <2>2. CASE S = {Unnamed}
    BY <2>2 DEF Unnamed
  <2> QED BY <2>1, <2>2 DEF Shapes
<1>3. Min(S) = CHOOSE x \in S : \A y \in S : x <= y
  BY DEF Min
<1> QED BY <1>2, <1>3, Zenon

(* What the database is given for a row that was built. *)
LEMMA StoredIsGood ==
    ASSUME cfg \in Configs, NEW all \in BOOLEAN, NEW v \in Values
    PROVE  LET row == Built(all, v)
           IN  /\ Stored(row) \in Contract!Rows /\ Whole(Stored(row))
               /\ Inserted(row) \in Contract!Rows /\ Whole(Inserted(row))
               /\ Covered /\ all = cfg.writeall => Stored(row) = row /\ Inserted(row) = row
<1> DEFINE row == Built(all, v)
           S == DOMAIN row
<1>1. S \in Shapes /\ row = [f \in S |-> v]
  BY DEF Built, Shapes
<1>2. row \in Contract!Rows /\ Whole(row)
  BY <1>1, ConstantIsWhole
<1>3. row[Min(S)] = v
  BY <1>1, LeastOfShape
<1>4. {Unnamed} \in Shapes
  BY DEF Shapes
<1>5. Db.packs => Stored(row) = [f \in {Unnamed} |-> v]
  BY <1>3 DEF Stored
<1>6. Stored(row) \in Contract!Rows /\ Whole(Stored(row))
  <2>1. CASE Db.packs
    BY <1>4, <1>5, <2>1, ConstantIsWhole
  <2>2. CASE ~Db.packs
    BY <1>2, <2>2 DEF Stored
  <2> QED BY <2>1, <2>2
<1>7. Inserted(row) \in Contract!Rows /\ Whole(Inserted(row))
  <2>1. CASE Db.packs /\ cfg.long
    BY <1>4, <2>1, ConstantIsWhole, ValueTypes DEF Inserted
  <2>2. CASE ~(Db.packs /\ cfg.long)
    BY <1>6, <2>2 DEF Inserted
  <2> QED BY <2>1, <2>2
<1>8. ASSUME Covered, all = cfg.writeall PROVE Stored(row) = row /\ Inserted(row) = row
  <2>1. CASE Db.packs
    <3>1. ~all /\ ~cfg.long
      BY <1>8, <2>1 DEF Covered
    <3>2. row = [f \in {Unnamed} |-> v]
      BY <3>1 DEF Built
    <3> QED BY <1>5, <2>1, <3>1, <3>2 DEF Inserted
  <2>2. CASE ~Db.packs
    BY <2>2 DEF Stored, Inserted
  <2> QED BY <2>1, <2>2
<1> QED BY <1>6, <1>7, <1>8

(* An update that found a row leaves it whole, and under Covered is all of the new one. *)
LEMMA MergedIsGood ==
    ASSUME cfg \in Configs, NEW row, GoodRow(row), NEW v \in Values
    PROVE  LET vals == Built(cfg.writeall, v)
           IN  /\ GoodRow(Merged(row, vals))
               /\ Covered => Merged(row, vals) = vals /\ Contract!Overlay(row, vals) = vals
<1> DEFINE vals == Built(cfg.writeall, v)
<1>1. vals = [f \in Shape |-> v] /\ GoodRow(vals) /\ Shape \in Shapes
  BY BuiltIsGood, ShapeIsOne DEF Built, Shape
<1>2. DOMAIN row \in Shapes /\ row = [f \in DOMAIN row |-> row[f]]
  BY DEF GoodRow, Whole, Contract!Rows
<1> HIDE DEF vals
<1>3. CASE DOMAIN row = Shape
  <2>1. Merged(row, vals) = vals
    BY <1>1, <1>3 DEF Merged
  <2>2. Contract!Overlay(row, vals) = vals
    BY <1>1, <1>3 DEF Contract!Overlay
  <2> QED BY <1>1, <2>1, <2>2 DEF vals
<1>4. CASE DOMAIN row # Shape
  <2>1. DOMAIN row \cap Shape = {}
    BY <1>1, <1>2, <1>4, ShapesDisjoint
  <2>2. Merged(row, vals) = row
    BY <1>1, <1>2, <2>1 DEF Merged
  <2>3. ~Covered
    BY <1>4 DEF GoodRow
  <2> QED BY <2>2, <2>3 DEF vals
<1> QED BY <1>3, <1>4

-----------------------------------------------------------------------------
(* The invariant. *)

(* The invariant holds for an empty table. *)
LEMMA InitStore == Init => StoreInv
<1> SUFFICES ASSUME Init PROVE StoreInv
  OBVIOUS
<1> DEFINE first == Inserted(Built(cfg.loadall, 0))
<1>0. PICK loaded \in SUBSET Keys : table = [k \in Keys |-> IF k \in loaded THEN first ELSE NoRow]
  BY DEF Init
<1>1. cfg \in Configs /\ cfg.loadall \in BOOLEAN /\ cfg.writeall \in BOOLEAN
  BY DEF Init, Configs
<1>2. first \in Contract!Rows /\ Whole(first) /\ (Covered => DOMAIN first = Shape)
  <2>1. cfg.loadall \in BOOLEAN /\ 0 \in Values
    BY <1>1, ValueTypes
  <2>2. first \in Contract!Rows /\ Whole(first) /\ (Covered => first = Built(cfg.writeall, 0))
    BY <1>1, <2>1, StoredIsGood DEF Covered
  <2> QED BY <2>2 DEF Shape
<1> HIDE DEF first
<1>3. \A k \in Keys : table[k] \in {first, NoRow}
  BY <1>0
<1>4. RowsInv
  BY <1>2, <1>3 DEF RowsInv, Present, GoodRow
<1>5. RowsTypeOK
  <2>1. table \in [Keys -> Contract!Rows]
    BY <1>0, <1>2, NoRowIsRow
  <2>2. held \in [Clients -> Contract!Rows] /\ call \in [Clients -> Contract!Calls \cup {NoCall}]
    BY NoRowIsRow DEF Init
  <2>3. calls \in 0 .. MaxCalls
    BY RowStoreAssumption DEF Init
  <2> QED BY <1>1, <2>1, <2>2, <2>3 DEF RowsTypeOK, Init
<1>6. CallInv /\ HeldInv
  BY DEF CallInv, HeldInv, Init
<1> QED BY <1>4, <1>5, <1>6 DEF StoreInv

(* The binding and the conditions on it do not change. *)
LEMMA CfgFrame ==
    ASSUME UNCHANGED cfg
    PROVE  Db' = Db /\ Covered' = Covered /\ Shape' = Shape /\ \A row : GoodRow(row)' <=> GoodRow(row)
BY DEF Db, Traits, Covered, Shape, GoodRow, Built, Whole, Contract!Rows

(* The client in a call, and what the call was made with. *)
LEMMA InCall ==
    ASSUME StoreInv, NEW c \in Clients, call[c].op # "none"
    PROVE  /\ call[c] # NoCall /\ call[c] \in Contract!Calls /\ call[c].key \in Keys
           /\ call[c].op \in cfg.mix /\ cfg \in Configs
           /\ call[c].op \in {"insert", "update"} =>
                \E v \in Values : call[c].vals = Built(cfg.writeall, v)
<1>1. call[c] # NoCall
  BY DEF NoCall, Contract!NoCall
<1>2. call[c] \in Contract!Calls /\ cfg \in Configs
  BY <1>1 DEF StoreInv, RowsTypeOK
<1>3. call[c].key \in Keys
  BY <1>2 DEF Contract!Calls
<1> QED BY <1>1, <1>2, <1>3, ValueTypes DEF StoreInv, CallInv

(* A step that answers c's call, with or without a change of the table. *)
LEMMA AnswerStep ==
    ASSUME StoreInv, NEW c \in Clients, call[c].op # "none", held[c] = NoRow,
           NEW a, answer' = [answer EXCEPT ![c] = a],
           UNCHANGED <<cfg, call, held, writer, calls, exited>>,
           table' \in [Keys -> Contract!Rows],
           \A k \in Keys : table'[k] # NoRow => GoodRow(table'[k]),
           \A k \in Keys : Present(k) /\ table'[k] = NoRow =>
                "delete" \in cfg.mix /\ ~(Db.update = "txn" /\ writer # NoClient)
    PROVE  StoreInv'
<1> USE DEF StoreInv
<1>0. call[c] # NoCall /\ c \in Clients
  BY InCall
<1>1. RowsTypeOK'
  <2>1. answer' = [d \in Clients |-> answer'[d]] /\ \A d \in Clients : d # c => answer'[d] = answer[d]
    BY DEF RowsTypeOK
  <2>2. \A d \in Clients : answer'[d] # NoAnswer => call'[d] # NoCall
    BY <1>0, <2>1 DEF RowsTypeOK
  <2> QED BY <2>1, <2>2 DEF RowsTypeOK
<1>2. CallInv'
  BY DEF CallInv
<1>3. RowsInv'
  BY CfgFrame DEF RowsInv, Present
<1>4. HeldInv'
  <2>1. \A d \in Clients : held[d] # NoRow => d # c /\ answer'[d] = answer[d]
    BY DEF RowsTypeOK
  <2>2. ASSUME NEW d \in Clients, held[d] # NoRow, Db.update = "txn" \/ "delete" \notin cfg.mix
        PROVE  Present(call[d].key)'
    <3>1. Present(call[d].key) /\ call[d].key \in Keys
      BY <2>2, InCall DEF HeldInv
    <3>2. Db.update = "txn" => writer # NoClient
      BY <2>2, RowStoreAssumption DEF HeldInv
    <3> QED BY <2>2, <3>1, <3>2 DEF Present
  <2> QED BY <2>1, <2>2, CfgFrame DEF HeldInv
<1> QED BY <1>1, <1>2, <1>3, <1>4

(* An exception that ends the process keeps the invariant. *)
LEMMA ThrowStep ==
    ASSUME StoreInv, UNCHANGED <<cfg, table, call, answer, held, writer, calls>>, exited' \in BOOLEAN
    PROVE  StoreInv'
<1>1. RowsTypeOK' /\ CallInv'
  BY DEF StoreInv, RowsTypeOK, CallInv
<1>2. RowsInv' /\ HeldInv'
  BY CfgFrame DEF StoreInv, RowsInv, HeldInv, Present
<1> QED BY <1>1, <1>2 DEF StoreInv

(* Only an update holds a row it has read. *)
LEMMA NotHeld ==
    ASSUME StoreInv, NEW c \in Clients, call[c].op # "update"
    PROVE  held[c] = NoRow
BY DEF StoreInv, HeldInv

(* Writing one row leaves the others. *)
LEMMA PutRow ==
    ASSUME table \in [Keys -> Contract!Rows], NEW key, NEW row \in Contract!Rows,
           UNCHANGED table \/ table' = [table EXCEPT ![key] = row]
    PROVE  /\ table' \in [Keys -> Contract!Rows]
           /\ \A k \in Keys : table'[k] = table[k] \/ table'[k] = row
<1>1. table' \in [Keys -> Contract!Rows]
  OBVIOUS
<1>2. \A k \in Keys : table'[k] = table[k] \/ table'[k] = row
  OBVIOUS
<1> QED BY <1>1, <1>2

(* No call of the contract is the absence of one. *)
LEMMA NoCallIsNone == ASSUME NEW x \in Contract!Calls PROVE x # NoCall
<1>1. x.op # "none"
  BY DEF Contract!Calls
<1> QED BY <1>1 DEF NoCall, Contract!NoCall

(* The calls the workload makes are calls of the contract. *)
LEMMA InvokeEffect ==
    ASSUME StoreInv, NEW c \in Clients, Invoke(c)
    PROVE  /\ call[c] = NoCall /\ calls' = calls + 1 /\ calls + 1 \in 1 .. MaxCalls
           /\ UNCHANGED <<cfg, table, answer, held, writer, exited>>
           /\ call'[c] \in Contract!Calls /\ call'[c].op \in cfg.mix
           /\ call' = [call EXCEPT ![c] = call'[c]]
           /\ call'[c].op \in {"insert", "update"} => call'[c].vals = Built(cfg.writeall, calls + 1)
           /\ call'[c].op = "read" /\ cfg.readall => call'[c].fields = FieldNames
<1>0. cfg \in Configs /\ calls \in 0 .. MaxCalls /\ call \in [Clients -> Contract!Calls \cup {NoCall}]
  BY DEF StoreInv, RowsTypeOK
<1>1. /\ call[c] = NoCall /\ calls' = calls + 1 /\ calls < MaxCalls
      /\ UNCHANGED <<cfg, table, answer, held, writer, exited>>
  BY DEF Invoke
<1>2. calls + 1 \in 1 .. MaxCalls
  BY <1>0, <1>1, RowStoreAssumption
<1> DEFINE built == Built(cfg.writeall, calls + 1)
<1>3. built \in Contract!Rows
  BY <1>0, <1>2, ValueTypes, BuiltIsGood DEF GoodRow
<1>4. NoRow \in Contract!Rows /\ ScanLen \in Nat /\ \A S \in Fields : S \subseteq FieldNames
  BY NoRowIsRow, RowStoreAssumption, SMTT(30) DEF Fields, FieldNames
<1>5. PICK o \in cfg.mix, k \in Keys :
        \/ /\ o \in {"read", "scan"}
           /\ \E fields \in Fields :
                call' = [call EXCEPT ![c] = [NoCall EXCEPT !.op = o, !.key = k,
                            !.fields = fields, !.len = IF o = "scan" THEN ScanLen ELSE 0]]
        \/ /\ o \in {"insert", "update"}
           /\ call' = [call EXCEPT ![c] = [NoCall EXCEPT !.op = o, !.key = k, !.vals = built]]
        \/ o = "delete" /\ call' = [call EXCEPT ![c] = [NoCall EXCEPT !.op = o, !.key = k]]
  BY DEF Invoke
<1> HIDE DEF built
<1> DEFINE made(vals, fields, len) ==
             [op |-> o, key |-> k, vals |-> vals, fields |-> fields, len |-> len]
<1>6. ASSUME NEW vals \in Contract!Rows, NEW fields \in SUBSET FieldNames, NEW len \in Nat,
             o \in {"read", "scan", "insert", "update", "delete"}
      PROVE  made(vals, fields, len) \in Contract!Calls
  BY <1>6 DEF Contract!Calls
<1>7. CASE o \in {"read", "scan"}
  <2>1. PICK fields \in Fields :
          call' = [call EXCEPT ![c] = [NoCall EXCEPT !.op = o, !.key = k, !.fields = fields,
                                         !.len = IF o = "scan" THEN ScanLen ELSE 0]]
    BY <1>5, <1>7
  <2> DEFINE len == IF o = "scan" THEN ScanLen ELSE 0
  <2>2. call'[c] = made(NoRow, fields, len) /\ call' = [call EXCEPT ![c] = call'[c]]
    BY <1>0, <2>1 DEF NoCall, Contract!NoCall, NoRow
  <2>3. fields \in SUBSET FieldNames /\ len \in Nat
    BY <1>4
  <2>4. made(NoRow, fields, len) \in Contract!Calls
    <3> HIDE DEF made, len
    <3> QED BY <1>4, <1>6, <1>7, <2>3
  <2>5. cfg.readall => fields = FieldNames
    BY DEF Fields
  <2>6. call'[c].op = o /\ call'[c].fields = fields
    BY <2>2
  <2> HIDE DEF made, len
  <2> QED BY <1>1, <1>2, <1>7, <2>2, <2>4, <2>5, <2>6
<1>8. CASE o \in {"insert", "update"}
  <2>1. call' = [call EXCEPT ![c] = [NoCall EXCEPT !.op = o, !.key = k, !.vals = built]]
    BY <1>5, <1>8
  <2>2. call'[c] = made(built, {}, 0) /\ call' = [call EXCEPT ![c] = call'[c]]
    BY <1>0, <2>1 DEF NoCall, Contract!NoCall
  <2>3. made(built, {}, 0) \in Contract!Calls
    <3> HIDE DEF made
    <3> QED BY <1>3, <1>6, <1>8
  <2>4. call'[c].op = o /\ call'[c].vals = built
    BY <2>2
  <2> HIDE DEF made
  <2> QED BY <1>1, <1>2, <1>8, <2>2, <2>3, <2>4 DEF built
<1>9. CASE o = "delete"
  <2>1. call' = [call EXCEPT ![c] = [NoCall EXCEPT !.op = o, !.key = k]]
    BY <1>5, <1>9
  <2>2. call'[c] = made(NoRow, {}, 0) /\ call' = [call EXCEPT ![c] = call'[c]]
    BY <1>0, <2>1 DEF NoCall, Contract!NoCall, NoRow
  <2>3. made(NoRow, {}, 0) \in Contract!Calls
    <3> HIDE DEF made
    <3> QED BY <1>4, <1>6, <1>9
  <2>4. call'[c].op = o
    BY <2>2
  <2> HIDE DEF made
  <2> QED BY <1>1, <1>2, <1>9, <2>2, <2>3, <2>4
<1> QED BY <1>5, <1>7, <1>8, <1>9

(* Every step of every binding keeps the invariant. *)
LEMMA NextStore == ASSUME StoreInv, [Next]_vars PROVE StoreInv'
<1>0. \A k \in Keys : table[k] # NoRow => GoodRow(table[k])
  BY DEF StoreInv, RowsInv, Present
<1>t. cfg \in Configs /\ table \in [Keys -> Contract!Rows]
  BY DEF StoreInv, RowsTypeOK
<1>1. ASSUME NEW c \in Clients, Invoke(c) PROVE StoreInv'
  <2>1. /\ call[c] = NoCall /\ calls' = calls + 1 /\ calls + 1 \in 1 .. MaxCalls
        /\ UNCHANGED <<cfg, table, answer, held, writer, exited>>
    BY <1>1, InvokeEffect
  <2>2. /\ call'[c] \in Contract!Calls /\ call'[c].op \in cfg.mix
        /\ call' = [call EXCEPT ![c] = call'[c]]
        /\ call'[c].op \in {"insert", "update"} => call'[c].vals = Built(cfg.writeall, calls + 1)
        /\ call'[c].op = "read" /\ cfg.readall => call'[c].fields = FieldNames
    BY <1>1, InvokeEffect
  <2>0. held[c] = NoRow
    BY <2>1, NotHeld DEF NoCall, Contract!NoCall
  <2>3. \A d \in Clients : d # c => call'[d] = call[d]
    BY <2>2 DEF StoreInv, RowsTypeOK
  <2>4. RowsTypeOK'
    <3>1. call' \in [Clients -> Contract!Calls \cup {NoCall}]
      BY <2>2 DEF StoreInv, RowsTypeOK
    <3>2. calls' \in 0 .. MaxCalls
      BY <2>1, RowStoreAssumption
    <3>3. call'[c] # NoCall
      BY <2>2, NoCallIsNone
    <3> QED BY <2>1, <2>3, <3>1, <3>2, <3>3 DEF StoreInv, RowsTypeOK
  <2>5. CallInv'
    BY <2>1, <2>2, <2>3 DEF StoreInv, CallInv
  <2>6. RowsInv'
    BY <2>1, CfgFrame DEF StoreInv, RowsInv, Present
  <2>7. HeldInv'
    BY <2>0, <2>1, <2>3, CfgFrame DEF StoreInv, HeldInv, Present
  <2> QED BY <2>4, <2>5, <2>6, <2>7 DEF StoreInv
<1>2. ASSUME NEW c \in Clients, Return(c) PROVE StoreInv'
  <2> USE <1>2 DEF Return
  <2>1. held[c] = NoRow
    BY DEF StoreInv, HeldInv
  <2>2. /\ \A d \in Clients : d # c => call'[d] = call[d] /\ answer'[d] = answer[d]
        /\ call'[c] = NoCall /\ answer'[c] = NoAnswer
        /\ call' \in [Clients -> Contract!Calls \cup {NoCall}]
        /\ answer' = [d \in Clients |-> answer'[d]]
    BY DEF StoreInv, RowsTypeOK
  <2>3. RowsTypeOK'
    BY <2>2 DEF StoreInv, RowsTypeOK
  <2>4. CallInv'
    BY <2>2 DEF StoreInv, CallInv
  <2>5. RowsInv'
    BY CfgFrame DEF StoreInv, RowsInv, Present
  <2>6. HeldInv'
    BY <2>1, <2>2, CfgFrame DEF StoreInv, HeldInv, Present
  <2> QED BY <2>3, <2>4, <2>5, <2>6 DEF StoreInv
<1>3. ASSUME NEW c \in Clients, Read(c) PROVE StoreInv'
  <2>1. PICK a : answer' = [answer EXCEPT ![c] = a]
    BY <1>3 DEF Read, Answer
  <2> QED BY <1>0, <1>t, <1>3, <2>1, NotHeld, AnswerStep DEF Read, Waiting, Present
<1>4. ASSUME NEW c \in Clients, Scan(c) PROVE StoreInv'
  <2>1. CASE Throw
    BY <1>4, <2>1, ThrowStep DEF Scan, Throw
  <2>2. CASE UNCHANGED <<table, exited>>
    <3>1. PICK a : answer' = [answer EXCEPT ![c] = a]
      BY <1>4, <2>2 DEF Scan, Answer, Throw, Waiting
    <3> QED BY <1>0, <1>t, <1>4, <2>2, <3>1, NotHeld, AnswerStep DEF Scan, Waiting, Present
  <2> QED BY <1>4, <2>1, <2>2 DEF Scan
<1>5. ASSUME NEW c \in Clients, Insert(c) PROVE StoreInv'
  <2>1. call[c].op = "insert" /\ UNCHANGED <<cfg, call, held, writer, calls, exited>>
    BY <1>5 DEF Insert, Waiting
  <2>2. PICK a : answer' = [answer EXCEPT ![c] = a]
    BY <1>5 DEF Insert, Answer
  <2>3. PICK v \in Values : call[c].vals = Built(cfg.writeall, v)
    BY <2>1, InCall
  <2>4. GoodRow(Inserted(call[c].vals)) /\ Inserted(call[c].vals) # NoRow
    <3>1. cfg.writeall \in BOOLEAN
      BY <1>t DEF Configs
    <3> QED BY <1>t, <2>3, <3>1, StoredIsGood, BuiltIsGood, WholeIsPresent DEF GoodRow
  <2>5. /\ table' \in [Keys -> Contract!Rows]
        /\ \A k \in Keys : \/ table'[k] = table[k]
                           \/ table'[k] # NoRow /\ GoodRow(table'[k])
    <3>1. Inserted(call[c].vals) \in Contract!Rows
      BY <2>4 DEF GoodRow
    <3>2. UNCHANGED table \/ table' = [table EXCEPT ![call[c].key] = Inserted(call[c].vals)]
      BY <1>5 DEF Insert
    <3>3. /\ table' \in [Keys -> Contract!Rows]
          /\ \A k \in Keys : table'[k] = table[k] \/ table'[k] = Inserted(call[c].vals)
      BY <1>t, <3>1, <3>2, PutRow
    <3> QED BY <2>4, <3>3, Zenon
  <2>6. held[c] = NoRow
    BY <2>1, NotHeld
  <2> QED BY <1>0, <2>1, <2>2, <2>5, <2>6, AnswerStep DEF Present
<1>6. ASSUME NEW c \in Clients, Delete(c) PROVE StoreInv'
  <2>1. call[c].op = "delete" /\ UNCHANGED <<cfg, call, held, writer, calls>> /\ MayWrite
    BY <1>6 DEF Delete, Waiting
  <2>2. CASE Throw
    BY <2>1, <2>2, ThrowStep DEF Throw
  <2>3. CASE ~Throw
    <3>1. UNCHANGED exited /\ table' = [table EXCEPT ![call[c].key] = NoRow]
      BY <1>6, <2>3 DEF Delete
    <3>2. PICK a : answer' = [answer EXCEPT ![c] = a]
      BY <1>6, <2>3 DEF Delete, Answer
    <3>3. table' \in [Keys -> Contract!Rows] /\ \A k \in Keys : table'[k] \in {table[k], NoRow}
      BY <1>t, <3>1, NoRowIsRow
    <3>4. "delete" \in cfg.mix /\ ~(Db.update = "txn" /\ writer # NoClient)
      BY <2>1, InCall DEF MayWrite
    <3>5. held[c] = NoRow
      BY <2>1, NotHeld
    <3> QED BY <1>0, <2>1, <3>1, <3>2, <3>3, <3>4, <3>5, AnswerStep
  <2> QED BY <2>2, <2>3
<1>7. ASSUME NEW c \in Clients, UpdateGet(c) PROVE StoreInv'
  <2>1. /\ call[c].op = "update" /\ answer[c] = NoAnswer /\ Db.update \in {"get_put", "txn"}
        /\ held[c] = NoRow /\ MayWrite /\ UNCHANGED <<cfg, call, calls>>
    BY <1>7 DEF UpdateGet, Waiting
  <2>2. CASE Present(call[c].key)
    <3>1. /\ held' = [held EXCEPT ![c] = table[call[c].key]]
          /\ writer' = IF Db.update = "txn" THEN c ELSE writer
          /\ UNCHANGED <<table, answer, exited>>
      BY <1>7, <2>2 DEF UpdateGet
    <3>2. call[c].key \in Keys /\ GoodRow(table[call[c].key]) /\ table[call[c].key] # NoRow
      BY <1>0, <2>1, <2>2, InCall DEF Present
    <3>3. /\ held' \in [Clients -> Contract!Rows] /\ held'[c] = table[call[c].key]
          /\ \A d \in Clients : d # c => held'[d] = held[d]
      BY <3>1, <3>2 DEF StoreInv, RowsTypeOK, GoodRow
    <3>4. Db.update = "txn" => \A d \in Clients : d # c => held[d] = NoRow
      BY <2>1, RowStoreAssumption DEF MayWrite, StoreInv, HeldInv
    <3>5. RowsTypeOK'
      <4>1. writer' # NoClient => writer' \in Clients /\ held'[writer'] # NoRow
        BY <2>1, <3>1, <3>2, <3>3 DEF StoreInv, RowsTypeOK
      <4> QED BY <2>1, <3>1, <3>3, <4>1 DEF StoreInv, RowsTypeOK
    <3>6. CallInv' /\ RowsInv'
      BY <2>1, <3>1, CfgFrame DEF StoreInv, CallInv, RowsInv, Present
    <3>7. HeldInv'
      BY <2>1, <2>2, <3>1, <3>2, <3>3, <3>4, CfgFrame DEF StoreInv, HeldInv, Present
    <3> QED BY <3>5, <3>6, <3>7 DEF StoreInv
  <2>3. CASE ~Present(call[c].key) /\ Db.absent = "throw"
    BY <1>7, <2>1, <2>3, ThrowStep DEF UpdateGet, Throw
  <2>4. CASE ~Present(call[c].key) /\ Db.absent # "throw"
    <3>1. PICK a : answer' = [answer EXCEPT ![c] = a]
      BY <1>7, <2>4 DEF UpdateGet, Answer
    <3>2. UNCHANGED <<table, held, writer, exited>>
      BY <1>7, <2>4 DEF UpdateGet
    <3> QED BY <1>0, <1>t, <2>1, <3>1, <3>2, AnswerStep DEF Present
  <2> QED BY <2>2, <2>3, <2>4
<1>8. ASSUME NEW c \in Clients, UpdatePut(c) PROVE StoreInv'
  <2>1. /\ call[c].op = "update" /\ held[c] # NoRow
        /\ table' = [table EXCEPT ![call[c].key] = Merged(held[c], call[c].vals)]
        /\ held' = [held EXCEPT ![c] = NoRow] /\ writer' = NoClient
        /\ UNCHANGED <<cfg, call, calls, exited>>
    BY <1>8 DEF UpdatePut, Waiting, WriterAfter
  <2>2. PICK a : answer' = [answer EXCEPT ![c] = a]
    BY <1>8 DEF UpdatePut, Answer
  <2>3. PICK v \in Values : call[c].vals = Built(cfg.writeall, v)
    BY <2>1, InCall
  <2>4. GoodRow(Merged(held[c], call[c].vals)) /\ Merged(held[c], call[c].vals) # NoRow
    <3>1. GoodRow(held[c])
      BY <2>1 DEF StoreInv, HeldInv
    <3>2. GoodRow(Merged(held[c], call[c].vals))
      BY <1>t, <2>3, <3>1, MergedIsGood
    <3> QED BY <3>2, WholeIsPresent DEF GoodRow
  <2>5. /\ table' \in [Keys -> Contract!Rows]
        /\ \A k \in Keys : \/ table'[k] = table[k]
                           \/ table'[k] # NoRow /\ GoodRow(table'[k])
    <3>1. Merged(held[c], call[c].vals) \in Contract!Rows
      BY <2>4 DEF GoodRow
    <3>2. /\ table' \in [Keys -> Contract!Rows]
          /\ \A k \in Keys : table'[k] = table[k] \/ table'[k] = Merged(held[c], call[c].vals)
      BY <1>t, <2>1, <3>1, PutRow
    <3> QED BY <2>4, <3>2, Zenon
  <2>6. /\ held' \in [Clients -> Contract!Rows] /\ held'[c] = NoRow
        /\ \A d \in Clients : d # c => held'[d] = held[d] /\ answer'[d] = answer[d]
        /\ answer' = [d \in Clients |-> answer'[d]]
    BY <2>1, <2>2, NoRowIsRow DEF StoreInv, RowsTypeOK
  <2>7. call[c] # NoCall
    BY <2>1, InCall
  <2>8. RowsTypeOK'
    BY <2>1, <2>5, <2>6, <2>7 DEF StoreInv, RowsTypeOK
  <2>9. CallInv' /\ RowsInv'
    BY <1>0, <2>1, <2>5, CfgFrame DEF StoreInv, CallInv, RowsInv, Present
  <2>10. HeldInv'
    <3>1. Db.update = "txn" => \A d \in Clients : d # c => held[d] = NoRow
      BY <2>1 DEF StoreInv, HeldInv
    <3>2. \A d \in Clients : held[d] # NoRow => call[d].key \in Keys
      BY InCall DEF StoreInv, HeldInv
    <3> QED BY <2>1, <2>5, <2>6, <3>1, <3>2, CfgFrame DEF StoreInv, HeldInv, Present
  <2> QED BY <2>8, <2>9, <2>10 DEF StoreInv
<1>9. ASSUME NEW c \in Clients, UpdateStatement(c) PROVE StoreInv'
  <2>1. /\ call[c].op = "update" /\ Db.update = "replace"
        /\ UNCHANGED <<cfg, call, held, writer, calls, exited>>
    BY <1>9 DEF UpdateStatement, Waiting
  <2>2. PICK a : answer' = [answer EXCEPT ![c] = a]
    BY <1>9 DEF UpdateStatement, Answer
  <2>3. PICK v \in Values : call[c].vals = Built(cfg.writeall, v)
    BY <2>1, InCall
  <2>4. GoodRow(Stored(call[c].vals)) /\ Stored(call[c].vals) # NoRow
    <3>1. cfg.writeall \in BOOLEAN
      BY <1>t DEF Configs
    <3> QED BY <1>t, <2>3, <3>1, StoredIsGood, BuiltIsGood, WholeIsPresent DEF GoodRow
  <2>5. /\ table' \in [Keys -> Contract!Rows]
        /\ \A k \in Keys : \/ table'[k] = table[k]
                           \/ table'[k] # NoRow /\ GoodRow(table'[k])
    <3>1. Stored(call[c].vals) \in Contract!Rows
      BY <2>4 DEF GoodRow
    <3>2. UNCHANGED table \/ table' = [table EXCEPT ![call[c].key] = Stored(call[c].vals)]
      BY <1>9 DEF UpdateStatement
    <3>3. /\ table' \in [Keys -> Contract!Rows]
          /\ \A k \in Keys : table'[k] = table[k] \/ table'[k] = Stored(call[c].vals)
      BY <1>t, <3>1, <3>2, PutRow
    <3> QED BY <2>4, <3>3, Zenon
  <2>6. held[c] = NoRow
    BY <2>1 DEF StoreInv, HeldInv
  <2> QED BY <1>0, <2>1, <2>2, <2>5, <2>6, AnswerStep DEF Present
<1>10. CASE UNCHANGED vars
  BY <1>10, ThrowStep DEF vars, StoreInv, RowsTypeOK
<1> QED BY <1>1, <1>2, <1>3, <1>4, <1>5, <1>6, <1>7, <1>8, <1>9, <1>10 DEF Next

-----------------------------------------------------------------------------
(* Under Covered, every step is a step of the contract, or changes nothing it sees. *)

(* All of a row's fields are the row. *)
LEMMA ProjectAll ==
    ASSUME NEW row \in Contract!Rows
    PROVE  Contract!Project(row, FieldNames) = row
<1>1. PICK S \in SUBSET FieldNames : row \in [S -> Values]
  BY DEF Contract!Rows
<1>2. DOMAIN row \cap FieldNames = DOMAIN row
  BY <1>1
<1> QED BY <1>1, <1>2 DEF Contract!Project

(* How the bindings' statuses read in the contract. *)
LEMMA Statuses ==
    /\ Status("notfound") \in Contract!Failed /\ Status("error") \in Contract!Failed
    /\ Status("ok") = Contract!Ok(<<>>)
BY DEF Status, Contract!Failed, Contract!Ok

(* A read is the contract's read. *)
LEMMA ReadRefines ==
    ASSUME StoreInv, Covered, NEW c \in Clients, Read(c)
    PROVE  Contract!Read(c)
<1> DEFINE k == call[c].key
           row == table[k]
<1>1. call[c].op = "read" /\ answer[c] = NoAnswer /\ UNCHANGED <<table, call>>
  BY DEF Read, Waiting
<1>2. k \in Keys /\ row \in Contract!Rows
  BY <1>1, InCall DEF StoreInv, RowsTypeOK
<1>3. Filtered(row, call[c].fields) = Contract!Project(row, call[c].fields)
  <2>1. CASE Db.filter
    BY <2>1 DEF Filtered
  <2>2. CASE ~Db.filter
    <3>1. cfg.readall
      BY <2>2 DEF Covered
    <3>2. call[c].fields = FieldNames
      BY <1>1, <3>1, InCall DEF StoreInv, CallInv
    <3> QED BY <1>2, <2>2, <3>2, ProjectAll DEF Filtered
  <2> QED BY <2>1, <2>2
<1>4. answer' = [answer EXCEPT ![c] = IF row = NoRow THEN Status("notfound")
                                      ELSE Contract!Ok(<<Filtered(row, call[c].fields)>>)]
  BY DEF Read, Answer
<1>5. k \in Contract!Present <=> row # NoRow
  BY <1>2 DEF Contract!Present, NoRow
<1> QED BY <1>1, <1>3, <1>4, <1>5, Statuses
        DEF Contract!Read, Contract!Waiting, Contract!Answer, NoAnswer

(* A scan is the contract's scan, is refused where there is none, or throws. *)
LEMMA ScanRefines ==
    ASSUME StoreInv, Covered, NEW c \in Clients, Scan(c)
    PROVE  Contract!Scan(c) \/ Contract!Refuse(c) \/ UNCHANGED <<table, call, answer>>
<1>1. call[c].op = "scan" /\ answer[c] = NoAnswer /\ UNCHANGED call
  BY DEF Scan, Waiting
<1>2. /\ call[c] # NoCall /\ call[c].key \in Keys /\ cfg \in Configs
      /\ call[c].op \in cfg.mix
  BY <1>1, InCall
<1>3. Db.scan # "repeat"
  BY <1>1, <1>2 DEF Covered
<1>4. CASE Throw
  BY <1>1, <1>4 DEF Throw
<1>5. CASE ~Throw
  <2> DEFINE a == IF Db.scan = "none" THEN Status("notimplemented")
                  ELSE IF Db.scan = "exact" /\ ~Present(call[c].key) THEN Status("notfound")
                  ELSE Contract!Ok(Scanned(c))
  <2>1. answer' = [answer EXCEPT ![c] = a] /\ UNCHANGED table
    BY <1>3, <1>5 DEF Scan, Answer
  <2>2. CASE Db.scan = "none"
    BY <1>1, <1>2, <2>1, <2>2 DEF Contract!Refuse, Contract!Answer, Status, NoCall, NoAnswer
  <2>3. CASE Db.scan # "none"
    <3> DEFINE found == Contract!RangeFrom(call[c].key, call[c].len)
               rows == [i \in DOMAIN found |-> Contract!Project(found[i], call[c].fields)]
    <3>1. Db.filter
      BY <1>2, <2>3, DbTraits
    <3>2. Scanned(c) = rows
      BY <1>3, <3>1 DEF Scanned, Filtered
    <3>3. Present(call[c].key) <=> call[c].key \in Contract!Present
      BY <1>2 DEF Present, Contract!Present, NoRow
    <3> HIDE DEF rows
    <3>4. a \in {Contract!Ok(rows)} \cup (IF call[c].key \in Contract!Present
                                          THEN {} ELSE Contract!Failed)
      BY <2>3, <3>2, <3>3, Statuses
    <3> HIDE DEF a
    <3> QED BY <1>1, <2>1, <3>4 DEF Contract!Scan, Contract!Answer, Contract!Waiting, NoAnswer, rows
  <2> QED BY <2>2, <2>3
<1> QED BY <1>4, <1>5

(* An insert is the contract's insert. *)
LEMMA InsertRefines ==
    ASSUME StoreInv, Covered, NEW c \in Clients, Insert(c)
    PROVE  Contract!Insert(c)
<1>1. call[c].op = "insert" /\ answer[c] = NoAnswer /\ UNCHANGED call
  BY DEF Insert, Waiting
<1>2. PICK v \in Values : call[c].vals = Built(cfg.writeall, v)
  BY <1>1, InCall
<1>3. Inserted(call[c].vals) = call[c].vals
  <2>1. cfg \in Configs /\ cfg.writeall \in BOOLEAN
    BY <1>1, InCall DEF Configs
  <2> QED BY <1>2, <2>1, StoredIsGood
<1>4. Present(call[c].key) => call[c].key \in Contract!Present
  BY <1>1, InCall DEF Present, Contract!Present, NoRow
<1> QED BY <1>1, <1>3, <1>4, Statuses
        DEF Insert, Answer, Contract!Insert, Contract!Answer, Contract!Waiting, NoAnswer

(* A delete is the contract's delete, or throws. *)
LEMMA DeleteRefines ==
    ASSUME StoreInv, NEW c \in Clients, Delete(c)
    PROVE  Contract!Delete(c) \/ UNCHANGED <<table, call, answer>>
<1>1. call[c].op = "delete" /\ answer[c] = NoAnswer /\ UNCHANGED call
  BY DEF Delete, Waiting
<1>2. Present(call[c].key) <=> call[c].key \in Contract!Present
  BY <1>1, InCall DEF Present, Contract!Present, NoRow
<1>3. CASE Throw
  BY <1>1, <1>3 DEF Throw
<1>4. CASE ~Throw
  <2>1. /\ table' = [table EXCEPT ![call[c].key] = NoRow]
        /\ answer' = [answer EXCEPT ![c] = Contract!Ok(<<>>)]
    BY <1>4, Statuses DEF Delete, Answer
  <2>2. ~Present(call[c].key) => UNCHANGED table
    BY <2>1 DEF Present, StoreInv, RowsTypeOK
  <2> QED BY <1>1, <1>2, <2>1, <2>2
          DEF Contract!Delete, Contract!Answer, Contract!Waiting, NoAnswer, NoRow
<1> QED BY <1>3, <1>4

(* The read that begins an update ends it if the row is absent, and else changes nothing. *)
LEMMA UpdateGetRefines ==
    ASSUME StoreInv, NEW c \in Clients, UpdateGet(c)
    PROVE  Contract!Update(c) \/ UNCHANGED <<table, call, answer>>
<1>1. /\ call[c].op = "update" /\ answer[c] = NoAnswer /\ UNCHANGED call
      /\ Db.update \in {"get_put", "txn"}
  BY DEF UpdateGet, Waiting
<1>2. CASE Present(call[c].key) \/ Db.absent = "throw"
  BY <1>1, <1>2 DEF UpdateGet, Throw
<1>3. CASE ~Present(call[c].key) /\ Db.absent # "throw"
  <2>1. Db.absent = "notfound"
    BY <1>1, <1>3, InCall, RowStoreAssumption
       DEF Configs, Db, Traits, RocksdbDB, LeveldbDB, WTDB, LmdbDB, SQLocalDB, PostgresDB
  <2>2. call[c].key \notin Contract!Present
    BY <1>3 DEF Present, Contract!Present, NoRow
  <2>3. answer' = [answer EXCEPT ![c] = Status("notfound")] /\ UNCHANGED table
    BY <1>3, <2>1 DEF UpdateGet, Answer
  <2> QED BY <1>1, <2>2, <2>3, Statuses
          DEF Contract!Update, Contract!Answer, Contract!Waiting, NoAnswer
<1> QED BY <1>2, <1>3

(* The write of an update finds the row it read: it is the contract's update. *)
LEMMA UpdatePutRefines ==
    ASSUME StoreInv, Covered, NEW c \in Clients, UpdatePut(c)
    PROVE  Contract!Update(c)
<1> DEFINE k == call[c].key
<1>1. /\ call[c].op = "update" /\ answer[c] = NoAnswer /\ UNCHANGED call /\ held[c] # NoRow
      /\ table' = [table EXCEPT ![k] = Merged(held[c], call[c].vals)]
      /\ answer' = [answer EXCEPT ![c] = Contract!Ok(<<>>)]
  BY Statuses DEF UpdatePut, Waiting, Answer
<1>2. k \in Keys /\ cfg \in Configs /\ GoodRow(held[c])
  BY <1>1, InCall DEF StoreInv, HeldInv
<1>3. Present(k)
  BY <1>1 DEF StoreInv, HeldInv, Covered
<1>4. GoodRow(table[k]) /\ k \in Contract!Present
  BY <1>2, <1>3 DEF StoreInv, RowsInv, Present, Contract!Present, NoRow
<1>5. PICK v \in Values : call[c].vals = Built(cfg.writeall, v)
  BY <1>1, InCall
<1>6. Merged(held[c], call[c].vals) = Contract!Overlay(table[k], call[c].vals)
  BY <1>2, <1>4, <1>5, MergedIsGood
<1> QED BY <1>1, <1>4, <1>6 DEF Contract!Update, Contract!Answer, Contract!Waiting, NoAnswer

(* An update in one statement or transaction is the contract's update. *)
LEMMA UpdateStatementRefines ==
    ASSUME StoreInv, Covered, NEW c \in Clients, UpdateStatement(c)
    PROVE  Contract!Update(c)
<1> DEFINE k == call[c].key
<1>1. /\ call[c].op = "update" /\ answer[c] = NoAnswer /\ UNCHANGED call
      /\ Db.update = "replace"
  BY DEF UpdateStatement, Waiting
<1>2. k \in Keys /\ cfg \in Configs /\ cfg.writeall \in BOOLEAN
  BY <1>1, InCall DEF Configs
<1>3. Present(k) <=> k \in Contract!Present
  BY <1>2 DEF Present, Contract!Present, NoRow
<1>4. PICK v \in Values : call[c].vals = Built(cfg.writeall, v)
  BY <1>1, InCall
<1>5. CASE Present(k)
  <2>1. table' = [table EXCEPT ![k] = Stored(call[c].vals)]
        /\ answer' = [answer EXCEPT ![c] = Contract!Ok(<<>>)]
    BY <1>5, Statuses DEF UpdateStatement, Answer
  <2>2. GoodRow(table[k])
    BY <1>2, <1>5 DEF StoreInv, RowsInv
  <2>3. Stored(call[c].vals) = Contract!Overlay(table[k], call[c].vals)
    BY <1>2, <1>4, <2>2, StoredIsGood, MergedIsGood
  <2> QED BY <1>1, <1>3, <1>5, <2>1, <2>3
          DEF Contract!Update, Contract!Answer, Contract!Waiting, NoAnswer
<1>6. CASE ~Present(k)
  <2>1. Db.absent \in {"ok", "notfound"}
    BY <1>1, <1>2, DbTraits
  <2>2. answer' = [answer EXCEPT ![c] = Status(Db.absent)] /\ UNCHANGED table
    BY <1>6 DEF UpdateStatement, Answer
  <2>3. Status(Db.absent) \in {Contract!Ok(<<>>)} \cup Contract!Failed
    BY <2>1, Statuses
  <2> QED BY <1>1, <1>3, <1>6, <2>2, <2>3
          DEF Contract!Update, Contract!Answer, Contract!Waiting, NoAnswer
<1> QED BY <1>5, <1>6

(* Each step of a binding is one of the contract or changes nothing that it sees. *)
LEMMA StepRefines ==
    ASSUME StoreInv, Covered, [Next]_vars
    PROVE  Contract!Next \/ UNCHANGED <<table, call, answer>>
<1>1. ASSUME NEW c \in Clients, Invoke(c) PROVE Contract!Invoke(c)
  BY <1>1, InvokeEffect DEF Contract!Invoke, NoCall
<1>2. ASSUME NEW c \in Clients, Return(c) PROVE Contract!Return(c)
  BY <1>2 DEF Return, Contract!Return, NoCall, NoAnswer
<1>3. CASE UNCHANGED vars
  BY <1>3 DEF vars
<1>4. CASE Next
  <2>1. PICK c \in Clients : \/ Invoke(c) \/ Return(c)
                             \/ Read(c) \/ Scan(c) \/ Insert(c) \/ Delete(c)
                             \/ UpdateGet(c) \/ UpdatePut(c) \/ UpdateStatement(c)
    BY <1>4 DEF Next
  <2>2. \/ Contract!Invoke(c) \/ Contract!Return(c) \/ Contract!Refuse(c)
        \/ Contract!Read(c) \/ Contract!Scan(c) \/ Contract!Insert(c)
        \/ Contract!Update(c) \/ Contract!Delete(c) \/ UNCHANGED <<table, call, answer>>
    BY <1>1, <1>2, <2>1, ReadRefines, ScanRefines, InsertRefines, DeleteRefines,
       UpdateGetRefines, UpdatePutRefines, UpdateStatementRefines, Zenon
  <2> QED BY <2>2, Zenon DEF Contract!Next
<1> QED BY <1>3, <1>4

-----------------------------------------------------------------------------
(***************************************************************************)
(* StoreInv holds in every state of every binding, for any number of       *)
(* clients, keys and fields and any mix of calls.                          *)
(***************************************************************************)
THEOREM StoreInvariant == Spec => []StoreInv
<1>1. Init => StoreInv
  BY InitStore
<1>2. StoreInv /\ [Next]_vars => StoreInv'
  BY NextStore
<1> QED BY <1>1, <1>2, PTL DEF Spec

(***************************************************************************)
(* A row is exactly what one insert or one update wrote, although          *)
(* UpdateSingle reads and writes it without a lock.                        *)
(***************************************************************************)
THEOREM RowsAreWhole == Spec => []RowsWhole
<1>1. StoreInv => RowsWhole
  BY DEF StoreInv, RowsInv, RowsWhole, GoodRow
<1> QED BY <1>1, StoreInvariant, PTL

(***************************************************************************)
(* Under the conditions of Covered, each step of a binding is a step of    *)
(* the table of records that db.h promises, or one that clients cannot     *)
(* see.                                                                    *)
(***************************************************************************)
THEOREM BindingsImplementContract == Spec => ImplementsContract
<1>1. StoreInv /\ [Next]_vars => [Covered => Contract!Next]_<<table, call, answer>>
  BY StepRefines
<1> QED BY <1>1, StoreInvariant, PTL DEF Spec, ImplementsContract
=============================================================================
