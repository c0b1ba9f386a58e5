--------------------------- MODULE RpcStoreProofs ---------------------------
(***************************************************************************)
(* The client/server bindings, for every number of clients, keys, fields   *)
(* and calls, and every size of messages:                                  *)
(*                                                                         *)
(*   1. what FlattenSeq makes of equally long pieces                       *)
(*   2. how keys and rows are laid out in a buffer                         *)
(*   3. what a scan collects                                               *)
(*   4. a call is in one place at a time, and its buffers are as long as   *)
(*      the layout says, so that nothing is overrun if msg_size is Needed  *)
(*   5. a client decodes the rows that were serialised                     *)
(*   6. the store holds rows, and a request says what its call is to do    *)
(*   7. so the store is a table,                                           *)
(*   8. with the answers on their way,                                     *)
(*   9. on which every step is one of the contract                         *)
(***************************************************************************)
EXTENDS RpcStore, SumLemmas, SequenceTheorems

-----------------------------------------------------------------------------
(* 1. FlattenSeq. *)

Piece(seqs, f, i) == IF i = 1 THEN seqs[i] ELSE f[i - 1] \o seqs[i]
Flattens(seqs, f) == f = [i \in 1 .. Len(seqs) |-> Piece(seqs, f, i)]

(* The library's definition, with its recursive function named. *)
LEMMA FlattenUnfold ==
    ASSUME NEW seqs, Len(seqs) # 0
    PROVE  FlattenSeq(seqs) = (CHOOSE f : Flattens(seqs, f))[Len(seqs)]
BY Zenon DEF FlattenSeq, Flattens, Piece

(* The function exists: a least length up to which there is none has one after all. *)
LEMMA FlattenExists ==
    ASSUME NEW seqs, Len(seqs) \in Nat
    PROVE  \E f : Flattens(seqs, f)
<1>0. PICK n \in Nat : n = Len(seqs)
  OBVIOUS
<1> DEFINE Upto(f, m) == \A i \in 1 .. n : i <= m => f[i] = Piece(seqs, f, i)
           Bad == {m \in Nat : \A f : f = [i \in 1 .. n |-> f[i]] => ~Upto(f, m)}
<1>1. Bad = {}
  <2> SUFFICES ASSUME Bad # {} PROVE FALSE
    OBVIOUS
  <2>1. PICK m \in Bad : \A k \in Bad : k >= m
    <3> HIDE DEF Bad
    <3>1. Bad \subseteq Nat
      BY DEF Bad
    <3> QED BY <3>1, LeastNat
  <2>2. CASE m = 0
    <3> DEFINE z == [i \in 1 .. n |-> 0]
    <3>1. Upto(z, 0) /\ z = [i \in 1 .. n |-> z[i]]
      OBVIOUS
    <3> HIDE DEF z
    <3> QED BY <2>2, <3>1
  <2>3. CASE m # 0
    <3>1. m \in Nat /\ m - 1 \in Nat /\ m - 1 \notin Bad
      <4>1. m \in Nat
        OBVIOUS
      <4> HIDE DEF Bad
      <4> QED BY <2>1, <2>3, <4>1
    <3>2. PICK f : f = [i \in 1 .. n |-> f[i]] /\ Upto(f, m - 1)
      BY <3>1
    <3> DEFINE h == [i \in 1 .. n |-> IF i = m THEN Piece(seqs, f, i) ELSE f[i]]
    <3>3. ASSUME NEW i \in 1 .. n, i <= m PROVE h[i] = Piece(seqs, h, i)
      <4>1. i # 1 => h[i - 1] = f[i - 1]
        BY <3>1, <3>3
      <4>2. Piece(seqs, h, i) = Piece(seqs, f, i)
        BY <4>1 DEF Piece
      <4>3. CASE i = m
        BY <4>2, <4>3
      <4>4. CASE i # m
        <5>1. h[i] = f[i] /\ i <= m - 1
          BY <3>1, <3>3, <4>4
        <5> QED BY <3>2, <4>2, <5>1
      <4> QED BY <4>3, <4>4
    <3>4. Upto(h, m) /\ h = [i \in 1 .. n |-> h[i]]
      BY <3>3
    <3> HIDE DEF h
    <3> QED BY <3>4
  <2> QED BY <2>2, <2>3
<1>2. PICK f : f = [i \in 1 .. n |-> f[i]] /\ Upto(f, n)
  BY <1>1
<1>3. \A i \in 1 .. n : f[i] = Piece(seqs, f, i)
  BY <1>2
<1> QED BY <1>0, <1>2, <1>3, Zenon DEF Flattens

(* Where the i-th of m pieces of L cells is. *)
LEMMA PieceAt ==
    ASSUME NEW L \in Nat, NEW m \in Nat, NEW i \in 1 .. m
    PROVE  /\ (i - 1) * L \in Nat /\ (i - 1) * L + L <= m * L /\ m * L \in Nat
           /\ i * L = (i - 1) * L + L
<1>1. i - 1 \in Nat /\ i \in Int /\ m \in Int /\ i <= m
  OBVIOUS
<1>2. (i - 1) * L \in Nat /\ m * L \in Nat
  BY <1>1, NatTimes
<1>3. (i - 1) * L = i * L - 1 * L /\ 1 * L = L /\ i * L \in Int
  BY <1>1, Distribute, IntTimes
<1>4. i * L <= m * L
  BY <1>1, TimesMonotone
<1> QED BY <1>2, <1>3, <1>4

(* Pieces of L cells each make L cells for each piece, one after the other. *)
LEMMA FlattenPieces ==
    ASSUME NEW L \in Nat, NEW seqs \in Seq(Seq(Int)), \A i \in 1 .. Len(seqs) : Len(seqs[i]) = L
    PROVE  /\ FlattenSeq(seqs) \in Seq(Int) /\ Len(FlattenSeq(seqs)) = Len(seqs) * L
           /\ \A i \in 1 .. Len(seqs), j \in 1 .. L : FlattenSeq(seqs)[(i - 1) * L + j] = seqs[i][j]
<1>0. PICK n \in Nat : n = Len(seqs) /\ \A i \in 1 .. n : seqs[i] \in Seq(Int) /\ Len(seqs[i]) = L
  OBVIOUS
<1>1. CASE n = 0
  <2>1. seqs = <<>>
    BY <1>0, <1>1, EmptySeq
  <2>2. FlattenSeq(seqs) = <<>>
    BY <1>0, <1>1, <2>1 DEF FlattenSeq
  <2>3. 0 * L = 0
    OBVIOUS
  <2> QED BY <1>0, <1>1, <2>2, <2>3
<1>2. CASE n # 0
  <2>1. PICK f : Flattens(seqs, f) /\ FlattenSeq(seqs) = f[n]
    BY <1>0, <1>2, FlattenUnfold, FlattenExists
  <2>2. \A i \in 1 .. n : f[i] = Piece(seqs, f, i)
    BY <1>0, <2>1 DEF Flattens
  <2> DEFINE Good(i) == /\ f[i] \in Seq(Int) /\ Len(f[i]) = i * L
                        /\ \A k \in 1 .. i, j \in 1 .. L : f[i][(k - 1) * L + j] = seqs[k][j]
             Bad == {i \in 1 .. n : ~Good(i)}
  <2>3. Bad = {}
    <3> SUFFICES ASSUME Bad # {} PROVE FALSE
      OBVIOUS
    <3>1. PICK m \in Bad : \A k \in Bad : k >= m
      <4> HIDE DEF Bad
      <4>1. Bad \subseteq Nat
        BY DEF Bad
      <4> QED BY <4>1, LeastNat
    <3>2. m \in 1 .. n /\ ~Good(m)
      OBVIOUS
    <3>3. CASE m = 1
      <4>1. f[1] = seqs[1]
        BY <1>2, <2>2 DEF Piece
      <4>2. 1 * L = L /\ (1 - 1) * L = 0
        OBVIOUS
      <4>3. \A k \in 1 .. 1, j \in 1 .. L : f[1][(k - 1) * L + j] = seqs[k][j]
        BY <4>1, <4>2
      <4> QED BY <1>0, <3>2, <3>3, <4>1, <4>2, <4>3
    <3>4. CASE m # 1
      <4>1. m - 1 \in 1 .. n /\ m - 1 \notin Bad
        <5> HIDE DEF Bad
        <5> QED BY <3>1, <3>2, <3>4
      <4>2. /\ f[m - 1] \in Seq(Int) /\ Len(f[m - 1]) = (m - 1) * L
            /\ \A k \in 1 .. (m - 1), j \in 1 .. L : f[m - 1][(k - 1) * L + j] = seqs[k][j]
        BY <4>1
      <4> HIDE DEF Good, Bad
      <4>3. f[m] = f[m - 1] \o seqs[m]
        BY <2>2, <3>2, <3>4 DEF Piece
      <4>4. PICK x \in Seq(Int), y \in Seq(Int), z \in Seq(Int) :
              x = f[m - 1] /\ y = seqs[m] /\ z = f[m] /\ Len(x) = (m - 1) * L /\ Len(y) = L
              /\ z = x \o y
        <5>1. seqs[m] \in Seq(Int) /\ Len(seqs[m]) = L
          BY <1>0, <3>2
        <5>2. PICK x \in Seq(Int), y \in Seq(Int) : x = f[m - 1] /\ y = seqs[m]
          BY <4>2, <5>1
        <5>3. x \o y \in Seq(Int)
          BY ConcatProperties, Zenon
        <5> QED BY <4>2, <4>3, <5>1, <5>2, <5>3, Zenon
      <4>5. /\ Len(z) = Len(x) + Len(y)
            /\ \A i \in 1 .. Len(x) + Len(y) : z[i] = IF i <= Len(x) THEN x[i] ELSE y[i - Len(x)]
        <5>1. /\ Len(x \o y) = Len(x) + Len(y)
              /\ \A i \in 1 .. Len(x) + Len(y) :
                   (x \o y)[i] = IF i <= Len(x) THEN x[i] ELSE y[i - Len(x)]
          BY ConcatProperties, Zenon
        <5> QED BY <4>4, <5>1, Zenon
      <4>6. PICK w \in Nat : w = (m - 1) * L /\ w + L = m * L
        BY <3>2, PieceAt
      <4>7. /\ Len(z) = m * L
            /\ \A i \in 1 .. (w + L) : z[i] = IF i <= w THEN x[i] ELSE y[i - w]
        BY <4>4, <4>5, <4>6
      <4>8. ASSUME NEW k \in 1 .. m, NEW j \in 1 .. L PROVE z[(k - 1) * L + j] = seqs[k][j]
        <5>1. CASE k = m
          <6>1. w + j \in 1 .. (w + L) /\ ~(w + j <= w) /\ (w + j) - w = j
            OBVIOUS
          <6>2. z[w + j] = y[j]
            BY <4>7, <6>1
          <6> QED BY <4>4, <4>6, <5>1, <6>2
        <5>2. CASE k # m
          <6>1. k \in 1 .. (m - 1) /\ m - 1 \in Nat
            BY <3>2, <5>2
          <6>2. PICK u \in Nat : u = (k - 1) * L /\ u + L <= w
            BY <4>6, <6>1, PieceAt
          <6>3. u + j \in 1 .. (w + L) /\ u + j <= w
            <7>1. u + L <= w
              BY <6>2
            <7> QED BY <7>1
          <6>4. z[u + j] = x[u + j]
            BY <4>7, <6>3
          <6> QED BY <4>2, <4>4, <6>1, <6>2, <6>4
        <5> QED BY <5>1, <5>2
      <4>9. Good(m)
        BY <4>4, <4>7, <4>8 DEF Good
      <4> QED BY <3>2, <4>9
    <3> QED BY <3>3, <3>4
  <2>4. Good(n)
    <3>1. n \in 1 .. n
      BY <1>2
    <3> QED BY <2>3, <3>1, Zenon
  <2> QED BY <1>0, <2>1, <2>4
<1> QED BY <1>1, <1>2

-----------------------------------------------------------------------------
(* 2. Keys and rows in a buffer. *)

(* A cell before others. *)
LEMMA Prepend ==
    ASSUME NEW x \in Int, NEW s \in Seq(Int)
    PROVE  /\ <<x>> \o s \in Seq(Int) /\ Len(<<x>> \o s) = 1 + Len(s)
           /\ (<<x>> \o s)[1] = x /\ \A i \in 1 .. Len(s) : (<<x>> \o s)[i + 1] = s[i]
<1>1. <<x>> \in Seq(Int) /\ Len(<<x>>) = 1 /\ <<x>>[1] = x /\ Len(s) \in Nat
  OBVIOUS
<1>2. /\ <<x>> \o s \in Seq(Int) /\ Len(<<x>> \o s) = 1 + Len(s)
      /\ \A i \in 1 .. (1 + Len(s)) : (<<x>> \o s)[i] = IF i <= 1 THEN <<x>>[i] ELSE s[i - 1]
  BY <1>1, ConcatProperties
<1> QED BY <1>1, <1>2

(* A string is as long as its characters, and one cell more. *)
LEMMA SizedIs ==
    ASSUME NEW s \in Seq(Int)
    PROVE  Sized(s) \in Seq(Int) /\ Len(Sized(s)) = 1 + Len(s)
<1>1. Len(s) \in Int
  OBVIOUS
<1> QED BY <1>1, Prepend DEF Sized

(* The constants. *)
LEMMA Constants ==
    /\ K \in Nat /\ F \in Nat /\ F > 0 /\ ScanLen \in Nat /\ ScanLen > 0
    /\ \A g \in Configs : /\ g.binding \in {"rocksdb-clisvr", "sqlite"}
                          /\ g.size \in Nat /\ g.size > 0
                          /\ g.mix \subseteq {"read", "scan", "insert", "update", "delete"}
BY RpcStoreAssumption

(* A row takes so much. *)
LEMMA RowSizeNat == RowSize \in Nat /\ RowSize >= 4
BY Constants DEF RowSize

RowBytes == {s \in Seq(Int) : Len(s) = RowSize}

(* The layout of a row: the number of fields, the cells of a name, and the names. *)
FieldCount == IF cfg.writeall THEN F ELSE 1
Width == IF cfg.writeall THEN 1 ELSE 0
NameOf(i) == IF cfg.writeall THEN <<i>> ELSE Unnamed
Cells(i, v) == Sized(NameOf(i)) \o Sized(Value(v))

(* A row is so many fields, each so long. *)
LEMMA LayoutIs ==
    /\ FieldCount \in Nat /\ FieldCount > 0 /\ Width \in 0 .. 1
    /\ RowSize = FieldCount * (4 + Width) /\ RowSize \in Nat
BY Constants DEF FieldCount, Width, RowSize

(* What the workload builds, for both layouts. *)
LEMMA BuiltIs ==
    ASSUME NEW v
    PROVE  Built(v) = [i \in 1 .. FieldCount |-> [first |-> NameOf(i), second |-> Value(v)]]
<1>1. CASE cfg.writeall
  BY <1>1 DEF Built, FieldCount, NameOf
<1>2. CASE ~cfg.writeall
  <2>1. Built(v) = <<[first |-> Unnamed, second |-> Value(v)]>>
    BY <1>2 DEF Built
  <2>2. \A x : <<x>> = [i \in 1 .. 1 |-> x]
    OBVIOUS
  <2>3. FieldCount = 1 /\ \A i : NameOf(i) = Unnamed
    BY <1>2 DEF FieldCount, NameOf
  <2> QED BY <2>1, <2>2, <2>3
<1> QED BY <1>1, <1>2

(* The cells of one field. *)
LEMMA CellsAre ==
    ASSUME NEW i \in Int, NEW v \in Int
    PROVE  /\ Cells(i, v) \in Seq(Int) /\ Len(Cells(i, v)) = 4 + Width
           /\ Cells(i, v)[1] = Width /\ (Width = 1 => Cells(i, v)[2] = i)
           /\ Cells(i, v)[2 + Width] = 2 /\ Cells(i, v)[3 + Width] = v /\ Cells(i, v)[4 + Width] = v
<1>1. PICK w \in 0 .. 1 : w = Width
  BY LayoutIs
<1>2. PICK s \in Seq(Int) : s = NameOf(i) /\ Len(s) = w /\ (w = 1 => s[1] = i)
  <2>1. CASE cfg.writeall
    <3>1. NameOf(i) = <<i>> /\ w = 1
      BY <1>1, <2>1 DEF NameOf, Width
    <3>2. <<i>> \in Seq(Int) /\ Len(<<i>>) = 1 /\ <<i>>[1] = i
      OBVIOUS
    <3> QED BY <3>1, <3>2, Zenon
  <2>2. CASE ~cfg.writeall
    <3>1. NameOf(i) = <<>> /\ w = 0
      BY <1>1, <2>2 DEF NameOf, Width, Unnamed
    <3>2. <<>> \in Seq(Int) /\ Len(<<>>) = 0 /\ 0 # 1
      OBVIOUS
    <3> QED BY <3>1, <3>2, Zenon
  <2> QED BY <2>1, <2>2
<1>3. PICK t \in Seq(Int) : t = Value(v) /\ Len(t) = 2 /\ t[1] = v /\ t[2] = v
  <2>1. <<v, v>> \in Seq(Int) /\ Len(<<v, v>>) = 2 /\ <<v, v>>[1] = v /\ <<v, v>>[2] = v
    OBVIOUS
  <2> QED BY <2>1, Zenon DEF Value
<1>4. PICK x \in Seq(Int) : /\ x = Sized(s) /\ Len(x) = 1 + w /\ x[1] = w
                            /\ \A j \in 1 .. w : x[j + 1] = s[j]
  <2>1. w \in Int
    OBVIOUS
  <2>2. /\ <<w>> \o s \in Seq(Int) /\ Len(<<w>> \o s) = 1 + Len(s) /\ (<<w>> \o s)[1] = w
        /\ \A j \in 1 .. Len(s) : (<<w>> \o s)[j + 1] = s[j]
    BY <2>1, Prepend
  <2>3. Sized(s) = <<w>> \o s
    BY <1>2 DEF Sized
  <2> QED BY <1>2, <2>2, <2>3
<1>5. PICK y \in Seq(Int) : y = Sized(t) /\ Len(y) = 3 /\ y[1] = 2 /\ y[2] = v /\ y[3] = v
  <2>1. 2 \in Int
    OBVIOUS
  <2>2. /\ <<2>> \o t \in Seq(Int) /\ Len(<<2>> \o t) = 1 + Len(t) /\ (<<2>> \o t)[1] = 2
        /\ \A j \in 1 .. Len(t) : (<<2>> \o t)[j + 1] = t[j]
    BY <2>1, Prepend
  <2>3. Sized(t) = <<2>> \o t
    BY <1>3 DEF Sized
  <2>4. (<<2>> \o t)[1 + 1] = v /\ (<<2>> \o t)[2 + 1] = v
    BY <1>3, <2>2
  <2>5. 1 + Len(t) = 3 /\ 1 + 1 = 2 /\ 2 + 1 = 3
    BY <1>3
  <2> QED BY <2>2, <2>3, <2>4, <2>5, Zenon
<1>6. /\ x \o y \in Seq(Int) /\ Len(x \o y) = Len(x) + Len(y)
      /\ \A j \in 1 .. Len(x) + Len(y) : (x \o y)[j] = IF j <= Len(x) THEN x[j] ELSE y[j - Len(x)]
  BY ConcatProperties, Zenon
<1>7. PICK z \in Seq(Int) : z = Cells(i, v) /\ z = x \o y
  BY <1>2, <1>3, <1>4, <1>5, <1>6 DEF Cells
<1>8. /\ Len(z) = 4 + w
      /\ \A j \in 1 .. (4 + w) : z[j] = IF j <= 1 + w THEN x[j] ELSE y[j - (1 + w)]
  BY <1>4, <1>5, <1>6, <1>7
<1>9. z[1] = w
  BY <1>4, <1>8
<1>10. w = 1 => z[2] = i
  BY <1>2, <1>4, <1>8
<1>11. z[2 + w] = 2 /\ z[3 + w] = v /\ z[4 + w] = v
  <2>1. /\ (2 + w) - (1 + w) = 1 /\ (3 + w) - (1 + w) = 2 /\ (4 + w) - (1 + w) = 3
        /\ {2 + w, 3 + w, 4 + w} \subseteq 1 .. (4 + w)
    OBVIOUS
  <2> QED BY <1>5, <1>8, <2>1
<1> QED BY <1>1, <1>7, <1>8, <1>9, <1>10, <1>11

(* What the workload builds is serialised field by field. *)
LEMMA RowIs ==
    ASSUME NEW v \in Nat
    PROVE  /\ SerializeRow(Built(v)) \in RowBytes
           /\ \A i \in 1 .. FieldCount, j \in 1 .. (4 + Width) :
                SerializeRow(Built(v))[(i - 1) * (4 + Width) + j] = Cells(i, v)[j]
<1>1. PICK n \in Nat, L \in Nat : n = FieldCount /\ L = 4 + Width
  BY LayoutIs
<1>2. PICK seqs : seqs = [i \in 1 .. n |-> Cells(i, v)]
  OBVIOUS
<1>3. SerializeRow(Built(v)) = FlattenSeq(seqs)
  <2>1. DOMAIN Built(v) = 1 .. n
    BY <1>1, BuiltIs
  <2>2. \A i \in 1 .. n : Built(v)[i].first = NameOf(i) /\ Built(v)[i].second = Value(v)
    BY <1>1, BuiltIs
  <2>3. [i \in DOMAIN Built(v) |-> Sized(Built(v)[i].first) \o Sized(Built(v)[i].second)] = seqs
    BY <1>2, <2>1, <2>2 DEF Cells
  <2> QED BY <2>3 DEF SerializeRow
<1>4. \A i \in 1 .. n : seqs[i] = Cells(i, v) /\ seqs[i] \in Seq(Int) /\ Len(seqs[i]) = L
  <2> SUFFICES ASSUME NEW i \in 1 .. n
               PROVE  seqs[i] = Cells(i, v) /\ seqs[i] \in Seq(Int) /\ Len(seqs[i]) = L
    OBVIOUS
  <2>1. i \in Int /\ v \in Int
    OBVIOUS
  <2>2. Cells(i, v) \in Seq(Int) /\ Len(Cells(i, v)) = 4 + Width
    BY <2>1, CellsAre
  <2> QED BY <1>1, <1>2, <2>2
<1>5. seqs \in Seq(Seq(Int)) /\ Len(seqs) = n
  BY <1>2, <1>4
<1>6. PICK r : r = FlattenSeq(seqs) /\ r \in Seq(Int) /\ Len(r) = n * L
               /\ \A i \in 1 .. n, j \in 1 .. L : r[(i - 1) * L + j] = seqs[i][j]
  <2>1. \A i \in 1 .. Len(seqs) : Len(seqs[i]) = L
    BY <1>4, <1>5
  <2>2. /\ FlattenSeq(seqs) \in Seq(Int) /\ Len(FlattenSeq(seqs)) = Len(seqs) * L
        /\ \A i \in 1 .. Len(seqs), j \in 1 .. L : FlattenSeq(seqs)[(i - 1) * L + j] = seqs[i][j]
    BY <1>5, <2>1, FlattenPieces
  <2> QED BY <1>5, <2>2, Zenon
<1>7. n * L = RowSize
  BY <1>1, LayoutIs
<1>8. r \in RowBytes
  BY <1>6, <1>7 DEF RowBytes
<1>9. \A i \in 1 .. n, j \in 1 .. L : r[(i - 1) * L + j] = Cells(i, v)[j]
  BY <1>4, <1>6
<1> QED BY <1>1, <1>3, <1>6, <1>8, <1>9

-----------------------------------------------------------------------------
(* 3. What a scan collects. *)

(* A finite set of numbers has an i-th one, up to its size: ranks are one to one. *)
LEMMA NthIsIn ==
    ASSUME NEW S \in SUBSET Nat, IsFiniteSet(S), NEW i \in 1 .. Cardinality(S)
    PROVE  Nth(S, i) \in S
<1>1. PICK n \in Nat : n = Cardinality(S)
  BY FS_CardinalityType
<1> DEFINE Below(k) == {j \in S : j <= k}
           r == [k \in S |-> Cardinality(Below(k))]
<1>2. \A k \in S : Below(k) \in SUBSET S /\ k \in Below(k)
  OBVIOUS
<1>3. \A k \in S : IsFiniteSet(Below(k)) /\ Cardinality(Below(k)) \in 1 .. n
  <2> SUFFICES ASSUME NEW k \in S
               PROVE  IsFiniteSet(Below(k)) /\ Cardinality(Below(k)) \in 1 .. n
    OBVIOUS
  <2>1. PICK B \in SUBSET S : B = Below(k) /\ k \in B
    BY <1>2
  <2>2. IsFiniteSet(B) /\ Cardinality(B) \in Nat /\ Cardinality(B) <= n
    BY <1>1, FS_Subset, FS_CardinalityType
  <2>3. Cardinality(B) # 0
    BY <2>1, <2>2, FS_EmptySet
  <2> QED BY <1>1, <2>1, <2>2, <2>3
<1>4. ASSUME NEW k \in S, NEW l \in S, k < l PROVE r[k] # r[l]
  <2>1. PICK A, B : A = Below(k) /\ B = Below(l)
    OBVIOUS
  <2>2. A \in SUBSET B
    <3> SUFFICES ASSUME NEW j \in S, j <= k PROVE j <= l
      BY <2>1
    <3>1. j \in Nat /\ k \in Nat /\ l \in Nat
      OBVIOUS
    <3> HIDE DEF r
    <3> QED BY <1>4, <3>1
  <2>3. l \in B /\ l \notin A
    BY <1>4, <2>1
  <2>4. IsFiniteSet(B)
    BY <1>3, <2>1
  <2>5. Cardinality(A) # Cardinality(B)
    BY <2>2, <2>3, <2>4, FS_Subset
  <2> QED BY <2>1, <2>5
<1>5. \A k, l \in S : r[k] = r[l] => k = l
  <2> SUFFICES ASSUME NEW k \in S, NEW l \in S, k # l PROVE r[k] # r[l]
    OBVIOUS
  <2> HIDE DEF r
  <2>1. k < l \/ l < k
    OBVIOUS
  <2> QED BY <1>4, <2>1
<1>6. r \in Injection(S, 1 .. n)
  <2>1. r \in [S -> 1 .. n]
    BY <1>3
  <2> HIDE DEF r
  <2> QED BY <1>5, <2>1 DEF Injection, IsInjective
<1>7. IsFiniteSet(1 .. n) /\ Cardinality(1 .. n) = n
  <2>1. 1 \in Int /\ n \in Int /\ (1 > n => n = 0) /\ n - 1 + 1 = n
    OBVIOUS
  <2>2. /\ IsFiniteSet(1 .. n) /\ Cardinality(1 .. n) = IF 1 > n THEN 0 ELSE n - 1 + 1
    BY <2>1, FS_Interval, Zenon
  <2> QED BY <2>1, <2>2
<1>8. r \in Surjection(S, 1 .. n)
  <2> HIDE DEF r
  <2> QED BY <1>1, <1>6, <1>7, FS_Injection
<1>9. PICK k \in S : r[k] = i
  <2> HIDE DEF r
  <2> QED BY <1>1, <1>8 DEF Surjection
<1>10. Cardinality({j \in S : j <= k}) = i
  BY <1>9
<1> QED BY <1>10, Zenon DEF Nth

(* The smaller of two numbers. *)
LEMMA MinOfTwo ==
    ASSUME NEW a \in Nat, NEW b \in Nat
    PROVE  Min({a, b}) \in Nat /\ Min({a, b}) <= a /\ Min({a, b}) <= b
<1>1. PICK m \in {a, b} : \A k \in {a, b} : m <= k
  OBVIOUS
<1>2. Min({a, b}) \in {a, b} /\ \A k \in {a, b} : Min({a, b}) <= k
  BY <1>1 DEF Min
<1> QED BY <1>2

(* A response to a scan has room for ScanLen records, each with its length. *)
LEMMA ScannedLength ==
    ASSUME store \in [Keys -> {NoBytes} \cup RowBytes], NEW k \in Keys
    PROVE  /\ SerializeRowVector(Scanned(k, ScanLen)) \in Seq(Int)
           /\ Len(SerializeRowVector(Scanned(k, ScanLen))) <= ScanLen * (1 + RowSize)
<1>1. PICK S : S = From(k)
  OBVIOUS
<1>2. S \in SUBSET Nat /\ IsFiniteSet(S) /\ \A j \in S : store[j] \in RowBytes
  <2>1. S \in SUBSET Keys /\ \A j \in S : store[j] # NoBytes
    BY <1>1 DEF From
  <2>2. Keys \subseteq Nat /\ IsFiniteSet(Keys)
    <3>1. 1 \in Int /\ K \in Int
      BY Constants
    <3>2. IsFiniteSet(1 .. K)
      BY <3>1, FS_Interval, Zenon
    <3> QED BY <3>1, <3>2 DEF Keys
  <2>3. IsFiniteSet(S)
    BY <2>1, <2>2, FS_Subset
  <2> QED BY <2>1, <2>2, <2>3
<1>3. PICK n \in Nat : /\ n = Min({ScanLen, Cardinality(S)}) /\ n <= ScanLen
                       /\ n <= Cardinality(S)
  BY <1>2, Constants, MinOfTwo, FS_CardinalityType
<1>4. Cardinality(S) \in Nat
  BY <1>2, FS_CardinalityType
<1>5. \A i \in 1 .. n : store[Nth(S, i)] \in RowBytes
  <2> SUFFICES ASSUME NEW i \in 1 .. n PROVE store[Nth(S, i)] \in RowBytes
    OBVIOUS
  <2>1. i \in 1 .. Cardinality(S)
    BY <1>3, <1>4
  <2>2. Nth(S, i) \in S
    BY <1>2, <2>1, NthIsIn
  <2> QED BY <1>2, <2>2
<1>6. PICK rows : rows = [i \in 1 .. n |-> store[Nth(S, i)]]
  OBVIOUS
<1>7. Scanned(k, ScanLen) = rows
  BY <1>1, <1>3, <1>6 DEF Scanned
<1>8. PICK seqs : seqs = [i \in 1 .. n |-> Sized(rows[i])]
  OBVIOUS
<1>9. SerializeRowVector(rows) = FlattenSeq(seqs)
  BY <1>6, <1>8 DEF SerializeRowVector
<1>10. PICK L \in Nat : L = 1 + RowSize
  BY RowSizeNat
<1>11. \A i \in 1 .. n : seqs[i] \in Seq(Int) /\ Len(seqs[i]) = L
  <2> SUFFICES ASSUME NEW i \in 1 .. n PROVE seqs[i] \in Seq(Int) /\ Len(seqs[i]) = L
    OBVIOUS
  <2>1. rows[i] \in Seq(Int) /\ Len(rows[i]) = RowSize
    BY <1>5, <1>6 DEF RowBytes
  <2>2. seqs[i] = Sized(rows[i])
    BY <1>8
  <2> QED BY <1>10, <2>1, <2>2, SizedIs
<1>12. seqs \in Seq(Seq(Int)) /\ Len(seqs) = n
  BY <1>8, <1>11
<1>13. FlattenSeq(seqs) \in Seq(Int) /\ Len(FlattenSeq(seqs)) = n * L
  BY <1>11, <1>12, FlattenPieces
<1>14. n * L <= ScanLen * L
  BY <1>3, Constants, TimesMonotone
<1> QED BY <1>7, <1>9, <1>10, <1>13, <1>14

(* What msg_size has to be. *)
LEMMA NeededIs ==
    ASSUME cfg \in Configs
    PROVE  /\ Needed \in Int /\ Needed >= 2 + RowSize
           /\ "scan" \in cfg.mix => Needed >= 3 /\ Needed >= 1 + ScanLen * (1 + RowSize)
<1>1. PICK a \in Int, b \in Int : a = 2 + RowSize /\ b = 1 + ScanLen * (1 + RowSize)
  BY RowSizeNat, Constants, IntTimes
<1>2. Needed = Max({a} \cup (IF "scan" \in cfg.mix THEN {b, 3} ELSE {}))
  BY <1>1 DEF Needed
<1>3. CASE "scan" \in cfg.mix
  <2>1. PICK T : T = {a, b, 3}
    OBVIOUS
  <2>2. PICK m \in T : \A x \in T : m >= x
    BY <2>1
  <2>3. Max(T) \in T /\ \A x \in T : Max(T) >= x
    BY <2>2 DEF Max
  <2>4. Needed = Max(T)
    <3>1. {a} \cup {b, 3} = T
      BY <2>1
    <3> QED BY <1>2, <1>3, <3>1
  <2> QED BY <1>1, <2>1, <2>3, <2>4
<1>4. CASE "scan" \notin cfg.mix
  <2>1. PICK T : T = {a}
    OBVIOUS
  <2>2. Max(T) \in T
    <3>1. \A x \in T : a >= x
      BY <2>1
    <3> QED BY <2>1, <3>1 DEF Max
  <2>3. Needed = Max(T)
    <3>1. {a} \cup {} = T
      BY <2>1
    <3> QED BY <1>2, <1>4, <3>1
  <2> QED BY <1>1, <1>4, <2>1, <2>2, <2>3
<1> QED BY <1>3, <1>4

-----------------------------------------------------------------------------
(* 4. Calls and buffers. *)

(* A request has the key, and what its call wants to be done with it. *)
Asks(cl, bytes) ==
    /\ cl.op \in cfg.mix /\ cl.key \in Keys
    /\ bytes \in Seq(Int) /\ Len(bytes) >= 2 /\ bytes[1] = 1 /\ bytes[2] = cl.key
    /\ cl.op = "scan" => Len(bytes) = 3 /\ bytes[3] = ScanLen
    /\ cl.op \in {"insert", "update"} => Len(bytes) = 2 + RowSize
    /\ cl.op \in {"read", "delete"} => Len(bytes) = 2

(* A call is where its request, its response, or its answer is. *)
Stage(c) ==
    /\ req[c] # NoBytes => /\ call[c] # NoCall /\ via[c] = "none" /\ ~complete[c]
                           /\ answer[c] = NoAnswer /\ Asks(call[c], req[c])
    /\ via[c] # "none" => call[c] # NoCall /\ ~complete[c] /\ answer[c] = NoAnswer
    /\ complete[c] => call[c] # NoCall /\ answer[c] = NoAnswer
    /\ answer[c] # NoAnswer => call[c] # NoCall

RespBufs ==
    /\ respBuf = [t \in DOMAIN respBuf |-> respBuf[t]]
    /\ \A t \in DOMAIN respBuf : /\ respBuf[t] \in Seq(Int) /\ Len(respBuf[t]) >= 1
                                 /\ corrupt \/ Len(respBuf[t]) <= cfg.size

RpcInv ==
    /\ cfg \in Configs /\ calls \in Nat
    /\ store \in [Keys -> {NoBytes} \cup RowBytes]
    /\ call = [c \in Clients |-> call[c]] /\ answer = [c \in Clients |-> answer[c]]
    /\ req = [c \in Clients |-> req[c]] /\ complete = [c \in Clients |-> complete[c]]
    /\ via = [c \in Clients |-> via[c]]
    /\ \A c \in Clients : Stage(c)
    /\ RespBufs /\ up \subseteq DOMAIN respBuf
    /\ FitsIfLargeEnough

(* No call is under way at first, and the buffers are as Init makes them. *)
LEMMA InitRpc == Init => RpcInv
<1> SUFFICES ASSUME Init PROVE RpcInv
  OBVIOUS
<1>1. /\ cfg \in Configs /\ calls = 0 /\ ~corrupt
      /\ call = [c \in Clients |-> NoCall] /\ answer = [c \in Clients |-> NoAnswer]
      /\ req = [c \in Clients |-> NoBytes] /\ complete = [c \in Clients |-> FALSE]
      /\ via = [c \in Clients |-> "none"] /\ up = DOMAIN respBuf
  BY DEF Init
<1>2. store \in [Keys -> {NoBytes} \cup RowBytes]
  <2>1. SerializeRow(Built(0)) \in RowBytes
    BY RowIs
  <2>2. PICK n : store = [k \in Keys |-> IF k <= n THEN SerializeRow(Built(0)) ELSE NoBytes]
    BY DEF Init
  <2> QED BY <2>1, <2>2
<1>3. RespBufs
  <2>1. PICK n \in Nat : n = cfg.size /\ n > 0
    BY <1>1, Constants
  <2>2. PICK s : s = [i \in 1 .. n |-> Garbage]
    OBVIOUS
  <2>3. s \in Seq(Int) /\ Len(s) = n
    BY <2>2 DEF Garbage
  <2>4. respBuf = [t \in DOMAIN respBuf |-> s]
    BY <2>1, <2>2 DEF Init
  <2>5. \A t \in DOMAIN respBuf : respBuf[t] = s
    BY <2>4
  <2> QED BY <2>1, <2>3, <2>4, <2>5 DEF RespBufs
<1>4. \A c \in Clients : Stage(c)
  BY <1>1 DEF Stage
<1>5. FitsIfLargeEnough
  BY <1>1 DEF FitsIfLargeEnough
<1> QED BY <1>1, <1>2, <1>3, <1>4, <1>5 DEF RpcInv

(* What a request is made of, and how long it is. *)
LEMMA RequestIs ==
    ASSUME cfg \in Configs, NEW cl, NEW values, cl.op \in cfg.mix, cl.key \in Keys,
           cl.op = "scan" => cl.len = ScanLen,
           cl.op \in {"insert", "update"} => SerializeRow(values) \in RowBytes
    PROVE  /\ Asks(cl, Request(cl, values))
           /\ Len(Request(cl, values)) <= Needed
<1>1. PICK k \in Int : k = cl.key
  BY Constants DEF Keys
<1>2. SerializeKey(<<k>>) = <<1>> \o <<k>>
  BY DEF SerializeKey, Sized
<1>3. cl.op \in {"read", "scan", "insert", "update", "delete"}
  BY Constants
<1>4. PICK p \in Seq(Int) : p = SerializeKey(<<k>>) /\ Len(p) = 2 /\ p[1] = 1 /\ p[2] = k
  <2>1. <<k>> \in Seq(Int) /\ Len(<<k>>) = 1 /\ <<k>>[1] = k
    OBVIOUS
  <2>2. /\ <<1>> \o <<k>> \in Seq(Int) /\ Len(<<1>> \o <<k>>) = 1 + 1
        /\ (<<1>> \o <<k>>)[1] = 1 /\ \A i \in 1 .. 1 : (<<1>> \o <<k>>)[i + 1] = <<k>>[i]
    BY <2>1, Prepend
  <2>3. (<<1>> \o <<k>>)[2] = k
    BY <2>1, <2>2
  <2>4. PICK p : p = SerializeKey(<<k>>) /\ p = <<1>> \o <<k>>
    BY <1>2
  <2>5. p \in Seq(Int) /\ Len(p) = 1 + 1 /\ p[1] = 1 /\ p[2] = k
    BY <2>2, <2>3, <2>4, Zenon
  <2> QED BY <2>4, <2>5
<1>5. PICK q : q = CASE cl.op \in {"read", "delete"} -> <<>>
                     [] cl.op = "scan" -> <<cl.len>>
                     [] cl.op \in {"insert", "update"} -> SerializeRow(values)
  OBVIOUS
<1>6. Request(cl, values) = p \o q
  BY <1>1, <1>4, <1>5 DEF Request
<1>7. /\ cl.op \in {"read", "delete"} => q = <<>>
      /\ cl.op = "scan" => q = <<ScanLen>>
      /\ cl.op \in {"insert", "update"} => q \in RowBytes
  BY <1>3, <1>5
<1>8. /\ q \in Seq(Int)
      /\ cl.op \in {"read", "delete"} => Len(q) = 0
      /\ cl.op = "scan" => Len(q) = 1 /\ q[1] = ScanLen
      /\ cl.op \in {"insert", "update"} => Len(q) = RowSize
  <2>1. CASE cl.op \in {"read", "delete"}
    <3>1. q = <<>> /\ <<>> \in Seq(Int) /\ Len(<<>>) = 0
      BY <1>7, <2>1
    <3>2. q \in Seq(Int) /\ Len(q) = 0
      BY <3>1, Zenon
    <3> QED BY <2>1, <3>2
  <2>2. CASE cl.op = "scan"
    <3>1. <<ScanLen>> \in Seq(Int) /\ Len(<<ScanLen>>) = 1 /\ <<ScanLen>>[1] = ScanLen
      BY Constants
    <3> QED BY <1>7, <2>2, <3>1
  <2>3. CASE cl.op \in {"insert", "update"}
    <3>1. q \in Seq(Int) /\ Len(q) = RowSize
      BY <1>7, <2>3 DEF RowBytes
    <3> QED BY <2>3, <3>1
  <2> QED BY <1>3, <2>1, <2>2, <2>3
<1>9. /\ p \o q \in Seq(Int) /\ Len(p \o q) = Len(p) + Len(q)
      /\ \A i \in 1 .. Len(p) + Len(q) : (p \o q)[i] = IF i <= Len(p) THEN p[i] ELSE q[i - Len(p)]
  BY <1>8, ConcatProperties, Zenon
<1>10. PICK b \in Seq(Int) : b = Request(cl, values)
  BY <1>6, <1>9
<1>11. PICK n \in Nat : n = Len(q)
  BY <1>8
<1>12. /\ Len(b) = 2 + n
       /\ \A i \in 1 .. (2 + n) : b[i] = IF i <= 2 THEN p[i] ELSE q[i - 2]
  BY <1>4, <1>6, <1>9, <1>10, <1>11
<1>13. b[1] = 1 /\ b[2] = k
  BY <1>4, <1>12
<1>14. cl.op = "scan" => Len(b) = 3 /\ b[3] = ScanLen
  <2> SUFFICES ASSUME cl.op = "scan" PROVE Len(b) = 3 /\ b[3] = ScanLen
    OBVIOUS
  <2>1. n = 1
    BY <1>8, <1>11
  <2>2. b[3] = q[3 - 2]
    BY <1>12, <2>1
  <2> QED BY <1>8, <1>12, <2>1, <2>2
<1>15. Len(b) >= 2
  BY <1>12
<1>16. /\ cl.op \in {"insert", "update"} => Len(b) = 2 + RowSize
       /\ cl.op \in {"read", "delete"} => Len(b) = 2
  BY <1>8, <1>11, <1>12
<1>17. Asks(cl, b)
  BY <1>1, <1>13, <1>14, <1>15, <1>16 DEF Asks
<1>18. Len(b) <= Needed
  <2>1. PICK w \in Int : w = Needed /\ w >= 2 + RowSize /\ (cl.op = "scan" => w >= 3)
    BY NeededIs
  <2>2. PICK m \in Nat : m = Len(b)
    OBVIOUS
  <2>3. (m = 3 /\ cl.op = "scan") \/ m = 2 + RowSize \/ m = 2
    BY <1>3, <1>14, <1>16, <2>2
  <2>4. m <= w
    BY <2>1, <2>3, RowSizeNat
  <2> QED BY <2>1, <2>2, <2>4
<1> QED BY <1>10, <1>17, <1>18

(* What a handler takes from a request: the key, and the row of a write. *)
LEMMA RequestParts ==
    ASSUME NEW c, Asks(call[c], req[c])
    PROVE  /\ ReqKey(c) = call[c].key
           /\ call[c].op = "scan" => At(req[c], 2) = ScanLen
           /\ call[c].op \in {"insert", "update"} => ReqValue(c) \in RowBytes
<1>1. PICK b \in Seq(Int), n \in Nat : b = req[c] /\ n = Len(b) /\ n >= 2 /\ b[1] = 1
                                       /\ b[2] = call[c].key
  BY DEF Asks
<1>2. At(b, 0) = 1
  BY <1>1 DEF At
<1>3. DeserializeKey(b) = SubSeq(b, 2, 2)
  BY <1>1, <1>2 DEF DeserializeKey, Slice
<1>4. \A i \in 1 .. n : b[i] \in Int
  BY <1>1
<1>5. DeserializeKey(b)[1] = b[2] /\ Len(DeserializeKey(b)) = 1
  BY <1>1, <1>3
<1>6. call[c].op = "scan" => At(b, 2) = ScanLen
  BY <1>1 DEF Asks, At
<1>7. ASSUME call[c].op \in {"insert", "update"} PROVE ReqValue(c) \in RowBytes
  <2>1. n = 2 + RowSize /\ RowSize \in Nat /\ RowSize >= 4
    BY <1>1, <1>7, RowSizeNat DEF Asks
  <2>2. ReqValue(c) = Slice(b, 1 + 1, n - 1 - 1)
    BY <1>1, <1>5 DEF ReqValue
  <2>3. Slice(b, 1 + 1, n - 1 - 1) = SubSeq(b, 3, n)
    BY <1>1, <2>1 DEF Slice
  <2>4. SubSeq(b, 3, n) \in Seq(Int) /\ Len(SubSeq(b, 3, n)) = n - 2
    BY <1>1, <1>4, <2>1
  <2>5. n - 2 = RowSize
    BY <2>1
  <2>6. PICK v : v = ReqValue(c) /\ v \in Seq(Int) /\ Len(v) = RowSize
    BY <2>2, <2>3, <2>4, <2>5
  <2> QED BY <2>6 DEF RowBytes
<1> QED BY <1>1, <1>5, <1>6, <1>7 DEF ReqKey

(* What is known of client c's own variables changes with its own steps. *)
SameForOthers(c) ==
    /\ call' = [d \in Clients |-> call'[d]] /\ answer' = [d \in Clients |-> answer'[d]]
    /\ req' = [d \in Clients |-> req'[d]] /\ complete' = [d \in Clients |-> complete'[d]]
    /\ via' = [d \in Clients |-> via'[d]]
    /\ \A d \in Clients \ {c} : /\ call'[d] = call[d] /\ answer'[d] = answer[d] /\ req'[d] = req[d]
                                /\ complete'[d] = complete[d] /\ via'[d] = via[d]

(* A step of client c, or of a handler on its request. *)
LEMMA RpcStep ==
    ASSUME RpcInv, NEW c \in Clients, cfg' = cfg, calls' \in Nat,
           store' \in [Keys -> {NoBytes} \cup RowBytes], SameForOthers(c), Stage(c)',
           RespBufs', up' \subseteq DOMAIN respBuf', FitsIfLargeEnough'
    PROVE  RpcInv'
<1>1. ASSUME NEW d \in Clients PROVE Stage(d)'
  <2>1. CASE d # c
    <3>1. /\ call'[d] = call[d] /\ answer'[d] = answer[d] /\ req'[d] = req[d]
          /\ complete'[d] = complete[d] /\ via'[d] = via[d]
      BY <2>1 DEF SameForOthers
    <3>2. Stage(d)
      BY DEF RpcInv
    <3>3. Asks(call[d], req[d]) => Asks(call[d], req[d])'
      BY <3>1 DEF Asks, RowSize, Keys
    <3> QED BY <3>1, <3>2, <3>3 DEF Stage
  <2> QED BY <2>1
<1>2. Keys' = Keys /\ RowBytes' = RowBytes
  BY DEF Keys, RowBytes, RowSize
<1>3. cfg' \in Configs
  BY DEF RpcInv
<1> QED BY <1>1, <1>2, <1>3 DEF RpcInv, SameForOthers

(* Client c makes its request. *)
LEMMA InvokeStep == ASSUME RpcInv, NEW c \in Clients, Invoke(c) PROVE RpcInv'
<1>1. /\ ~corrupt /\ call[c] = NoCall /\ calls' = calls + 1
      /\ UNCHANGED <<cfg, store, answer, resp, complete, via, pre, respBuf, up>>
  BY DEF Invoke
<1> DEFINE V(op) == IF op \in {"insert", "update"} THEN Built(calls + 1) ELSE <<>>
           C(op, k) == [op |-> op, key |-> k, vals |-> AsRow(V(op)), fields |-> FieldNames,
                        len |-> IF op = "scan" THEN ScanLen ELSE 0]
<1>21. PICK op \in cfg.mix, k \in Keys :
         /\ call' = [call EXCEPT ![c] = C(op, k)]
         /\ req' = [req EXCEPT ![c] = Request(C(op, k), V(op))]
         /\ corrupt' = (Len(Request(C(op, k), V(op))) > cfg.size)
  BY Zenon DEF Invoke
<1>22. PICK values, cl : values = V(op) /\ cl = C(op, k)
  OBVIOUS
<1>2. PICK bytes :
        /\ bytes = Request(cl, values)
        /\ call' = [call EXCEPT ![c] = cl] /\ req' = [req EXCEPT ![c] = bytes]
        /\ corrupt' = (Len(bytes) > cfg.size)
  BY <1>21, <1>22, Zenon
<1>3. /\ cfg \in Configs /\ calls \in Nat /\ store \in [Keys -> {NoBytes} \cup RowBytes]
      /\ call = [d \in Clients |-> call[d]] /\ answer = [d \in Clients |-> answer[d]]
      /\ req = [d \in Clients |-> req[d]] /\ complete = [d \in Clients |-> complete[d]]
      /\ via = [d \in Clients |-> via[d]] /\ Stage(c) /\ RespBufs /\ up \subseteq DOMAIN respBuf
  BY DEF RpcInv
<1>4. cl.op = op /\ cl.key = k /\ (op = "scan" => cl.len = ScanLen)
  BY <1>22
<1> HIDE DEF C
<1>5. op \in {"insert", "update"} => SerializeRow(values) \in RowBytes
  <2>1. calls + 1 \in Nat
    BY <1>3
  <2> QED BY <1>22, <2>1, RowIs
<1> HIDE DEF V
<1>6. Asks(cl, bytes) /\ Len(bytes) <= Needed
  BY <1>2, <1>3, <1>4, <1>5, RequestIs
<1>7. SameForOthers(c)
  BY <1>1, <1>2, <1>3 DEF SameForOthers
<1>8. call'[c] = cl /\ req'[c] = bytes
  BY <1>2, <1>3
<1>9. Stage(c)'
  <2>1. cl # NoCall
    <3>1. op # "none"
      BY <1>3, Constants
    <3>2. NoCall.op = "none"
      BY DEF NoCall
    <3> QED BY <1>4, <3>1, <3>2
  <2>2. req[c] = NoBytes /\ via[c] = "none" /\ ~complete[c] /\ answer[c] = NoAnswer
    BY <1>1, <1>3 DEF Stage
  <2>3. Asks(call[c], req[c])'
    BY <1>1, <1>6, <1>8 DEF Asks, RowSize, Keys
  <2> QED BY <1>1, <1>8, <2>1, <2>2, <2>3 DEF Stage
<1>10. FitsIfLargeEnough'
  <2>1. PICK n \in Nat, s \in Nat, w \in Int : n = Len(bytes) /\ s = cfg.size /\ w = Needed
    <3>1. Len(bytes) \in Nat /\ cfg.size \in Nat /\ Needed \in Int
      BY <1>3, <1>6, Constants, NeededIs DEF Asks
    <3> QED BY <3>1
  <2>2. n <= w /\ (corrupt' => n > s)
    BY <1>2, <1>6, <2>1
  <2>3. Needed' = Needed
    BY <1>1 DEF Needed, RowSize
  <2> QED BY <1>1, <2>1, <2>2, <2>3 DEF FitsIfLargeEnough
<1>11. RespBufs'
  BY <1>1, <1>3 DEF RespBufs
<1>12. calls' \in Nat
  BY <1>1, <1>3
<1> QED BY <1>1, <1>3, <1>7, <1>9, <1>10, <1>11, <1>12, RpcStep

(* What a handler knows of the request that has arrived. *)
LEMMA ArrivedIs ==
    ASSUME RpcInv, NEW c \in Clients, NEW op, Arrived(c, op)
    PROVE  /\ ~corrupt /\ req[c] # NoBytes /\ call[c] # NoCall /\ call[c].op = op
           /\ Asks(call[c], req[c]) /\ ~complete[c] /\ answer[c] = NoAnswer /\ via[c] = "none"
           /\ Thread(c) \in DOMAIN respBuf /\ ReqKey(c) \in Keys /\ op \in cfg.mix
           /\ ReqKey(c) = call[c].key
<1>1. ~corrupt /\ req[c] # NoBytes /\ call[c].op = op /\ Thread(c) \in up
  BY DEF Arrived
<1>2. Stage(c) /\ up \subseteq DOMAIN respBuf
  BY DEF RpcInv
<1>3. Asks(call[c], req[c])
  BY <1>1, <1>2 DEF Stage
<1>4. ReqKey(c) = call[c].key /\ call[c].key \in Keys /\ call[c].op \in cfg.mix
  BY <1>3, RequestParts DEF Asks
<1> QED BY <1>1, <1>2, <1>3, <1>4 DEF Stage

(* A handler answers from resp_buf_, with no more than Needed cells or what was there. *)
LEMMA RespStep ==
    ASSUME RpcInv, NEW c \in Clients, NEW op, Arrived(c, op), NEW bytes, FromRespBuf(c, bytes),
           bytes \in Seq(Int), Len(bytes) >= 1, Len(bytes) <= Needed \/ Len(bytes) <= cfg.size,
           UNCHANGED <<cfg, store, call, answer, resp, complete, up, calls>>
    PROVE  RpcInv'
<1>1. /\ respBuf' = [respBuf EXCEPT ![Thread(c)] = bytes] /\ corrupt' = (Len(bytes) > cfg.size)
      /\ via' = [via EXCEPT ![c] = "resp_buf"] /\ req' = [req EXCEPT ![c] = NoBytes]
  BY DEF FromRespBuf
<1>2. /\ ~corrupt /\ call[c] # NoCall /\ ~complete[c] /\ answer[c] = NoAnswer
      /\ Thread(c) \in DOMAIN respBuf
  BY ArrivedIs
<1>3. /\ cfg \in Configs /\ calls \in Nat /\ store \in [Keys -> {NoBytes} \cup RowBytes]
      /\ call = [d \in Clients |-> call[d]] /\ answer = [d \in Clients |-> answer[d]]
      /\ req = [d \in Clients |-> req[d]] /\ complete = [d \in Clients |-> complete[d]]
      /\ via = [d \in Clients |-> via[d]] /\ RespBufs /\ up \subseteq DOMAIN respBuf
  BY DEF RpcInv
<1>4. SameForOthers(c)
  BY <1>1, <1>3 DEF SameForOthers
<1>5. req'[c] = NoBytes /\ via'[c] = "resp_buf"
  BY <1>1, <1>3
<1>6. Stage(c)'
  BY <1>2, <1>5 DEF Stage
<1>7. PICK n \in Nat, s \in Nat, w \in Int : n = Len(bytes) /\ s = cfg.size /\ w = Needed
  <2>1. Len(bytes) \in Nat /\ cfg.size \in Nat /\ Needed \in Int
    BY <1>3, Constants, NeededIs
  <2> QED BY <2>1
<1>8. (n <= w \/ n <= s) /\ (corrupt' => n > s) /\ (~corrupt' => n <= s)
  <2>1. (corrupt' => n > s) /\ (~corrupt' => ~(n > s))
    BY <1>1, <1>7, Zenon
  <2> QED BY <1>7, <2>1
<1>9. FitsIfLargeEnough'
  <2>1. Needed' = Needed
    BY DEF Needed, RowSize
  <2> QED BY <1>7, <1>8, <2>1 DEF FitsIfLargeEnough
<1>10. DOMAIN respBuf' = DOMAIN respBuf
  BY <1>1, <1>3 DEF RespBufs
<1>11. RespBufs'
  <2>1. respBuf' = [t \in DOMAIN respBuf' |-> respBuf'[t]]
    BY <1>1, <1>3, <1>10 DEF RespBufs
  <2>2. ASSUME NEW t \in DOMAIN respBuf
        PROVE  /\ respBuf'[t] \in Seq(Int) /\ Len(respBuf'[t]) >= 1
               /\ corrupt' \/ Len(respBuf'[t]) <= cfg'.size
    <3>1. CASE t = Thread(c)
      <4>1. respBuf'[t] = bytes
        BY <1>1, <1>3, <3>1 DEF RespBufs
      <4> QED BY <1>7, <1>8, <4>1
    <3>2. CASE t # Thread(c)
      <4>1. respBuf'[t] = respBuf[t]
        BY <1>1, <1>3, <3>2 DEF RespBufs
      <4> QED BY <1>2, <1>3, <4>1 DEF RespBufs
    <3> QED BY <3>1, <3>2
  <2> QED BY <1>10, <2>1, <2>2 DEF RespBufs
<1> QED BY <1>3, <1>4, <1>6, <1>9, <1>10, <1>11, RpcStep

(* A handler answers from pre_resp_msgbuf_. *)
LEMMA PreStep ==
    ASSUME RpcInv, NEW c \in Clients, NEW op, Arrived(c, op), NEW s, FromPre(c, s),
           store' \in [Keys -> {NoBytes} \cup RowBytes],
           UNCHANGED <<cfg, call, answer, resp, complete, up, calls>>
    PROVE  RpcInv'
<1>1. /\ UNCHANGED <<respBuf, corrupt>>
      /\ via' = [via EXCEPT ![c] = "pre"] /\ req' = [req EXCEPT ![c] = NoBytes]
  BY DEF FromPre
<1>2. call[c] # NoCall /\ ~complete[c] /\ answer[c] = NoAnswer
  BY ArrivedIs
<1>3. /\ calls \in Nat
      /\ call = [d \in Clients |-> call[d]] /\ answer = [d \in Clients |-> answer[d]]
      /\ req = [d \in Clients |-> req[d]] /\ complete = [d \in Clients |-> complete[d]]
      /\ via = [d \in Clients |-> via[d]] /\ RespBufs /\ up \subseteq DOMAIN respBuf
      /\ FitsIfLargeEnough
  BY DEF RpcInv
<1>4. SameForOthers(c)
  BY <1>1, <1>3 DEF SameForOthers
<1>5. req'[c] = NoBytes /\ via'[c] = "pre"
  BY <1>1, <1>3
<1>6. Stage(c)'
  BY <1>2, <1>5 DEF Stage
<1>7. RespBufs'
  BY <1>1, <1>3 DEF RespBufs
<1>8. FitsIfLargeEnough'
  BY <1>1, <1>3 DEF FitsIfLargeEnough, Needed, RowSize
<1> QED BY <1>1, <1>3, <1>4, <1>6, <1>7, <1>8, RpcStep

(* A step after the handler's, which touches no buffer of a server. *)
LEMMA ClientStep ==
    ASSUME RpcInv, NEW c \in Clients,
           UNCHANGED <<cfg, store, respBuf, up, calls, corrupt>>, SameForOthers(c), Stage(c)'
    PROVE  RpcInv'
<1>1. /\ calls \in Nat /\ store \in [Keys -> {NoBytes} \cup RowBytes]
      /\ RespBufs /\ up \subseteq DOMAIN respBuf /\ FitsIfLargeEnough
  BY DEF RpcInv
<1>2. RespBufs'
  BY <1>1 DEF RespBufs
<1>3. FitsIfLargeEnough'
  BY <1>1 DEF FitsIfLargeEnough, Needed, RowSize
<1> QED BY <1>1, <1>2, <1>3, RpcStep

(* Read answers with a status and a row, a status alone, or a status and what was there. *)
LEMMA ReadStep == ASSUME RpcInv, NEW c \in Clients, ReadHandler(c) PROVE RpcInv'
<1>1. Arrived(c, "read") /\ UNCHANGED <<cfg, store, call, answer, resp, complete, up, calls>>
  BY DEF ReadHandler
<1>2. /\ ~corrupt /\ Thread(c) \in DOMAIN respBuf /\ ReqKey(c) \in Keys
  BY <1>1, ArrivedIs
<1>3. /\ cfg \in Configs /\ store \in [Keys -> {NoBytes} \cup RowBytes] /\ RespBufs
  BY DEF RpcInv
<1>4. PICK bytes : /\ FromRespBuf(c, bytes)
                   /\ \/ store[ReqKey(c)] # NoBytes /\ bytes = <<kOK>> \o store[ReqKey(c)]
                      \/ \E s \in {kError, kNotFound} : bytes = <<s>> \/ bytes = NotResized(c, s)
  BY Zenon DEF ReadHandler
<1>5. Needed \in Int /\ Needed >= 2 + RowSize /\ RowSize \in Nat
  BY <1>3, NeededIs, RowSizeNat
<1>6. CASE store[ReqKey(c)] # NoBytes /\ bytes = <<kOK>> \o store[ReqKey(c)]
  <2>1. PICK row \in Seq(Int) : row = store[ReqKey(c)] /\ Len(row) = RowSize
    BY <1>2, <1>3, <1>6 DEF RowBytes
  <2>2. bytes \in Seq(Int) /\ Len(bytes) = 1 + RowSize
    <3>1. kOK \in Int /\ bytes = <<kOK>> \o row
      BY <1>6, <2>1 DEF kOK
    <3> HIDE DEF kOK
    <3> QED BY <2>1, <3>1, Prepend
  <2>3. Len(bytes) >= 1 /\ Len(bytes) <= Needed
    BY <1>5, <2>2
  <2> QED BY <1>1, <1>4, <2>2, <2>3, RespStep
<1>7. ASSUME NEW s \in {kError, kNotFound}, bytes = <<s>> PROVE RpcInv'
  <2>1. s \in Int
    BY DEF kError, kNotFound
  <2>2. bytes \in Seq(Int) /\ Len(bytes) = 1
    BY <1>7, <2>1
  <2>3. Len(bytes) >= 1 /\ Len(bytes) <= Needed
    BY <1>5, <2>2
  <2> QED BY <1>1, <1>4, <2>2, <2>3, RespStep
<1>8. ASSUME NEW s \in {kError, kNotFound}, bytes = NotResized(c, s) PROVE RpcInv'
  <2>1. s \in Int
    BY DEF kError, kNotFound
  <2>2. PICK old \in Seq(Int) : old = respBuf[Thread(c)] /\ Len(old) >= 1 /\ Len(old) <= cfg.size
    BY <1>2, <1>3 DEF RespBufs
  <2>3. bytes = [old EXCEPT ![1] = s]
    BY <1>8, <2>2 DEF NotResized
  <2>4. 1 \in 1 .. Len(old)
    BY <2>2
  <2>5. bytes \in Seq(Int) /\ Len(bytes) = Len(old)
    BY <2>1, <2>3, <2>4, ExceptSeq
  <2>6. Len(bytes) >= 1 /\ Len(bytes) <= cfg.size
    BY <2>2, <2>5
  <2> QED BY <1>1, <1>4, <2>5, <2>6, RespStep
<1> QED BY <1>4, <1>6, <1>7, <1>8

(* Scan answers with a status and the rows of no more than ScanLen records. *)
LEMMA ScanStep == ASSUME RpcInv, NEW c \in Clients, ScanHandler(c) PROVE RpcInv'
<1>1. Arrived(c, "scan") /\ UNCHANGED <<cfg, store, call, answer, resp, complete, up, calls>>
  BY DEF ScanHandler
<1>2. /\ ReqKey(c) \in Keys /\ "scan" \in cfg.mix /\ call[c].op = "scan" /\ Asks(call[c], req[c])
  BY <1>1, ArrivedIs
<1>3. cfg \in Configs /\ store \in [Keys -> {NoBytes} \cup RowBytes]
  BY DEF RpcInv
<1>4. At(req[c], 2) = ScanLen
  BY <1>2, RequestParts
<1>5. PICK rows : rows = SerializeRowVector(Scanned(ReqKey(c), ScanLen))
  OBVIOUS
<1>6. FromRespBuf(c, <<kOK>> \o rows)
  BY <1>4, <1>5 DEF ScanHandler
<1>7. rows \in Seq(Int) /\ Len(rows) <= ScanLen * (1 + RowSize)
  BY <1>2, <1>3, <1>5, ScannedLength
<1>8. PICK bytes : bytes = <<kOK>> \o rows /\ bytes \in Seq(Int) /\ Len(bytes) = 1 + Len(rows)
  <2>1. kOK \in Int
    BY DEF kOK
  <2> HIDE DEF kOK
  <2> QED BY <1>7, <2>1, Prepend
<1>9. Len(bytes) >= 1 /\ Len(bytes) <= Needed
  <2>1. PICK m \in Nat, p \in Int, w \in Int :
          m = Len(rows) /\ p = ScanLen * (1 + RowSize) /\ w = Needed
    <3>1. Len(rows) \in Nat /\ Needed \in Int /\ ScanLen * (1 + RowSize) \in Int
      BY <1>3, <1>7, NeededIs, RowSizeNat, Constants, IntTimes
    <3> QED BY <3>1
  <2>2. m <= p /\ w >= 1 + p
    BY <1>2, <1>3, <1>7, <2>1, NeededIs
  <2> QED BY <1>8, <2>1, <2>2
<1> QED BY <1>1, <1>6, <1>8, <1>9, RespStep

(* The handlers that write store nothing, or the row of the request. *)
LEMMA WriteStep ==
    ASSUME RpcInv, NEW c \in Clients,
           PutHandler(c) \/ InsertHandler(c) \/ UpdateHandler(c) \/ DeleteHandler(c)
    PROVE  RpcInv'
<1>1. PICK op \in {"insert", "update", "delete"} :
        Arrived(c, op) /\ (op = "delete" => DeleteHandler(c))
  BY DEF PutHandler, InsertHandler, UpdateHandler, DeleteHandler
<1>2. UNCHANGED <<cfg, call, answer, resp, complete, up, calls>>
  BY DEF PutHandler, InsertHandler, UpdateHandler, DeleteHandler
<1>3. PICK s : FromPre(c, s)
  BY DEF PutHandler, InsertHandler, UpdateHandler, DeleteHandler
<1>4. store \in [Keys -> {NoBytes} \cup RowBytes] /\ ReqKey(c) \in Keys
  BY <1>1, ArrivedIs DEF RpcInv
<1>5. op # "delete" => ReqValue(c) \in RowBytes
  <2>1. call[c].op = op /\ Asks(call[c], req[c])
    BY <1>1, ArrivedIs
  <2> QED BY <2>1, RequestParts
<1>6. DeleteHandler(c) => call[c].op = "delete"
  BY DEF DeleteHandler, Arrived
<1>7. PutHandler(c) \/ InsertHandler(c) \/ UpdateHandler(c) => call[c].op # "delete"
  BY DEF PutHandler, InsertHandler, UpdateHandler, Arrived
<1>8. call[c].op = op
  BY <1>1, ArrivedIs
<1>9. store' \in [Keys -> {NoBytes} \cup RowBytes]
  <2>1. CASE op = "delete"
    <3>1. store' = store \/ store' = [store EXCEPT ![ReqKey(c)] = NoBytes]
      BY <1>1, <2>1 DEF DeleteHandler
    <3> QED BY <1>4, <3>1
  <2>2. CASE op # "delete"
    <3>1. \/ store' = store
          \/ store' = [store EXCEPT ![ReqKey(c)] = ReqValue(c)]
          \/ store' = [store EXCEPT ![ReqKey(c)] = IF @ = NoBytes THEN @ ELSE ReqValue(c)]
      BY <1>6, <1>8, <2>2 DEF PutHandler, InsertHandler, UpdateHandler
    <3> QED BY <1>4, <1>5, <2>2, <3>1
  <2> QED BY <2>1, <2>2
<1> QED BY <1>1, <1>2, <1>3, <1>9, PreStep

(* Every step keeps the buffers as long as the layout says. *)
LEMMA NextRpc == ASSUME RpcInv, [Next]_vars PROVE RpcInv'
<1>0. /\ call = [d \in Clients |-> call[d]] /\ answer = [d \in Clients |-> answer[d]]
      /\ req = [d \in Clients |-> req[d]] /\ complete = [d \in Clients |-> complete[d]]
      /\ via = [d \in Clients |-> via[d]] /\ \A c \in Clients : Stage(c)
  BY DEF RpcInv
<1>1. ASSUME NEW c \in Clients, Handle(c) PROVE RpcInv'
  BY <1>1, ReadStep, ScanStep, WriteStep DEF Handle
<1>2. ASSUME NEW c \in Clients, Deliver(c) \/ Abandon(c) PROVE RpcInv'
  <2>1. /\ UNCHANGED <<cfg, store, call, answer, respBuf, up, calls, corrupt>>
        /\ via' = [via EXCEPT ![c] = "none"] /\ complete' = [complete EXCEPT ![c] = TRUE]
        /\ req' = req \/ req' = [req EXCEPT ![c] = NoBytes]
        /\ req[c] # NoBytes \/ via[c] # "none"
    BY <1>2 DEF Deliver, Abandon
  <2>2. SameForOthers(c)
    BY <1>0, <2>1 DEF SameForOthers
  <2>3. call[c] # NoCall /\ answer[c] = NoAnswer
    BY <1>0, <2>1 DEF Stage
  <2>4. req'[c] = NoBytes
    <3>1. CASE Deliver(c)
      <4>1. via[c] # "none" /\ req' = req
        BY <3>1 DEF Deliver
      <4> QED BY <1>0, <4>1 DEF Stage
    <3>2. CASE Abandon(c)
      BY <1>0, <3>2 DEF Abandon
    <3> QED BY <1>2, <3>1, <3>2
  <2>5. via'[c] = "none" /\ complete'[c] = TRUE
    BY <1>0, <2>1
  <2>6. Stage(c)'
    BY <2>1, <2>3, <2>4, <2>5 DEF Stage
  <2> QED BY <2>1, <2>2, <2>6, ClientStep
<1>3. ASSUME NEW c \in Clients, PollForRpcComplete(c) PROVE RpcInv'
  <2>1. /\ UNCHANGED <<cfg, store, call, req, via, respBuf, up, calls, corrupt>>
        /\ complete[c] /\ call[c] # NoCall /\ complete' = [complete EXCEPT ![c] = FALSE]
    BY <1>3 DEF PollForRpcComplete, AfterPoll
  <2>2. PICK a : answer' = [answer EXCEPT ![c] = a]
    BY <1>3 DEF PollForRpcComplete
  <2>3. SameForOthers(c)
    BY <1>0, <2>1, <2>2 DEF SameForOthers
  <2>4. req'[c] = NoBytes /\ via'[c] = "none" /\ complete'[c] = FALSE /\ call'[c] # NoCall
    BY <1>0, <2>1 DEF Stage
  <2>5. Stage(c)'
    BY <2>4 DEF Stage
  <2> QED BY <2>1, <2>3, <2>5, ClientStep
<1>4. ASSUME NEW c \in Clients, Return(c) PROVE RpcInv'
  <2>1. /\ UNCHANGED <<cfg, store, req, complete, via, respBuf, up, calls, corrupt>>
        /\ answer[c] # NoAnswer /\ call' = [call EXCEPT ![c] = NoCall]
        /\ answer' = [answer EXCEPT ![c] = NoAnswer]
    BY <1>4 DEF Return
  <2>2. SameForOthers(c)
    BY <1>0, <2>1 DEF SameForOthers
  <2>3. req'[c] = NoBytes /\ via'[c] = "none" /\ ~complete'[c] /\ answer'[c] = NoAnswer
    BY <1>0, <2>1 DEF Stage
  <2>4. Stage(c)'
    BY <2>3 DEF Stage
  <2> QED BY <2>1, <2>2, <2>4, ClientStep
<1>5. ASSUME (\E t \in up : StopThread(t)) \/ UNCHANGED vars PROVE RpcInv'
  <2>1. /\ UNCHANGED <<cfg, store, call, answer, req, complete, via, respBuf, calls, corrupt>>
        /\ up' \subseteq up
    BY <1>5 DEF StopThread, vars
  <2>2. \A c \in Clients : Stage(c)'
    <3> SUFFICES ASSUME NEW c \in Clients PROVE Stage(c)'
      OBVIOUS
    <3>1. Asks(call[c], req[c]) => Asks(call[c], req[c])'
      BY <2>1 DEF Asks, RowSize, Keys
    <3> QED BY <1>0, <2>1, <3>1 DEF Stage
  <2>3. RespBufs' /\ FitsIfLargeEnough'
    BY <2>1 DEF RespBufs, FitsIfLargeEnough, Needed, RowSize, RpcInv
  <2>4. Keys' = Keys /\ RowBytes' = RowBytes
    BY <2>1 DEF Keys, RowBytes, RowSize
  <2> QED BY <2>1, <2>2, <2>3, <2>4 DEF RpcInv
<1> QED BY <1>1, <1>2, <1>3, <1>4, <1>5, InvokeStep DEF Next

-----------------------------------------------------------------------------
(* 5. What the clients decode. *)

(* An element before others. *)
LEMMA PrependAny ==
    ASSUME NEW S, NEW x \in S, NEW s \in Seq(S), NEW n \in Nat, n = Len(s)
    PROVE  /\ <<x>> \o s \in Seq(S) /\ Len(<<x>> \o s) = 1 + n
           /\ (<<x>> \o s)[1] = x /\ \A i \in 1 .. n : (<<x>> \o s)[i + 1] = s[i]
<1>1. <<x>> \in Seq(S) /\ Len(<<x>>) = 1 /\ <<x>>[1] = x
  OBVIOUS
<1>2. /\ <<x>> \o s \in Seq(S) /\ Len(<<x>> \o s) = Len(<<x>>) + Len(s)
      /\ \A i \in 1 .. (Len(<<x>>) + Len(s)) :
           (<<x>> \o s)[i] = IF i <= Len(<<x>>) THEN <<x>>[i] ELSE s[i - Len(<<x>>)]
  BY <1>1, ConcatProperties, Zenon
<1>3. \A i \in 1 .. (1 + n) : (<<x>> \o s)[i] = IF i <= 1 THEN <<x>>[i] ELSE s[i - 1]
  BY <1>1, <1>2
<1> QED BY <1>1, <1>2, <1>3

(***************************************************************************)
(* Both decoders have this form: at q they produce h[q] and go on at e[q], *)
(* which is behind it, or end with g[q].                                   *)
(***************************************************************************)
Decoding(f, e, h, g, lim, q) ==
    IF e[q] \in (q + 1) .. lim THEN <<h[q]>> \o f[e[q]] ELSE g[q]
Decodes(f, e, h, g, p, lim) == f = [q \in p .. lim |-> Decoding(f, e, h, g, lim, q)]

(* There is such a function: a least distance from the end at which there is none has one. *)
LEMMA DecodesExists ==
    ASSUME NEW p \in Nat, NEW lim \in Nat, NEW e, NEW h, NEW g
    PROVE  \E f : Decodes(f, e, h, g, p, lim)
<1> DEFINE Upto(f, m) == \A q \in p .. lim : lim - q <= m => f[q] = Decoding(f, e, h, g, lim, q)
           Bad == {m \in Nat : \A f : f = [q \in p .. lim |-> f[q]] => ~Upto(f, m)}
<1>1. Bad = {}
  <2> SUFFICES ASSUME Bad # {} PROVE FALSE
    OBVIOUS
  <2>1. PICK m \in Bad : \A k \in Bad : k >= m
    <3> HIDE DEF Bad
    <3>1. Bad \subseteq Nat
      BY DEF Bad
    <3> QED BY <3>1, LeastNat
  <2>2. CASE m = 0
    <3> DEFINE z == [q \in p .. lim |-> g[q]]
    <3>1. ASSUME NEW q \in p .. lim, lim - q <= 0 PROVE z[q] = Decoding(z, e, h, g, lim, q)
      <4>1. (q + 1) .. lim = {}
        BY <3>1
      <4> QED BY <4>1 DEF Decoding
    <3>2. Upto(z, 0) /\ z = [q \in p .. lim |-> z[q]]
      BY <3>1
    <3> HIDE DEF z
    <3> QED BY <2>2, <3>2
  <2>3. CASE m # 0
    <3>1. m \in Nat /\ m - 1 \in Nat /\ m - 1 \notin Bad
      <4>1. m \in Nat
        OBVIOUS
      <4> HIDE DEF Bad
      <4> QED BY <2>1, <2>3, <4>1
    <3>2. PICK f : f = [q \in p .. lim |-> f[q]] /\ Upto(f, m - 1)
      BY <3>1
    <3> DEFINE z == [q \in p .. lim |-> IF q = lim - m THEN Decoding(f, e, h, g, lim, q) ELSE f[q]]
    <3>3. ASSUME NEW q \in p .. lim, lim - q <= m PROVE z[q] = Decoding(z, e, h, g, lim, q)
      <4>1. Decoding(z, e, h, g, lim, q) = Decoding(f, e, h, g, lim, q)
        <5>1. CASE e[q] \in (q + 1) .. lim
          <6>1. PICK t \in Int : t = e[q] /\ t \in p .. lim /\ t > q
            BY <5>1
          <6>2. t # lim - m
            BY <3>1, <3>3, <6>1
          <6>3. z[t] = f[t]
            BY <6>1, <6>2
          <6> QED BY <5>1, <6>1, <6>3 DEF Decoding
        <5>2. CASE e[q] \notin (q + 1) .. lim
          BY <5>2 DEF Decoding
        <5> QED BY <5>1, <5>2
      <4>2. CASE q = lim - m
        BY <4>1, <4>2
      <4>3. CASE q # lim - m
        <5>1. z[q] = f[q] /\ lim - q <= m - 1
          BY <3>1, <3>3, <4>3
        <5> QED BY <3>2, <4>1, <5>1
      <4> QED BY <4>2, <4>3
    <3>4. Upto(z, m) /\ z = [q \in p .. lim |-> z[q]]
      BY <3>3
    <3> HIDE DEF z
    <3> QED BY <3>4
  <2> QED BY <2>2, <2>3
<1>2. PICK m \in Nat : m >= lim - p
  OBVIOUS
<1>3. PICK f : f = [q \in p .. lim |-> f[q]] /\ Upto(f, m)
  BY <1>1
<1>4. \A q \in p .. lim : lim - q <= m
  BY <1>2
<1>5. \A q \in p .. lim : f[q] = Decoding(f, e, h, g, lim, q)
  BY <1>3, <1>4
<1> QED BY <1>3, <1>5, Zenon DEF Decodes

(* The places pos[0] .. pos[n] that a decoder comes to, the last of which ends it. *)
Leads(e, g, pos, n, p, lim) ==
    /\ pos \in [0 .. n -> p .. lim]
    /\ \A i \in 1 .. n : pos[i] > pos[i - 1] /\ e[pos[i - 1]] = pos[i]
    /\ e[pos[n]] \notin (pos[n] + 1) .. lim /\ g[pos[n]] = <<>>

(* What it produces on the way. *)
Collected(h, pos, n) == [i \in 1 .. n |-> h[pos[i - 1]]]

(***************************************************************************)
(* From p on, a decoder that is led from pos[0] = p to pos[n], where it    *)
(* ends, produces what is there.  By least counterexample, from the end.   *)
(***************************************************************************)
LEMMA DecodedFrom ==
    ASSUME NEW p \in Nat, NEW lim \in Nat, NEW e, NEW h, NEW g, NEW f, Decodes(f, e, h, g, p, lim),
           NEW n \in Nat, NEW pos, Leads(e, g, pos, n, p, lim)
    PROVE  f[pos[0]] = Collected(h, pos, n)
<1> DEFINE Rest(m) == [i \in 1 .. m |-> h[pos[n - m + i - 1]]]
           Bad == {m \in 0 .. n : f[pos[n - m]] # Rest(m)}
<1>l. /\ pos \in [0 .. n -> p .. lim]
      /\ \A i \in 1 .. n : pos[i] > pos[i - 1] /\ e[pos[i - 1]] = pos[i]
      /\ e[pos[n]] \notin (pos[n] + 1) .. lim /\ g[pos[n]] = <<>>
  BY DEF Leads
<1>0. \A q \in p .. lim : f[q] = Decoding(f, e, h, g, lim, q)
  BY DEF Decodes
<1>1. Bad = {}
  <2> SUFFICES ASSUME Bad # {} PROVE FALSE
    OBVIOUS
  <2>1. PICK m \in Bad : \A k \in Bad : k >= m
    <3> HIDE DEF Bad
    <3>1. Bad \subseteq Nat
      BY DEF Bad
    <3> QED BY <3>1, LeastNat
  <2>2. m \in 0 .. n /\ f[pos[n - m]] # Rest(m)
    OBVIOUS
  <2>3. m # 0 => m - 1 \in 0 .. n /\ m - 1 \notin Bad
    <3> HIDE DEF Bad
    <3> QED BY <2>1, <2>2
  <2>4. m # 0 => f[pos[n - (m - 1)]] = Rest(m - 1)
    BY <2>3
  <2> HIDE DEF Bad
  <2>5. CASE m = 0
    <3>1. pos[n] \in p .. lim
      BY <1>l
    <3>2. f[pos[n]] = <<>>
      BY <1>l, <1>0, <3>1 DEF Decoding
    <3>3. Rest(0) = <<>>
      BY EmptySeq
    <3> QED BY <2>2, <2>5, <3>2, <3>3
  <2>6. CASE m # 0
    <3>1. PICK i \in 1 .. n : i = n - m + 1
      BY <2>2, <2>6
    <3>2. /\ n - m = i - 1 /\ n - (m - 1) = i /\ i - 1 \in 0 .. n /\ i \in 0 .. n /\ m - 1 \in Nat
          /\ m \in Nat
      BY <2>2, <2>6, <3>1
    <3>3. PICK q \in p .. lim, t \in p .. lim : q = pos[i - 1] /\ t = pos[i]
      BY <1>l, <3>2
    <3>4. t > q /\ e[q] = t
      BY <1>l, <3>3
    <3>5. e[q] \in (q + 1) .. lim
      BY <3>4
    <3>6. f[q] = <<h[q]>> \o f[t]
      BY <1>0, <3>4, <3>5 DEF Decoding
    <3>7. f[t] = Rest(m - 1)
      BY <2>4, <2>6, <3>2, <3>3
    <3> DEFINE S == {h[pos[j]] : j \in 0 .. n}
    <3>8. h[q] \in S
      BY <3>2, <3>3
    <3>9. PICK r : r = Rest(m - 1)
      OBVIOUS
    <3>10. r \in Seq(S) /\ Len(r) = m - 1 /\ \A j \in 1 .. (m - 1) : r[j] = h[pos[i + j - 1]]
      <4>1. \A j \in 1 .. (m - 1) : n - (m - 1) + j - 1 = i + j - 1 /\ i + j - 1 \in 0 .. n
        BY <3>1, <3>2
      <4>2. r = [j \in 1 .. (m - 1) |-> h[pos[i + j - 1]]]
        BY <3>9, <4>1
      <4>3. \A j \in 1 .. (m - 1) : h[pos[i + j - 1]] \in S
        BY <4>1
      <4> HIDE DEF S
      <4> QED BY <3>2, <4>2, <4>3
    <3> HIDE DEF S
    <3>11. PICK z : z = <<h[q]>> \o r
      OBVIOUS
    <3>12. /\ z \in Seq(S) /\ Len(z) = 1 + (m - 1) /\ z[1] = h[q]
           /\ \A j \in 1 .. (m - 1) : z[j + 1] = r[j]
      <4>1. PICK x \in S, k \in Nat : x = h[q] /\ k = m - 1
        BY <3>2, <3>8
      <4>2. r \in Seq(S) /\ k = Len(r)
        BY <3>10, <4>1
      <4>3. /\ <<x>> \o r \in Seq(S) /\ Len(<<x>> \o r) = 1 + k
            /\ (<<x>> \o r)[1] = x /\ \A j \in 1 .. k : (<<x>> \o r)[j + 1] = r[j]
        BY <4>2, PrependAny
      <4> QED BY <3>11, <4>1, <4>3, Zenon
    <3>13. ASSUME NEW j \in 1 .. m PROVE z[j] = h[pos[n - m + j - 1]]
      <4>1. CASE j = 1
        <5>1. n - m + 1 - 1 = i - 1
          BY <3>2
        <5> QED BY <3>3, <3>12, <4>1, <5>1
      <4>2. CASE j # 1
        <5>1. j - 1 \in 1 .. (m - 1) /\ (j - 1) + 1 = j /\ i + (j - 1) - 1 = n - m + j - 1
          BY <3>2, <4>2
        <5> QED BY <3>10, <3>12, <5>1
      <4> QED BY <4>1, <4>2
    <3>14. z = Rest(m)
      <4>1. Len(z) = m
        BY <3>2, <3>12
      <4>2. z = [j \in 1 .. m |-> z[j]]
        BY <3>12, <4>1
      <4> QED BY <3>13, <4>2
    <3> QED BY <2>2, <3>2, <3>3, <3>6, <3>7, <3>9, <3>11, <3>14
  <2> QED BY <2>5, <2>6
<1>2. f[pos[n - n]] = Rest(n)
  <2>1. n \in 0 .. n
    OBVIOUS
  <2> QED BY <1>1, <2>1, Zenon
<1>3. n - n = 0 /\ \A i \in 1 .. n : n - n + i - 1 = i - 1
  OBVIOUS
<1> QED BY <1>2, <1>3 DEF Collected

(* The field that begins at q, and where it ends. *)
NameEnd(data, q) == q + 1 + At(data, q)
FieldEnd(data, q) == NameEnd(data, q) + 1 + At(data, NameEnd(data, q))
FieldAt(data, q) ==
    [first |-> Slice(data, q + 1, NameEnd(data, q) - q - 1),
     second |-> Slice(data, NameEnd(data, q) + 1, FieldEnd(data, q) - NameEnd(data, q) - 1)]
Wrong == [first |-> <<Garbage>>, second |-> <<Garbage>>]

(* One or two cells of a buffer. *)
LEMMA TwoCells ==
    ASSUME NEW data \in Seq(Int), NEW n \in Nat, n = Len(data), NEW a \in 1 .. n
    PROVE  /\ SubSeq(data, a, a) = <<data[a]>>
           /\ a + 1 <= n => SubSeq(data, a, a + 1) = <<data[a], data[a + 1]>>
<1>1. data \in [1 .. n -> Int]
  OBVIOUS
<1>2. SubSeq(data, a, a) = <<data[a]>>
  <2>1. PICK s : s = SubSeq(data, a, a)
    OBVIOUS
  <2>2. s \in Seq(Int) /\ Len(s) = 1 /\ s[1] = data[a]
    BY <1>1, <2>1
  <2>3. \A x \in Int : <<x>> \in Seq(Int) /\ Len(<<x>>) = 1 /\ <<x>>[1] = x
    OBVIOUS
  <2>4. PICK t \in Seq(Int) : t = <<data[a]>> /\ Len(t) = 1 /\ t[1] = data[a]
    BY <1>1, <2>3
  <2>5. \A i \in 1 .. 1 : s[i] = t[i]
    BY <2>2, <2>4
  <2>6. s = t
    BY <2>2, <2>4, <2>5, SeqEqual
  <2> QED BY <2>1, <2>4, <2>6
<1>3. ASSUME a + 1 <= n PROVE SubSeq(data, a, a + 1) = <<data[a], data[a + 1]>>
  <2>1. PICK s : s = SubSeq(data, a, a + 1)
    OBVIOUS
  <2>2. s \in Seq(Int) /\ Len(s) = 2 /\ s[1] = data[a] /\ s[2] = data[a + 1]
    BY <1>1, <1>3, <2>1
  <2>3. \A x, y \in Int : /\ <<x, y>> \in Seq(Int) /\ Len(<<x, y>>) = 2
                          /\ <<x, y>>[1] = x /\ <<x, y>>[2] = y
    OBVIOUS
  <2>4. PICK t \in Seq(Int) : /\ t = <<data[a], data[a + 1]>> /\ Len(t) = 2
                              /\ t[1] = data[a] /\ t[2] = data[a + 1]
    <3>1. data[a] \in Int /\ data[a + 1] \in Int
      BY <1>1, <1>3
    <3>2. PICK x \in Int, y \in Int : x = data[a] /\ y = data[a + 1]
      BY <3>1
    <3>3. /\ <<x, y>> \in Seq(Int) /\ Len(<<x, y>>) = 2
          /\ <<x, y>>[1] = x /\ <<x, y>>[2] = y
      BY <2>3
    <3> QED BY <3>2, <3>3
  <2>5. \A i \in 1 .. 2 : s[i] = t[i]
    BY <2>2, <2>4
  <2>6. s = t
    BY <2>2, <2>4, <2>5, SeqEqual
  <2> QED BY <2>1, <2>4, <2>6
<1> QED BY <1>2, <1>3

(* The cells of a field are decoded as that field. *)
LEMMA FieldDecodes ==
    ASSUME NEW data \in Seq(Int), NEW q \in Nat, NEW i \in Int, NEW v \in Int,
           q + 4 + Width <= Len(data), \A j \in 1 .. (4 + Width) : data[q + j] = Cells(i, v)[j]
    PROVE  /\ FieldEnd(data, q) = q + 4 + Width
           /\ FieldAt(data, q) = [first |-> NameOf(i), second |-> Value(v)]
<1>1. PICK w \in 0 .. 1, n \in Nat : w = Width /\ n = Len(data) /\ q + 4 + w <= n
  BY LayoutIs
<1>2. PICK z : /\ z = Cells(i, v) /\ z[1] = w /\ (w = 1 => z[2] = i)
               /\ z[2 + w] = 2 /\ z[3 + w] = v /\ z[4 + w] = v
  BY <1>1, CellsAre
<1>3. \A j \in 1 .. (4 + w) : data[q + j] = z[j]
  BY <1>1, <1>2
<1>4. /\ data[q + 1] = w /\ (w = 1 => data[q + 2] = i)
      /\ data[q + (2 + w)] = 2 /\ data[q + (3 + w)] = v /\ data[q + (4 + w)] = v
  <2>1. {1, 2 + w, 3 + w, 4 + w} \subseteq 1 .. (4 + w) /\ 2 \in 1 .. (4 + w)
    OBVIOUS
  <2>2. /\ data[q + 1] = z[1] /\ data[q + 2] = z[2] /\ data[q + (2 + w)] = z[2 + w]
        /\ data[q + (3 + w)] = z[3 + w] /\ data[q + (4 + w)] = z[4 + w]
    BY <1>3, <2>1
  <2> QED BY <1>2, <2>2, Zenon
<1>5. At(data, q) = w
  BY <1>1, <1>4 DEF At
<1>6. NameEnd(data, q) = q + 1 + w
  BY <1>5 DEF NameEnd
<1>7. At(data, q + 1 + w) = 2
  <2>1. (q + 1 + w) + 1 = q + (2 + w) /\ q + 1 + w < n
    BY <1>1
  <2> QED BY <1>1, <1>4, <2>1 DEF At
<1>8. FieldEnd(data, q) = q + 4 + w
  BY <1>6, <1>7 DEF FieldEnd
<1>9. FieldAt(data, q) = [first |-> Slice(data, q + 1, w), second |-> Slice(data, q + 2 + w, 2)]
  <2>1. /\ q + 1 + w - q - 1 = w /\ q + 1 + w + 1 = q + 2 + w
        /\ (q + 4 + w) - (q + 1 + w) - 1 = 2
    OBVIOUS
  <2> QED BY <1>6, <1>8, <2>1 DEF FieldAt
<1>10. Slice(data, q + 1, w) = NameOf(i)
  <2>1. Slice(data, q + 1, w) = SubSeq(data, (q + 1) + 1, (q + 1) + w)
    BY <1>1 DEF Slice
  <2>2. CASE w = 0
    <3>1. SubSeq(data, (q + 1) + 1, (q + 1) + w) = <<>>
      BY <2>2, EmptySeq
    <3>2. NameOf(i) = <<>>
      BY <1>1, <2>2 DEF NameOf, Width, Unnamed
    <3> QED BY <2>1, <3>1, <3>2
  <2>3. CASE w = 1
    <3>1. SubSeq(data, q + 2, q + 2) = <<data[q + 2]>>
      <4>1. PICK a \in 1 .. n : a = q + 2
        BY <1>1, <2>3
      <4> QED BY <1>1, <4>1, TwoCells
    <3>2. NameOf(i) = <<i>>
      BY <1>1, <2>3 DEF NameOf, Width
    <3>3. (q + 1) + 1 = q + 2 /\ (q + 1) + w = q + 2
      BY <2>3
    <3> QED BY <1>4, <2>1, <2>3, <3>1, <3>2, <3>3
  <2> QED BY <2>2, <2>3
<1>11. Slice(data, q + 2 + w, 2) = Value(v)
  <2>1. PICK a \in Nat : a = q + 3 + w /\ a + 1 <= n /\ a >= 1
    BY <1>1
  <2>2. Slice(data, q + 2 + w, 2) = SubSeq(data, a, a + 1)
    BY <1>1, <2>1 DEF Slice
  <2>3. data[a] = v /\ data[a + 1] = v
    <3>1. a = q + (3 + w) /\ a + 1 = q + (4 + w)
      BY <2>1
    <3> QED BY <1>4, <3>1
  <2>4. SubSeq(data, a, a + 1) = <<data[a], data[a + 1]>>
    <3>1. a \in 1 .. n
      BY <2>1
    <3> QED BY <1>1, <2>1, <3>1, TwoCells
  <2> QED BY <2>2, <2>3, <2>4 DEF Value
<1> QED BY <1>1, <1>8, <1>9, <1>10, <1>11

RowReader(data, p, lim, f, e, h, g) ==
    /\ Decodes(f, e, h, g, p, lim) /\ DeserializeRow(data, p, lim) = f[p]
    /\ \A q \in p .. lim :
         /\ h[q] = FieldAt(data, q)
         /\ e[q] = IF q # lim /\ FieldEnd(data, q) \in (q + 2) .. lim
                   THEN FieldEnd(data, q) ELSE q
    /\ g[lim] = <<>>

(* DeserializeRow has the form of Decoding. *)
LEMMA RowUnfold ==
    ASSUME NEW data, NEW p \in Nat, NEW lim \in Nat, p <= lim
    PROVE  \E f, e, h, g : RowReader(data, p, lim, f, e, h, g)
<1> DEFINE T(f, q) == IF q = lim THEN <<>>
                      ELSE <<FieldAt(data, q)>> \o
                             (IF FieldEnd(data, q) \in (q + 2) .. lim THEN f[FieldEnd(data, q)]
                              ELSE <<Wrong>>)
           h == [q \in p .. lim |-> FieldAt(data, q)]
           e == [q \in p .. lim |-> IF q # lim /\ FieldEnd(data, q) \in (q + 2) .. lim
                                    THEN FieldEnd(data, q) ELSE q]
           g == [q \in p .. lim |-> IF q = lim THEN <<>> ELSE <<FieldAt(data, q)>> \o <<Wrong>>]
<1>1. DeserializeRow(data, p, lim) = (CHOOSE f : f = [q \in p .. lim |-> T(f, q)])[p]
  BY Zenon DEF DeserializeRow, FieldAt, FieldEnd, NameEnd, Wrong
<1>2. ASSUME NEW f, NEW q \in p .. lim PROVE T(f, q) = Decoding(f, e, h, g, lim, q)
  <2>1. h[q] = FieldAt(data, q) /\ g[q] = IF q = lim THEN <<>> ELSE <<FieldAt(data, q)>> \o <<Wrong>>
    OBVIOUS
  <2>2. PICK x : x = FieldEnd(data, q)
    OBVIOUS
  <2>3. e[q] = IF q # lim /\ x \in (q + 2) .. lim THEN x ELSE q
    BY <2>2
  <2>4. T(f, q) = IF q = lim THEN <<>>
                  ELSE <<FieldAt(data, q)>> \o (IF x \in (q + 2) .. lim THEN f[x] ELSE <<Wrong>>)
    BY <2>2
  <2> HIDE DEF T, e, h, g
  <2>5. CASE q = lim
    <3>1. e[q] \notin (q + 1) .. lim
      BY <2>3, <2>5
    <3> QED BY <2>1, <2>4, <2>5, <3>1 DEF Decoding
  <2>6. CASE q # lim /\ x \in (q + 2) .. lim
    <3>1. e[q] = x /\ x \in (q + 1) .. lim
      BY <2>3, <2>6
    <3> QED BY <2>1, <2>4, <2>6, <3>1 DEF Decoding
  <2>7. CASE q # lim /\ x \notin (q + 2) .. lim
    <3>1. e[q] \notin (q + 1) .. lim
      BY <2>3, <2>7
    <3> QED BY <2>1, <2>4, <2>7, <3>1 DEF Decoding
  <2> QED BY <2>5, <2>6, <2>7
<1>3. ASSUME NEW f PROVE f = [q \in p .. lim |-> T(f, q)] <=> Decodes(f, e, h, g, p, lim)
  <2>1. [q \in p .. lim |-> T(f, q)] = [q \in p .. lim |-> Decoding(f, e, h, g, lim, q)]
    <3> HIDE DEF T, e, h, g
    <3> QED BY <1>2, Zenon
  <2> HIDE DEF T, e, h, g
  <2> QED BY <2>1, Zenon DEF Decodes
<1>4. \A q \in p .. lim :
        /\ h[q] = FieldAt(data, q)
        /\ e[q] = IF q # lim /\ FieldEnd(data, q) \in (q + 2) .. lim THEN FieldEnd(data, q) ELSE q
  OBVIOUS
<1>5. g[lim] = <<>>
  OBVIOUS
<1> HIDE DEF T, e, h, g
<1>6. \E f : Decodes(f, e, h, g, p, lim)
  BY DecodesExists
<1>7. PICK z : z = CHOOSE f : f = [q \in p .. lim |-> T(f, q)]
  OBVIOUS
<1>8. z = [q \in p .. lim |-> T(z, q)]
  BY <1>3, <1>6, <1>7, Zenon
<1>9. Decodes(z, e, h, g, p, lim) /\ DeserializeRow(data, p, lim) = z[p]
  <2>1. Decodes(z, e, h, g, p, lim)
    BY <1>3, <1>8, Zenon
  <2>2. DeserializeRow(data, p, lim) = z[p]
    BY <1>1, <1>7, Zenon
  <2> QED BY <2>1, <2>2
<1> WITNESS z, e, h, g
<1> QED BY <1>4, <1>5, <1>9, Zenon DEF RowReader

(* A row in a buffer is decoded as what the workload built. *)
LEMMA RowDecodes ==
    ASSUME NEW v \in Nat, NEW data \in Seq(Int), NEW p \in Nat, p + RowSize <= Len(data),
           \A i \in 1 .. RowSize : data[p + i] = SerializeRow(Built(v))[i]
    PROVE  DeserializeRow(data, p, p + RowSize) = Built(v)
<1>1. PICK n \in Nat, L \in Nat, s \in Nat, len \in Nat :
        /\ n = FieldCount /\ L = 4 + Width /\ s = RowSize /\ s = n * L /\ len = Len(data)
        /\ p + s <= len /\ L >= 4
  <2>1. /\ FieldCount \in Nat /\ 4 + Width \in Nat /\ 4 + Width >= 4 /\ RowSize \in Nat
        /\ RowSize = FieldCount * (4 + Width)
    BY LayoutIs
  <2>2. PICK len \in Nat : len = Len(data)
    OBVIOUS
  <2> QED BY <2>1, <2>2
<1>2. PICK lim \in Nat :
        /\ lim = p + s /\ p <= lim /\ lim <= len
        /\ DeserializeRow(data, p, p + RowSize) = DeserializeRow(data, p, lim)
  BY <1>1
<1>r. PICK f, e, h, g : RowReader(data, p, lim, f, e, h, g)
  <2>1. p <= lim
    BY <1>2
  <2> QED BY <2>1, RowUnfold
<1>3. /\ Decodes(f, e, h, g, p, lim) /\ DeserializeRow(data, p, lim) = f[p]
      /\ \A q \in p .. lim :
           /\ h[q] = FieldAt(data, q)
           /\ e[q] = IF q # lim /\ FieldEnd(data, q) \in (q + 2) .. lim
                     THEN FieldEnd(data, q) ELSE q
      /\ g[lim] = <<>>
  BY <1>r DEF RowReader
<1>4. PICK pos : pos = [i \in 0 .. n |-> p + i * L]
  OBVIOUS
<1>5. ASSUME NEW i \in 1 .. n
      PROVE  /\ pos[i - 1] \in p .. lim /\ pos[i] = pos[i - 1] + L /\ pos[i] <= lim
             /\ h[pos[i - 1]] = [first |-> NameOf(i), second |-> Value(v)]
             /\ e[pos[i - 1]] = pos[i]
  <2>1. PICK u \in Nat : u = (i - 1) * L /\ u + L <= s /\ i * L = u + L
    <3>1. (i - 1) * L \in Nat /\ (i - 1) * L + L <= n * L /\ i * L = (i - 1) * L + L
      BY PieceAt
    <3>2. n * L = s
      BY <1>1
    <3> QED BY <3>1, <3>2, Zenon
  <2>2. i - 1 \in 0 .. n /\ i \in 0 .. n
    OBVIOUS
  <2>3. PICK q \in Nat : q = p + u /\ pos[i - 1] = q /\ pos[i] = q + L
    <3>1. pos[i - 1] = p + u /\ pos[i] = p + (u + L)
      BY <1>4, <2>1, <2>2
    <3> HIDE <1>4
    <3>2. p + (u + L) = (p + u) + L /\ p + u \in Nat
      OBVIOUS
    <3> QED BY <3>1, <3>2
  <2>4. q + L <= lim /\ q \in p .. lim /\ q # lim /\ q + L <= len /\ q + L \in (q + 2) .. lim
    <3>1. u + L <= s /\ L >= 4 /\ lim = p + s /\ lim <= len /\ q = p + u
      BY <1>1, <1>2, <2>1, <2>3
    <3> QED BY <3>1
  <2>5. \A j \in 1 .. L : data[q + j] = Cells(i, v)[j]
    <3> SUFFICES ASSUME NEW j \in 1 .. L PROVE data[q + j] = Cells(i, v)[j]
      OBVIOUS
    <3>1. u + j \in 1 .. s
      <4>1. u + L <= s
        BY <2>1
      <4> QED BY <4>1
    <3>2. data[p + (u + j)] = SerializeRow(Built(v))[u + j]
      BY <1>1, <3>1
    <3>3. SerializeRow(Built(v))[u + j] = Cells(i, v)[j]
      BY <1>1, <2>1, RowIs
    <3>4. q + j = p + (u + j)
      BY <2>3
    <3> QED BY <3>2, <3>3, <3>4
  <2>6. /\ FieldEnd(data, q) = q + L
        /\ FieldAt(data, q) = [first |-> NameOf(i), second |-> Value(v)]
    <3>1. i \in Int /\ v \in Int
      OBVIOUS
    <3>2. q + 4 + Width <= Len(data) /\ q + 4 + Width = q + L
      BY <1>1, <2>4, LayoutIs
    <3>3. \A j \in 1 .. (4 + Width) : data[q + j] = Cells(i, v)[j]
      BY <1>1, <2>5
    <3> QED BY <3>1, <3>2, <3>3, FieldDecodes
  <2> QED BY <1>3, <2>3, <2>4, <2>6
<1>6. pos[0] = p /\ pos[n] = lim
  BY <1>1, <1>2, <1>4
<1>7. pos \in [0 .. n -> p .. lim]
  <2>1. ASSUME NEW i \in 0 .. n PROVE pos[i] \in p .. lim
    <3>1. CASE i = 0
      BY <1>2, <1>6, <3>1
    <3>2. CASE i # 0
      <4>1. i \in 1 .. n
        BY <3>2
      <4>2. pos[i - 1] \in p .. lim /\ pos[i] = pos[i - 1] + L /\ pos[i] <= lim
        BY <1>5, <4>1
      <4> QED BY <4>2
    <3> QED BY <3>1, <3>2
  <2> QED BY <1>4, <2>1
<1>8. \A i \in 1 .. n : pos[i] > pos[i - 1] /\ e[pos[i - 1]] = pos[i]
  <2> SUFFICES ASSUME NEW i \in 1 .. n PROVE pos[i] > pos[i - 1] /\ e[pos[i - 1]] = pos[i]
    OBVIOUS
  <2>1. pos[i - 1] \in p .. lim /\ pos[i] = pos[i - 1] + L /\ e[pos[i - 1]] = pos[i]
    BY <1>5
  <2>2. L >= 4
    BY <1>1
  <2>3. PICK x \in Int : x = pos[i - 1] /\ pos[i] = x + L
    BY <2>1
  <2> QED BY <2>1, <2>2, <2>3
<1>9. e[pos[n]] \notin (pos[n] + 1) .. lim /\ g[pos[n]] = <<>>
  BY <1>2, <1>3, <1>6
<1>10. f[pos[0]] = Collected(h, pos, n)
  <2>1. Leads(e, g, pos, n, p, lim)
    BY <1>7, <1>8, <1>9 DEF Leads
  <2>2. Decodes(f, e, h, g, p, lim)
    BY <1>3
  <2> QED BY <2>1, <2>2, DecodedFrom
<1>11. Collected(h, pos, n) = Built(v)
  BY <1>1, <1>5, BuiltIs DEF Collected
<1> QED BY <1>2, <1>3, <1>6, <1>10, <1>11

RowEnd(data, q) == q + 1 + At(data, q)

RowsReader(data, p, lim, f, e, h, g) ==
    /\ Decodes(f, e, h, g, p, lim) /\ DeserializeRowVector(data, p, lim) = f[p]
    /\ \A q \in p .. lim :
         /\ h[q] = DeserializeRow(data, q + 1, RowEnd(data, q))
         /\ e[q] = IF q # lim /\ RowEnd(data, q) \in (q + 1) .. lim THEN RowEnd(data, q) ELSE q
    /\ g[lim] = <<>>

(* DeserializeRowVector has the form of Decoding. *)
LEMMA RowsUnfold ==
    ASSUME NEW data, NEW p \in Nat, NEW lim \in Nat, p <= lim
    PROVE  \E f, e, h, g : RowsReader(data, p, lim, f, e, h, g)
<1> DEFINE T(f, q) == IF q = lim THEN <<>>
                      ELSE IF RowEnd(data, q) \in (q + 1) .. lim
                      THEN <<DeserializeRow(data, q + 1, RowEnd(data, q))>> \o f[RowEnd(data, q)]
                      ELSE <<<<Wrong>>>>
           h == [q \in p .. lim |-> DeserializeRow(data, q + 1, RowEnd(data, q))]
           e == [q \in p .. lim |-> IF q # lim /\ RowEnd(data, q) \in (q + 1) .. lim
                                    THEN RowEnd(data, q) ELSE q]
           g == [q \in p .. lim |-> IF q = lim THEN <<>> ELSE <<<<Wrong>>>>]
<1>1. DeserializeRowVector(data, p, lim) = (CHOOSE f : f = [q \in p .. lim |-> T(f, q)])[p]
  BY Zenon DEF DeserializeRowVector, RowEnd, Wrong
<1>2. ASSUME NEW f, NEW q \in p .. lim PROVE T(f, q) = Decoding(f, e, h, g, lim, q)
  <2>1. PICK x, y : x = RowEnd(data, q) /\ y = DeserializeRow(data, q + 1, x)
    OBVIOUS
  <2>2. h[q] = y /\ g[q] = IF q = lim THEN <<>> ELSE <<<<Wrong>>>>
    BY <2>1
  <2>3. e[q] = IF q # lim /\ x \in (q + 1) .. lim THEN x ELSE q
    BY <2>1
  <2>4. T(f, q) = IF q = lim THEN <<>>
                  ELSE IF x \in (q + 1) .. lim THEN <<y>> \o f[x] ELSE <<<<Wrong>>>>
    BY <2>1
  <2> HIDE DEF T, e, h, g
  <2>5. CASE q = lim
    <3>1. e[q] \notin (q + 1) .. lim
      BY <2>3, <2>5
    <3> QED BY <2>2, <2>4, <2>5, <3>1 DEF Decoding
  <2>6. CASE q # lim /\ x \in (q + 1) .. lim
    <3>1. e[q] = x
      BY <2>3, <2>6
    <3> QED BY <2>2, <2>4, <2>6, <3>1 DEF Decoding
  <2>7. CASE q # lim /\ x \notin (q + 1) .. lim
    <3>1. e[q] \notin (q + 1) .. lim
      BY <2>3, <2>7
    <3> QED BY <2>2, <2>4, <2>7, <3>1 DEF Decoding
  <2> QED BY <2>5, <2>6, <2>7
<1>3. ASSUME NEW f PROVE f = [q \in p .. lim |-> T(f, q)] <=> Decodes(f, e, h, g, p, lim)
  <2>1. [q \in p .. lim |-> T(f, q)] = [q \in p .. lim |-> Decoding(f, e, h, g, lim, q)]
    <3> HIDE DEF T, e, h, g
    <3> QED BY <1>2, Zenon
  <2> HIDE DEF T, e, h, g
  <2> QED BY <2>1, Zenon DEF Decodes
<1>4. \A q \in p .. lim :
        /\ h[q] = DeserializeRow(data, q + 1, RowEnd(data, q))
        /\ e[q] = IF q # lim /\ RowEnd(data, q) \in (q + 1) .. lim THEN RowEnd(data, q) ELSE q
  OBVIOUS
<1>5. g[lim] = <<>>
  OBVIOUS
<1> HIDE DEF T, e, h, g
<1>6. \E f : Decodes(f, e, h, g, p, lim)
  BY DecodesExists
<1>7. PICK z : z = CHOOSE f : f = [q \in p .. lim |-> T(f, q)]
  OBVIOUS
<1>8. z = [q \in p .. lim |-> T(z, q)]
  BY <1>3, <1>6, <1>7, Zenon
<1>9. Decodes(z, e, h, g, p, lim) /\ DeserializeRowVector(data, p, lim) = z[p]
  <2>1. Decodes(z, e, h, g, p, lim)
    BY <1>3, <1>8, Zenon
  <2>2. DeserializeRowVector(data, p, lim) = z[p]
    BY <1>1, <1>7, Zenon
  <2> QED BY <2>1, <2>2
<1> WITNESS z, e, h, g
<1> QED BY <1>4, <1>5, <1>9, Zenon DEF RowsReader

(* A response to a scan: the status, and the rows that were found. *)
ScanResponse(n, vs) == <<kOK>> \o SerializeRowVector([i \in 1 .. n |-> SerializeRow(Built(vs[i]))])

(***************************************************************************)
(* The rows of a response to a scan, behind its status, are decoded as     *)
(* they were built: DeserializeRowVector undoes SerializeRowVector of what *)
(* SerializeRow made, for every number of rows and of fields.              *)
(***************************************************************************)
THEOREM RowsDecode ==
    ASSUME NEW n \in Nat, NEW vs \in [1 .. n -> Nat], NEW data, data = ScanResponse(n, vs)
    PROVE  /\ data \in Seq(Int) /\ Len(data) = 1 + n * (1 + RowSize) /\ data[1] = kOK
           /\ DeserializeRowVector(data, 1, Len(data)) = [i \in 1 .. n |-> Built(vs[i])]
<1>0. PICK rows : /\ rows = [i \in 1 .. n |-> SerializeRow(Built(vs[i]))]
                  /\ data = <<kOK>> \o SerializeRowVector(rows)
  BY Zenon DEF ScanResponse
<1>1. PICK R \in Nat, L \in Nat, s \in Nat : R = RowSize /\ L = 1 + R /\ s = n * L
  <2>1. RowSize \in Nat /\ 1 + RowSize \in Nat
    BY LayoutIs
  <2>2. n * (1 + RowSize) \in Nat
    BY <2>1, NatTimes
  <2> QED BY <2>1, <2>2
<1>2. \A i \in 1 .. n : rows[i] = SerializeRow(Built(vs[i])) /\ rows[i] \in Seq(Int) /\ Len(rows[i]) = R
  <2> SUFFICES ASSUME NEW i \in 1 .. n
               PROVE  rows[i] = SerializeRow(Built(vs[i])) /\ rows[i] \in Seq(Int) /\ Len(rows[i]) = R
    OBVIOUS
  <2>1. PICK v \in Nat : v = vs[i] /\ rows[i] = SerializeRow(Built(v))
    BY <1>0
  <2>2. SerializeRow(Built(v)) \in RowBytes
    BY RowIs
  <2> QED BY <1>1, <2>1, <2>2 DEF RowBytes
<1>3. PICK seqs : seqs = [i \in 1 .. n |-> Sized(rows[i])]
  OBVIOUS
<1>4. \A i \in 1 .. n : /\ seqs[i] \in Seq(Int) /\ Len(seqs[i]) = L /\ seqs[i][1] = R
                        /\ \A j \in 1 .. R : seqs[i][j + 1] = rows[i][j]
  <2> SUFFICES ASSUME NEW i \in 1 .. n
               PROVE  /\ seqs[i] \in Seq(Int) /\ Len(seqs[i]) = L /\ seqs[i][1] = R
                      /\ \A j \in 1 .. R : seqs[i][j + 1] = rows[i][j]
    OBVIOUS
  <2>1. PICK r \in Seq(Int) : r = rows[i] /\ Len(r) = R
    BY <1>2
  <2>2. R \in Int
    OBVIOUS
  <2>3. /\ <<R>> \o r \in Seq(Int) /\ Len(<<R>> \o r) = 1 + Len(r) /\ (<<R>> \o r)[1] = R
        /\ \A j \in 1 .. Len(r) : (<<R>> \o r)[j + 1] = r[j]
    BY <2>2, Prepend
  <2>4. seqs[i] = <<R>> \o r
    BY <1>3, <2>1 DEF Sized
  <2>5. 1 + Len(r) = L
    BY <1>1, <2>1
  <2> QED BY <2>1, <2>3, <2>4, <2>5, Zenon
<1>5. seqs \in Seq(Seq(Int)) /\ Len(seqs) = n
  BY <1>3, <1>4
<1>6. PICK r \in Seq(Int) : /\ r = SerializeRowVector(rows) /\ Len(r) = s
                            /\ \A i \in 1 .. n, j \in 1 .. L : r[(i - 1) * L + j] = seqs[i][j]
  <2>1. \A i \in 1 .. Len(seqs) : Len(seqs[i]) = L
    BY <1>4, <1>5
  <2>2. /\ FlattenSeq(seqs) \in Seq(Int) /\ Len(FlattenSeq(seqs)) = Len(seqs) * L
        /\ \A i \in 1 .. Len(seqs), j \in 1 .. L : FlattenSeq(seqs)[(i - 1) * L + j] = seqs[i][j]
    BY <1>5, <2>1, FlattenPieces
  <2>3. SerializeRowVector(rows) = FlattenSeq(seqs)
    BY <1>0, <1>3 DEF SerializeRowVector
  <2>4. Len(seqs) * L = s
    BY <1>1, <1>5
  <2> QED BY <1>5, <2>2, <2>3, <2>4, Zenon
<1>7. PICK lim \in Nat : lim = 1 + s
  OBVIOUS
<1>8. /\ data \in Seq(Int) /\ Len(data) = lim /\ data[1] = kOK
      /\ \A j \in 1 .. s : data[j + 1] = r[j]
  <2>1. kOK \in Int
    BY DEF kOK
  <2>2. data = <<kOK>> \o r
    BY <1>0, <1>6
  <2> HIDE DEF kOK
  <2>3. /\ <<kOK>> \o r \in Seq(Int) /\ Len(<<kOK>> \o r) = 1 + Len(r) /\ (<<kOK>> \o r)[1] = kOK
        /\ \A j \in 1 .. Len(r) : (<<kOK>> \o r)[j + 1] = r[j]
    BY <2>1, Prepend
  <2>4. Len(r) = s /\ 1 + Len(r) = lim
    BY <1>6, <1>7
  <2> QED BY <2>2, <2>3, <2>4, Zenon
<1>r. PICK f, e, h, g : RowsReader(data, 1, lim, f, e, h, g)
  <2>1. 1 <= lim
    BY <1>7
  <2> QED BY <2>1, RowsUnfold
<1>9. /\ Decodes(f, e, h, g, 1, lim) /\ DeserializeRowVector(data, 1, lim) = f[1]
      /\ \A q \in 1 .. lim :
           /\ h[q] = DeserializeRow(data, q + 1, RowEnd(data, q))
           /\ e[q] = IF q # lim /\ RowEnd(data, q) \in (q + 1) .. lim THEN RowEnd(data, q) ELSE q
      /\ g[lim] = <<>>
  BY <1>r DEF RowsReader
<1>10. PICK pos : pos = [i \in 0 .. n |-> 1 + i * L]
  OBVIOUS
<1>11. ASSUME NEW i \in 1 .. n
       PROVE  /\ pos[i - 1] \in 1 .. lim /\ pos[i] = pos[i - 1] + L /\ pos[i] <= lim
              /\ h[pos[i - 1]] = Built(vs[i]) /\ e[pos[i - 1]] = pos[i]
  <2>1. PICK u \in Nat : u = (i - 1) * L /\ u + L <= s /\ i * L = u + L
    <3>1. (i - 1) * L \in Nat /\ (i - 1) * L + L <= n * L /\ i * L = (i - 1) * L + L
      BY PieceAt
    <3>2. n * L = s
      BY <1>1
    <3> QED BY <3>1, <3>2, Zenon
  <2>2. i - 1 \in 0 .. n /\ i \in 0 .. n
    OBVIOUS
  <2>3. PICK q \in Nat : q = 1 + u /\ pos[i - 1] = q /\ pos[i] = q + L
    <3>1. pos[i - 1] = 1 + u /\ pos[i] = 1 + (u + L)
      BY <1>10, <2>1, <2>2
    <3>2. 1 + (u + L) = (1 + u) + L /\ 1 + u \in Nat
      OBVIOUS
    <3> QED BY <3>1, <3>2
  <2>4. /\ q + L <= lim /\ q \in 1 .. lim /\ q # lim /\ q + L \in (q + 1) .. lim
        /\ q + 1 + R = q + L /\ q + 1 \in Nat
    <3>1. u + L <= s /\ L = 1 + R /\ lim = 1 + s /\ q = 1 + u
      BY <1>1, <1>7, <2>1, <2>3
    <3> QED BY <3>1
  <2>5. \A j \in 1 .. L : data[q + j] = seqs[i][j]
    <3> SUFFICES ASSUME NEW j \in 1 .. L PROVE data[q + j] = seqs[i][j]
      OBVIOUS
    <3>1. u + j \in 1 .. s
      <4>1. u + L <= s
        BY <2>1
      <4> QED BY <4>1
    <3>2. data[(u + j) + 1] = r[u + j]
      BY <1>8, <3>1
    <3>3. r[u + j] = seqs[i][j]
      BY <1>6, <2>1
    <3>4. q + j = (u + j) + 1
      BY <2>3
    <3> QED BY <3>2, <3>3, <3>4
  <2>6. RowEnd(data, q) = q + L
    <3>1. 1 \in 1 .. L
      BY <1>1
    <3>2. data[q + 1] = R
      BY <1>4, <2>5, <3>1
    <3>3. q < lim
      BY <2>4
    <3>4. At(data, q) = R
      BY <1>8, <3>2, <3>3 DEF At
    <3> QED BY <2>4, <3>4 DEF RowEnd
  <2>7. DeserializeRow(data, q + 1, q + L) = Built(vs[i])
    <3>1. PICK v \in Nat : v = vs[i] /\ rows[i] = SerializeRow(Built(v))
      BY <1>2
    <3>2. PICK a \in Nat : a = q + 1 /\ a + R = q + L
      BY <2>4
    <3>3. \A j \in 1 .. R : data[a + j] = SerializeRow(Built(v))[j]
      <4> SUFFICES ASSUME NEW j \in 1 .. R PROVE data[a + j] = SerializeRow(Built(v))[j]
        OBVIOUS
      <4>1. j + 1 \in 1 .. L /\ q + (j + 1) = a + j
        BY <1>1, <3>2
      <4>2. data[q + (j + 1)] = seqs[i][j + 1]
        BY <2>5, <4>1
      <4>3. seqs[i][j + 1] = rows[i][j]
        BY <1>4
      <4> QED BY <3>1, <4>1, <4>2, <4>3
    <3>4. a + RowSize <= Len(data)
      BY <1>1, <1>8, <2>4, <3>2
    <3>5. DeserializeRow(data, a, a + RowSize) = Built(v)
      BY <1>1, <1>8, <3>3, <3>4, RowDecodes
    <3>6. a + RowSize = q + L
      BY <1>1, <3>2
    <3> QED BY <3>1, <3>2, <3>5, <3>6
  <2> QED BY <1>9, <2>3, <2>4, <2>6, <2>7
<1>12. pos[0] = 1 /\ pos[n] = lim
  BY <1>1, <1>7, <1>10
<1>13. Leads(e, g, pos, n, 1, lim)
  <2>1. ASSUME NEW i \in 0 .. n PROVE pos[i] \in 1 .. lim
    <3>1. CASE i = 0
      BY <1>7, <1>12, <3>1
    <3>2. CASE i # 0
      <4>1. i \in 1 .. n
        BY <3>2
      <4>2. pos[i - 1] \in 1 .. lim /\ pos[i] = pos[i - 1] + L /\ pos[i] <= lim
        BY <1>11, <4>1
      <4> QED BY <4>2
    <3> QED BY <3>1, <3>2
  <2>2. ASSUME NEW i \in 1 .. n PROVE pos[i] > pos[i - 1] /\ e[pos[i - 1]] = pos[i]
    <3>1. pos[i - 1] \in 1 .. lim /\ pos[i] = pos[i - 1] + L /\ e[pos[i - 1]] = pos[i]
      BY <1>11
    <3>2. L >= 1
      BY <1>1
    <3>3. PICK x \in Int : x = pos[i - 1] /\ pos[i] = x + L
      BY <3>1
    <3> QED BY <3>1, <3>2, <3>3
  <2>3. pos \in [0 .. n -> 1 .. lim]
    BY <1>10, <2>1
  <2>4. e[pos[n]] \notin (pos[n] + 1) .. lim /\ g[pos[n]] = <<>>
    BY <1>7, <1>9, <1>12
  <2> QED BY <2>2, <2>3, <2>4 DEF Leads
<1>14. f[pos[0]] = Collected(h, pos, n)
  <2>1. Decodes(f, e, h, g, 1, lim) /\ 1 \in Nat
    BY <1>9
  <2> QED BY <1>13, <2>1, DecodedFrom
<1>15. Collected(h, pos, n) = [i \in 1 .. n |-> Built(vs[i])]
  BY <1>11 DEF Collected
<1>16. Len(data) = 1 + n * (1 + RowSize)
  BY <1>1, <1>7, <1>8
<1> QED BY <1>8, <1>9, <1>12, <1>14, <1>15, <1>16

-----------------------------------------------------------------------------
(* 6. What is stored, and what requests ask for. *)

RowNumbers == 0 .. MaxCalls
IsRow(bytes) == \E v \in RowNumbers : bytes = SerializeRow(Built(v))

(* A request says what its call is to do. *)
WritesRow(c) == \E v \in RowNumbers : /\ call[c].vals = AsRow(Built(v))
                                      /\ req[c] = Request(call[c], Built(v))
Says(c) ==
    /\ call[c].fields = FieldNames
    /\ call[c].op = "scan" => call[c].len = ScanLen
    /\ call[c].op \in {"insert", "update"} => WritesRow(c)

Stored == \A k \in Keys : store[k] # NoBytes => IsRow(store[k])
Places ==
    /\ resp = [c \in Clients |-> resp[c]] /\ pre = [c \in Clients |-> pre[c]]
    /\ DOMAIN respBuf = {Thread(c) : c \in Clients}

TableInv == RpcInv /\ Stored /\ Places /\ \A c \in Clients : req[c] # NoBytes => Says(c)

(* The numbers of the rows are natural numbers. *)
LEMMA RowNumbersAre == RowNumbers \subseteq Nat /\ 0 \in RowNumbers
BY RpcStoreAssumption DEF RowNumbers

(* The loaded rows are rows, and there are no requests. *)
LEMMA InitTable == Init => TableInv
<1> SUFFICES ASSUME Init PROVE TableInv
  OBVIOUS
<1>1. RpcInv
  BY InitRpc
<1>2. Stored
  <2>1. PICK n : store = [k \in Keys |-> IF k <= n THEN SerializeRow(Built(0)) ELSE NoBytes]
    BY DEF Init
  <2>2. IsRow(SerializeRow(Built(0)))
    BY RowNumbersAre, Zenon DEF IsRow
  <2> QED BY <2>1, <2>2 DEF Stored
<1>3. Places
  BY DEF Init, Places
<1>4. \A c \in Clients : req[c] = NoBytes
  BY DEF Init
<1> QED BY <1>1, <1>2, <1>3, <1>4 DEF TableInv

(* A row is a row after a step too. *)
LEMMA SameRows ==
    ASSUME cfg' = cfg
    PROVE  /\ \A v : Built(v)' = Built(v)
           /\ \A bytes : IsRow(bytes) => IsRow(bytes)'
           /\ FieldNames' = FieldNames
<1>1. ASSUME NEW v PROVE Built(v)' = Built(v)
  BY DEF Built, Value, Unnamed
<1>2. ASSUME NEW bytes, IsRow(bytes) PROVE IsRow(bytes)'
  BY <1>1, <1>2, Zenon DEF IsRow, RowNumbers
<1> QED BY <1>1, <1>2, Zenon DEF FieldNames, Unnamed

(* A step that makes no request, but may end some. *)
LEMMA TableStep ==
    ASSUME TableInv, RpcInv', cfg' = cfg, Stored', Places',
           \A d \in Clients : req'[d] # NoBytes => \/ req'[d] = req[d] /\ call'[d] = call[d]
                                                   \/ Says(d)'
    PROVE  TableInv'
<1>1. ASSUME NEW d \in Clients, req'[d] # NoBytes PROVE Says(d)'
  <2>1. CASE req'[d] = req[d] /\ call'[d] = call[d]
    <3>1. Says(d)
      BY <1>1, <2>1 DEF TableInv
    <3>2. WritesRow(d) => WritesRow(d)'
      <4> SUFFICES ASSUME NEW v \in RowNumbers, call[d].vals = AsRow(Built(v)),
                          req[d] = Request(call[d], Built(v))
                   PROVE  WritesRow(d)'
        BY DEF WritesRow
      <4>1. call'[d].vals = AsRow(Built(v)') /\ req'[d] = Request(call'[d], Built(v)')
        BY <2>1, SameRows
      <4> QED BY <4>1, Zenon DEF WritesRow, RowNumbers
    <3> QED BY <2>1, <3>1, <3>2, SameRows DEF Says
  <2> QED BY <1>1, <2>1
<1> QED BY <1>1 DEF TableInv

(* The row that a handler takes from a request is the one the client built. *)
LEMMA RequestRow ==
    ASSUME NEW c, Asks(call[c], req[c]), call[c].op \in {"insert", "update"},
           NEW v \in Nat, req[c] = Request(call[c], Built(v))
    PROVE  ReqValue(c) = SerializeRow(Built(v))
<1>1. PICK b \in Seq(Int), n \in Nat, R \in Nat :
        b = req[c] /\ n = Len(b) /\ R = RowSize /\ n = 2 + R /\ b[1] = 1 /\ R >= 4
  BY RowSizeNat DEF Asks
<1>2. PICK q \in Seq(Int) : q = SerializeRow(Built(v)) /\ Len(q) = R
  BY <1>1, RowIs DEF RowBytes
<1>3. PICK k \in Int : k = call[c].key
  BY Constants DEF Asks, Keys
<1>4. PICK p \in Seq(Int) : p = SerializeKey(<<k>>) /\ Len(p) = 2
  <2>1. <<k>> \in Seq(Int) /\ Len(<<k>>) = 1
    OBVIOUS
  <2>2. Sized(<<k>>) \in Seq(Int) /\ Len(Sized(<<k>>)) = 1 + Len(<<k>>)
    BY <2>1, SizedIs
  <2> QED BY <2>1, <2>2 DEF SerializeKey
<1>5. b = p \o q
  <2>1. (CASE call[c].op \in {"read", "delete"} -> <<>>
           [] call[c].op = "scan" -> <<call[c].len>>
           [] call[c].op \in {"insert", "update"} -> SerializeRow(Built(v))) = q
    BY <1>2
  <2> QED BY <1>1, <1>3, <1>4, <2>1 DEF Request
<1>6. \A i \in 1 .. Len(p) + Len(q) : (p \o q)[i] = IF i <= Len(p) THEN p[i] ELSE q[i - Len(p)]
  BY ConcatProperties, Zenon
<1>7. \A i \in 1 .. R : b[i + 2] = q[i]
  <2>1. \A i \in 1 .. (2 + R) : b[i] = IF i <= 2 THEN p[i] ELSE q[i - 2]
    BY <1>2, <1>4, <1>5, <1>6
  <2> SUFFICES ASSUME NEW i \in 1 .. R PROVE b[i + 2] = q[i]
    OBVIOUS
  <2>2. i + 2 \in 1 .. (2 + R) /\ ~(i + 2 <= 2) /\ (i + 2) - 2 = i
    OBVIOUS
  <2> QED BY <2>1, <2>2
<1>8. DeserializeKey(b) = SubSeq(b, 2, 2)
  <2>1. At(b, 0) = 1
    BY <1>1 DEF At
  <2> QED BY <1>1, <2>1 DEF DeserializeKey, Slice
<1>9. Len(DeserializeKey(b)) = 1
  BY <1>1, <1>8
<1>10. ReqValue(c) = SubSeq(b, 3, n)
  <2>1. ReqValue(c) = Slice(b, 1 + 1, n - 1 - 1)
    BY <1>1, <1>9 DEF ReqValue
  <2>2. /\ n - 1 - 1 >= 0 /\ (1 + 1) + (n - 1 - 1) <= Len(b)
        /\ (1 + 1) + 1 = 3 /\ (1 + 1) + (n - 1 - 1) = n
    BY <1>1
  <2>3. Slice(b, 1 + 1, n - 1 - 1) = SubSeq(b, (1 + 1) + 1, (1 + 1) + (n - 1 - 1))
    BY <2>2, Zenon DEF Slice
  <2> QED BY <2>1, <2>2, <2>3, Zenon
<1>11. PICK r : r = SubSeq(b, 3, n)
  OBVIOUS
<1>12. r \in Seq(Int) /\ Len(r) = R /\ \A i \in 1 .. R : r[i] = b[i + 2]
  <2>1. 3 \in Int /\ n \in Int /\ \A i \in 3 .. n : b[i] \in Int
    <3>1. \A s \in Seq(Int) : \A i \in 1 .. Len(s) : s[i] \in Int
      OBVIOUS
    <3>2. \A i \in 3 .. n : i \in 1 .. n
      OBVIOUS
    <3>3. 3 \in Int /\ n \in Int
      OBVIOUS
    <3> QED BY <1>1, <3>1, <3>2, <3>3, Zenon
  <2>2. /\ SubSeq(b, 3, n) \in Seq(Int)
        /\ Len(SubSeq(b, 3, n)) = IF 3 <= n THEN n - 3 + 1 ELSE 0
        /\ \A i \in 1 .. n - 3 + 1 : SubSeq(b, 3, n)[i] = b[3 + i - 1]
    BY <2>1, SubSeqProperties
  <2>3. 3 <= n /\ n - 3 + 1 = R /\ \A i \in 1 .. R : 3 + i - 1 = i + 2
    BY <1>1
  <2> QED BY <1>11, <2>2, <2>3
<1>13. r = [i \in 1 .. R |-> r[i]] /\ q = [i \in 1 .. R |-> q[i]]
  BY <1>2, <1>12
<1> QED BY <1>2, <1>7, <1>10, <1>11, <1>12, <1>13

(* The row that a write stores. *)
LEMMA WrittenRow ==
    ASSUME TableInv, NEW c \in Clients, NEW op \in {"insert", "update"}, Arrived(c, op)
    PROVE  \E v \in RowNumbers : ReqValue(c) = SerializeRow(Built(v)) /\ call[c].vals = AsRow(Built(v))
<1>1. Asks(call[c], req[c]) /\ call[c].op = op /\ req[c] # NoBytes
  BY ArrivedIs DEF TableInv
<1>2. PICK v \in RowNumbers : call[c].vals = AsRow(Built(v)) /\ req[c] = Request(call[c], Built(v))
  BY <1>1 DEF TableInv, Says, WritesRow
<1>3. ReqValue(c) = SerializeRow(Built(v))
  BY <1>1, <1>2, RequestRow, RowNumbersAre
<1> QED BY <1>2, <1>3

(* What a handler that writes does to the store. *)
LEMMA WriteTo ==
    ASSUME NEW c, PutHandler(c) \/ InsertHandler(c) \/ UpdateHandler(c) \/ DeleteHandler(c)
    PROVE  \/ store' = store
           \/ store' = [store EXCEPT ![ReqKey(c)] = NoBytes]
           \/ /\ Arrived(c, "insert") \/ Arrived(c, "update")
              /\ store' = [store EXCEPT ![ReqKey(c)] = ReqValue(c)]
           \/ /\ Arrived(c, "update")
              /\ store' = [store EXCEPT ![ReqKey(c)] = IF @ = NoBytes THEN @ ELSE ReqValue(c)]
BY DEF PutHandler, InsertHandler, UpdateHandler, DeleteHandler

(* A handler's step keeps rows in the store. *)
LEMMA HandleTable == ASSUME TableInv, NEW c \in Clients, Handle(c), RpcInv' PROVE TableInv'
<1>0. RpcInv /\ Stored /\ Places /\ store = [k \in Keys |-> store[k]] /\ req = [d \in Clients |-> req[d]]
      /\ RespBufs
  BY DEF TableInv, RpcInv
<1>1. UNCHANGED <<cfg, call, answer, resp, complete, up, calls>>
  BY DEF Handle, ReadHandler, ScanHandler, PutHandler, InsertHandler, UpdateHandler, DeleteHandler
<1>2. (\E bytes : FromRespBuf(c, bytes)) \/ (\E s : FromPre(c, s))
  <2>1. ReadHandler(c) => \E bytes : FromRespBuf(c, bytes)
    BY Zenon DEF ReadHandler
  <2>2. ScanHandler(c) => \E bytes : FromRespBuf(c, bytes)
    BY Zenon DEF ScanHandler
  <2>3. PutHandler(c) \/ InsertHandler(c) \/ UpdateHandler(c) \/ DeleteHandler(c) =>
          \E s : FromPre(c, s)
    BY DEF PutHandler, InsertHandler, UpdateHandler, DeleteHandler
  <2> QED BY <2>1, <2>2, <2>3 DEF Handle
<1>3. req' = [req EXCEPT ![c] = NoBytes]
  BY <1>2 DEF FromRespBuf, FromPre
<1>4. pre' = [d \in Clients |-> pre'[d]] /\ DOMAIN respBuf' = DOMAIN respBuf
  BY <1>0, <1>2 DEF FromRespBuf, FromPre, Places, RespBufs
<1>5. Places'
  <2>1. \A d : Thread(d)' = Thread(d)
    BY <1>1 DEF Thread
  <2>2. resp' = [d \in Clients |-> resp'[d]]
    BY <1>0, <1>1 DEF Places
  <2>3. DOMAIN respBuf' = {Thread(d)' : d \in Clients}
    BY <1>0, <1>4, <2>1 DEF Places
  <2> QED BY <1>4, <2>2, <2>3 DEF Places
<1>6. PICK new : /\ \A k \in Keys : store'[k] = store[k] \/ store'[k] = new \/ store'[k] = NoBytes
                 /\ IsRow(new)
  <2>1. CASE \E op \in {"insert", "update"} : Arrived(c, op)
    <3>1. PICK op \in {"insert", "update"} : Arrived(c, op)
      BY <2>1
    <3>2. IsRow(ReqValue(c))
      BY <3>1, WrittenRow DEF IsRow
    <3>3. \A k \in Keys : store'[k] = store[k] \/ store'[k] = ReqValue(c) \/ store'[k] = NoBytes
      <4>1. CASE ReadHandler(c) \/ ScanHandler(c)
        BY <4>1 DEF ReadHandler, ScanHandler
      <4>2. CASE PutHandler(c) \/ InsertHandler(c) \/ UpdateHandler(c) \/ DeleteHandler(c)
        <5>1. \/ store' = store
              \/ store' = [store EXCEPT ![ReqKey(c)] = NoBytes]
              \/ store' = [store EXCEPT ![ReqKey(c)] = ReqValue(c)]
              \/ store' = [store EXCEPT ![ReqKey(c)] = IF @ = NoBytes THEN @ ELSE ReqValue(c)]
          BY <4>2, WriteTo
        <5> QED BY <1>0, <5>1
      <4> QED BY <4>1, <4>2 DEF Handle
    <3> QED BY <3>2, <3>3
  <2>2. CASE ~(\E op \in {"insert", "update"} : Arrived(c, op))
    <3>1. store' = store \/ store' = [store EXCEPT ![ReqKey(c)] = NoBytes]
      <4>1. CASE ReadHandler(c) \/ ScanHandler(c)
        BY <4>1 DEF ReadHandler, ScanHandler
      <4>2. CASE PutHandler(c) \/ InsertHandler(c) \/ UpdateHandler(c) \/ DeleteHandler(c)
        BY <2>2, <4>2, WriteTo
      <4> QED BY <4>1, <4>2 DEF Handle
    <3>2. \A k \in Keys : store'[k] = store[k] \/ store'[k] = NoBytes
      BY <1>0, <3>1
    <3>3. IsRow(SerializeRow(Built(0)))
      BY RowNumbersAre, Zenon DEF IsRow
    <3> QED BY <3>2, <3>3
  <2> QED BY <2>1, <2>2
<1>7. Stored'
  <2>1. IsRow(new)'
    BY <1>1, <1>6, SameRows
  <2>2. ASSUME NEW k \in Keys, store'[k] # NoBytes PROVE IsRow(store[k])'
    <3>1. CASE store'[k] = store[k]
      <4>1. PICK b : b = store[k] /\ IsRow(b)
        BY <1>0, <2>2, <3>1 DEF Stored
      <4>2. IsRow(b)'
        BY <1>1, <4>1, SameRows
      <4> QED BY <3>1, <4>1, <4>2 DEF IsRow
    <3>2. CASE store'[k] = new
      BY <2>1, <3>2 DEF IsRow
    <3> QED BY <1>6, <2>2, <3>1, <3>2
  <2>3. Keys' = Keys
    BY DEF Keys
  <2> QED BY <2>2, <2>3 DEF Stored
<1>8. \A d \in Clients : req'[d] # NoBytes => req'[d] = req[d] /\ call'[d] = call[d]
  BY <1>0, <1>1, <1>3
<1> QED BY <1>1, <1>5, <1>7, <1>8, TableStep

(* The row that a call sends, and the call that a client enters. *)
Sent(op) == IF op \in {"insert", "update"} THEN Built(calls + 1) ELSE <<>>
CallOf(op, k) == [op |-> op, key |-> k, vals |-> AsRow(Sent(op)), fields |-> FieldNames,
                  len |-> IF op = "scan" THEN ScanLen ELSE 0]

(* Invoke enters such a call, and makes its request. *)
LEMMA InvokeIs ==
    ASSUME RpcInv, NEW c \in Clients, Invoke(c)
    PROVE  /\ \E op \in cfg.mix, k \in Keys :
                /\ call' = [call EXCEPT ![c] = CallOf(op, k)] /\ call'[c] = CallOf(op, k)
                /\ req' = [req EXCEPT ![c] = Request(CallOf(op, k), Sent(op))]
                /\ req'[c] = Request(CallOf(op, k), Sent(op))
           /\ calls + 1 \in RowNumbers
<1>1. /\ call = [d \in Clients |-> call[d]] /\ req = [d \in Clients |-> req[d]]
      /\ calls \in Nat /\ cfg \in Configs
  BY DEF RpcInv
<1>2. PICK op \in cfg.mix, k \in Keys :
        /\ call' = [call EXCEPT ![c] = CallOf(op, k)]
        /\ req' = [req EXCEPT ![c] = Request(CallOf(op, k), Sent(op))]
  BY Zenon DEF Invoke, CallOf, Sent
<1>3. call'[c] = CallOf(op, k) /\ req'[c] = Request(CallOf(op, k), Sent(op))
  BY <1>1, <1>2
<1>4. calls + 1 \in RowNumbers
  <2>1. calls < cfg.calls /\ cfg.calls \in 0 .. MaxCalls /\ MaxCalls \in Nat
    BY <1>1, RpcStoreAssumption DEF Invoke
  <2> QED BY <1>1, <2>1 DEF RowNumbers
<1> QED BY <1>2, <1>3, <1>4

(* A new request says what its call is to do. *)
LEMMA InvokeTable == ASSUME TableInv, NEW c \in Clients, Invoke(c), RpcInv' PROVE TableInv'
<1>1. /\ UNCHANGED <<cfg, store, answer, resp, complete, via, pre, respBuf, up>>
      /\ RpcInv /\ Stored /\ Places /\ call = [d \in Clients |-> call[d]]
      /\ req = [d \in Clients |-> req[d]]
  BY DEF Invoke, TableInv, RpcInv
<1>2. PICK op \in cfg.mix, k \in Keys :
        /\ call' = [call EXCEPT ![c] = CallOf(op, k)] /\ call'[c] = CallOf(op, k)
        /\ req' = [req EXCEPT ![c] = Request(CallOf(op, k), Sent(op))]
        /\ req'[c] = Request(CallOf(op, k), Sent(op))
  BY <1>1, InvokeIs
<1>3. calls + 1 \in RowNumbers
  BY <1>1, InvokeIs
<1>4. /\ CallOf(op, k).op = op /\ CallOf(op, k).fields = FieldNames
      /\ CallOf(op, k).vals = AsRow(Sent(op)) /\ (op = "scan" => CallOf(op, k).len = ScanLen)
  BY DEF CallOf
<1>5. op \in {"insert", "update"} => WritesRow(c)'
  <2> SUFFICES ASSUME op \in {"insert", "update"} PROVE WritesRow(c)'
    OBVIOUS
  <2>1. PICK v \in RowNumbers : v = calls + 1 /\ Sent(op) = Built(v)
    BY <1>3 DEF Sent
  <2>2. call'[c].vals = AsRow(Built(v)') /\ req'[c] = Request(call'[c], Built(v)')
    BY <1>1, <1>2, <1>4, <2>1, SameRows
  <2> QED BY <2>2, Zenon DEF WritesRow, RowNumbers
<1>6. Says(c)'
  BY <1>1, <1>2, <1>4, <1>5, SameRows DEF Says
<1>7. \A d \in Clients : d # c => req'[d] = req[d] /\ call'[d] = call[d]
  BY <1>1, <1>2
<1>8. Places'
  <2>1. \A d : Thread(d)' = Thread(d)
    BY <1>1 DEF Thread
  <2> QED BY <1>1, <2>1 DEF Places
<1>9. Stored'
  <2>1. ASSUME NEW j \in Keys, store'[j] # NoBytes PROVE IsRow(store[j])'
    <3>1. PICK b : b = store[j] /\ IsRow(b)
      BY <1>1, <2>1 DEF Stored
    <3>2. IsRow(b)'
      BY <1>1, <3>1, SameRows
    <3> QED BY <1>1, <3>1, <3>2 DEF IsRow
  <2>2. Keys' = Keys
    BY DEF Keys
  <2> QED BY <2>1, <2>2 DEF Stored
<1> QED BY <1>1, <1>6, <1>7, <1>8, <1>9, TableStep

(* The other steps leave the store alone, and make no request. *)
LEMMA QuietTable ==
    ASSUME TableInv, RpcInv', UNCHANGED <<cfg, store, respBuf>>,
           resp' = [d \in Clients |-> resp'[d]], pre' = [d \in Clients |-> pre'[d]],
           \A d \in Clients : req'[d] # NoBytes => req'[d] = req[d] /\ call'[d] = call[d]
    PROVE  TableInv'
<1>1. Stored'
  <2>1. ASSUME NEW j \in Keys, store'[j] # NoBytes PROVE IsRow(store[j])'
    <3>1. PICK b : b = store[j] /\ IsRow(b)
      BY <2>1 DEF TableInv, Stored
    <3>2. IsRow(b)'
      BY <3>1, SameRows
    <3> QED BY <3>1, <3>2 DEF IsRow
  <2>2. Keys' = Keys
    BY DEF Keys
  <2> QED BY <2>1, <2>2 DEF Stored
<1>2. Places'
  <2>1. \A d : Thread(d)' = Thread(d)
    BY DEF Thread
  <2>2. DOMAIN respBuf = {Thread(d) : d \in Clients}
    BY DEF TableInv, Places
  <2> QED BY <2>1, <2>2 DEF Places
<1> QED BY <1>1, <1>2, TableStep

(* Every step keeps rows in the store and calls in their requests. *)
LEMMA NextTable == ASSUME TableInv, [Next]_vars PROVE TableInv'
<1>1. /\ RpcInv /\ RpcInv' /\ Places
      /\ req = [d \in Clients |-> req[d]] /\ call = [d \in Clients |-> call[d]]
      /\ \A c \in Clients : Stage(c)
  BY NextRpc DEF TableInv, RpcInv
<1>2. ASSUME NEW c \in Clients, Deliver(c) \/ Abandon(c) PROVE TableInv'
  <2>1. /\ UNCHANGED <<cfg, store, respBuf, call>> /\ pre' = [pre EXCEPT ![c] = NoBytes]
        /\ \E r : resp' = [resp EXCEPT ![c] = r]
        /\ req' = req \/ req' = [req EXCEPT ![c] = NoBytes]
    BY <1>2 DEF Deliver, Abandon
  <2>2. resp' = [d \in Clients |-> resp'[d]] /\ pre' = [d \in Clients |-> pre'[d]]
    BY <1>1, <2>1 DEF Places
  <2>3. \A d \in Clients : req'[d] # NoBytes => req'[d] = req[d] /\ call'[d] = call[d]
    BY <1>1, <2>1
  <2> QED BY <1>1, <2>1, <2>2, <2>3, QuietTable
<1>3. ASSUME NEW c \in Clients, PollForRpcComplete(c) PROVE TableInv'
  <2>1. /\ UNCHANGED <<cfg, store, respBuf, call, req, pre>> /\ \E r : resp' = [resp EXCEPT ![c] = r]
    BY <1>3 DEF PollForRpcComplete
  <2>2. resp' = [d \in Clients |-> resp'[d]] /\ pre' = [d \in Clients |-> pre'[d]]
    BY <1>1, <2>1 DEF Places
  <2> QED BY <1>1, <2>1, <2>2, QuietTable
<1>4. ASSUME NEW c \in Clients, Return(c) PROVE TableInv'
  <2>1. /\ UNCHANGED <<cfg, store, respBuf, resp, req, pre>> /\ call' = [call EXCEPT ![c] = NoCall]
        /\ answer[c] # NoAnswer
    BY <1>4 DEF Return
  <2>2. resp' = [d \in Clients |-> resp'[d]] /\ pre' = [d \in Clients |-> pre'[d]]
    BY <1>1, <2>1 DEF Places
  <2>3. req[c] = NoBytes
    BY <1>1, <2>1 DEF Stage
  <2>4. \A d \in Clients : req'[d] # NoBytes => req'[d] = req[d] /\ call'[d] = call[d]
    BY <1>1, <2>1, <2>3
  <2> QED BY <1>1, <2>1, <2>2, <2>4, QuietTable
<1>5. ASSUME (\E t \in up : StopThread(t)) \/ UNCHANGED vars PROVE TableInv'
  <2>1. UNCHANGED <<cfg, store, respBuf, resp, req, call, pre>>
    BY <1>5 DEF StopThread, vars
  <2>2. resp' = [d \in Clients |-> resp'[d]] /\ pre' = [d \in Clients |-> pre'[d]]
    BY <1>1, <2>1 DEF Places
  <2> QED BY <1>1, <2>1, <2>2, QuietTable
<1>6. ASSUME NEW c \in Clients, Handle(c) PROVE TableInv'
  BY <1>1, <1>6, HandleTable
<1>7. ASSUME NEW c \in Clients, Invoke(c) PROVE TableInv'
  BY <1>1, <1>7, InvokeTable
<1> QED BY <1>2, <1>3, <1>4, <1>5, <1>6, <1>7 DEF Next

-----------------------------------------------------------------------------
(* 7. The table that the store holds. *)

RowOf(bytes) == AsRow(DeserializeRow(bytes, 0, Len(bytes)))
EmptyRow == [f \in {} |-> 0]
Named == {NameOf(i) : i \in 1 .. FieldCount}

(* A row of no fields. *)
LEMMA AsRowOfNone == AsRow(<<>>) = EmptyRow
<1>1. DOMAIN <<>> = {}
  OBVIOUS
<1> HIDE <1>1
<1> DEFINE D == {<<>>[i].first : i \in DOMAIN <<>>}
           g(f) == <<>>[CHOOSE i \in DOMAIN <<>> :
                          <<>>[i].first = f /\ \A j \in 1 .. (i - 1) : <<>>[j].first # f].second
<1>2. D = {}
  BY <1>1
<1>3. AsRow(<<>>) = [f \in D |-> g(f)]
  BY Zenon DEF AsRow
<1> HIDE DEF D, g
<1>4. [f \in D |-> g(f)] = [f \in {} |-> 0]
  BY <1>2
<1> QED BY <1>3, <1>4 DEF EmptyRow

(* What the workload builds has a value for each of its names. *)
LEMMA AsRowOfBuilt ==
    ASSUME NEW v
    PROVE  AsRow(Built(v)) = [f \in Named |-> Value(v)]
<1>1. PICK n \in Nat : n = FieldCount /\ n > 0
  BY LayoutIs
<1>2. PICK b : b = Built(v)
  OBVIOUS
<1>3. DOMAIN b = 1 .. n /\ \A i \in 1 .. n : b[i].first = NameOf(i) /\ b[i].second = Value(v)
  BY <1>1, <1>2, BuiltIs
<1>4. \A i, j \in 1 .. n : i # j => NameOf(i) # NameOf(j)
  <2>1. CASE cfg.writeall
    <3>1. \A i, j : <<i>> = <<j>> => i = j
      OBVIOUS
    <3> QED BY <2>1, <3>1 DEF NameOf
  <2>2. CASE ~cfg.writeall
    BY <1>1, <2>2 DEF FieldCount
  <2> QED BY <2>1, <2>2
<1> DEFINE First(f, i) == b[i].first = f /\ \A j \in 1 .. (i - 1) : b[j].first # f
<1>5. ASSUME NEW f \in Named PROVE b[CHOOSE i \in DOMAIN b : First(f, i)].second = Value(v)
  <2>1. PICK i \in 1 .. n : f = NameOf(i)
    BY <1>1 DEF Named
  <2>2. First(f, i)
    <3>1. \A j \in 1 .. (i - 1) : j \in 1 .. n /\ j # i
      OBVIOUS
    <3> QED BY <1>3, <1>4, <2>1, <3>1
  <2> HIDE DEF First
  <2>3. (CHOOSE j \in DOMAIN b : First(f, j)) \in DOMAIN b
    BY <1>3, <2>2, Zenon
  <2>4. PICK j : j = (CHOOSE k \in DOMAIN b : First(f, k)) /\ j \in 1 .. n
    BY <1>3, <2>3, Zenon
  <2> QED BY <1>3, <2>4
<1>6. {b[i].first : i \in DOMAIN b} = Named
  BY <1>1, <1>3 DEF Named
<1>7. AsRow(b) = [f \in {b[i].first : i \in DOMAIN b} |-> b[CHOOSE i \in DOMAIN b : First(f, i)].second]
  BY Zenon DEF AsRow
<1> HIDE DEF First
<1>8. AsRow(b) = [f \in Named |-> Value(v)]
  BY <1>5, <1>6, <1>7
<1> QED BY <1>2, <1>8

(* The names are some of those there are. *)
LEMMA NamedIs == Named # {} /\ Named \subseteq FieldNames
<1>1. FieldCount \in Nat /\ FieldCount > 0
  BY LayoutIs
<1>2. \A i \in 1 .. FieldCount : NameOf(i) \in FieldNames
  BY <1>1 DEF NameOf, FieldNames, FieldCount
<1>3. 1 \in 1 .. FieldCount
  BY <1>1
<1> QED BY <1>2, <1>3 DEF Named

(* Nothing stored is no row. *)
LEMMA RowOfNothing == RowOf(NoBytes) = EmptyRow
<1>1. Len(NoBytes) = 0
  BY DEF NoBytes
<1>2. PICK z \in Nat : z = 0
  OBVIOUS
<1>3. PICK f, e, h, g : RowReader(NoBytes, z, z, f, e, h, g)
  <2>1. z <= z
    BY <1>2
  <2> QED BY <2>1, RowUnfold
<1>4. /\ Decodes(f, e, h, g, z, z) /\ DeserializeRow(NoBytes, z, z) = f[z] /\ e[z] = z /\ g[z] = <<>>
  <2>1. z \in z .. z
    OBVIOUS
  <2> QED BY <1>3, <2>1 DEF RowReader
<1>5. f[z] = <<>>
  <2>1. z \in z .. z /\ z \notin (z + 1) .. z
    OBVIOUS
  <2>2. f[z] = Decoding(f, e, h, g, z, z)
    BY <1>4, <2>1 DEF Decodes
  <2> QED BY <1>4, <2>1, <2>2 DEF Decoding
<1>6. DeserializeRow(NoBytes, 0, 0) = <<>>
  BY <1>2, <1>4, <1>5
<1> QED BY <1>1, <1>6, AsRowOfNone DEF RowOf

(* What is stored of a row is that row. *)
LEMMA RowOfRow ==
    ASSUME NEW v \in Nat
    PROVE  RowOf(SerializeRow(Built(v))) = AsRow(Built(v)) /\ AsRow(Built(v)) # EmptyRow
           /\ SerializeRow(Built(v)) # NoBytes
<1>1. PICK b \in Seq(Int), R \in Nat : b = SerializeRow(Built(v)) /\ R = RowSize /\ Len(b) = R /\ R >= 4
  BY RowIs, RowSizeNat DEF RowBytes
<1>2. PICK z \in Nat : z = 0 /\ z + RowSize = R /\ \A i \in 1 .. RowSize : z + i = i
  BY <1>1
<1>3. DeserializeRow(b, z, z + RowSize) = Built(v)
  <2>1. z + RowSize <= Len(b)
    BY <1>1, <1>2
  <2>2. \A i \in 1 .. RowSize : b[z + i] = SerializeRow(Built(v))[i]
    BY <1>1, <1>2
  <2> QED BY <2>1, <2>2, RowDecodes
<1>4. RowOf(b) = AsRow(Built(v))
  BY <1>1, <1>2, <1>3 DEF RowOf
<1>5. AsRow(Built(v)) # EmptyRow
  <2>1. DOMAIN EmptyRow = {} /\ DOMAIN AsRow(Built(v)) = Named
    BY AsRowOfBuilt DEF EmptyRow
  <2> QED BY <2>1, NamedIs
<1>6. b # NoBytes
  BY <1>1 DEF NoBytes
<1> QED BY <1>1, <1>4, <1>5, <1>6

(* A key has a record where the store has bytes. *)
LEMMA TableIs ==
    ASSUME TableInv
    PROVE  /\ TableOf = [k \in Keys |-> RowOf(store[k])]
           /\ \A k \in Keys : /\ TableOf[k] = EmptyRow <=> store[k] = NoBytes
                              /\ store[k] # NoBytes =>
                                   \E v \in RowNumbers : /\ store[k] = SerializeRow(Built(v))
                                                         /\ TableOf[k] = AsRow(Built(v))
<1>1. TableOf = [k \in Keys |-> RowOf(store[k])]
  BY DEF TableOf, RowOf
<1>2. ASSUME NEW k \in Keys
      PROVE  /\ TableOf[k] = EmptyRow <=> store[k] = NoBytes
             /\ store[k] # NoBytes => \E v \in RowNumbers : /\ store[k] = SerializeRow(Built(v))
                                                            /\ TableOf[k] = AsRow(Built(v))
  <2>1. TableOf[k] = RowOf(store[k])
    BY <1>1
  <2>2. CASE store[k] = NoBytes
    BY <2>1, <2>2, RowOfNothing
  <2>3. CASE store[k] # NoBytes
    <3>1. PICK v \in RowNumbers : store[k] = SerializeRow(Built(v))
      BY <2>3 DEF TableInv, Stored, IsRow
    <3>2. RowOf(SerializeRow(Built(v))) = AsRow(Built(v)) /\ AsRow(Built(v)) # EmptyRow
      BY RowOfRow, RowNumbersAre
    <3> QED BY <2>1, <2>3, <3>1, <3>2
  <2> QED BY <2>2, <2>3
<1> QED BY <1>1, <1>2

-----------------------------------------------------------------------------
(* 8. The answers on their way. *)

AnswerFor(c) ==
    IF answer[c] # NoAnswer THEN answer[c]
    ELSE IF via[c] # "none" THEN Decoded(call[c].op, Len(InFlight(c)), InFlight(c))
    ELSE IF complete[c] THEN Decoded(call[c].op, resp[c].size, resp[c].buf)
    ELSE NoAnswer

(* All that the answer of client d depends on, if it has a server thread of its own. *)
Untouched(d) ==
    /\ answer'[d] = answer[d] /\ via'[d] = via[d] /\ call'[d] = call[d] /\ complete'[d] = complete[d]
    /\ pre'[d] = pre[d] /\ respBuf'[d] = respBuf[d] /\ resp'[d] = resp[d]

(* A client that nothing happens to keeps its answer. *)
LEMMA SameAnswer ==
    ASSUME ~cfg.shared, cfg' = cfg, NEW d \in Clients, Untouched(d)
    PROVE  AnswerFor(d)' = AnswerFor(d)
<1>1. Thread(d) = d /\ Thread(d)' = d
  BY DEF Thread
<1>2. InFlight(d)' = InFlight(d)
  BY <1>1 DEF InFlight, Untouched
<1> QED BY <1>2, Zenon DEF AnswerFor, Untouched

(* A step of one client changes the answer of that client. *)
LEMMA AnswersAre ==
    ASSUME ~cfg.shared, cfg' = cfg, NEW c \in Clients, \A d \in Clients \ {c} : Untouched(d)
    PROVE  /\ AnswerOf' = [AnswerOf EXCEPT ![c] = AnswerFor(c)']
           /\ AnswerOf[c] = AnswerFor(c) /\ AnswerOf'[c] = AnswerFor(c)'
           /\ \A d \in Clients \ {c} : AnswerOf'[d] = AnswerOf[d]
           /\ AnswerFor(c)' = AnswerFor(c) => AnswerOf' = AnswerOf
<1>1. AnswerOf = [d \in Clients |-> AnswerFor(d)]
  BY Zenon DEF AnswerOf, AnswerFor
<1>2. AnswerOf' = [d \in Clients |-> AnswerFor(d)']
  BY Zenon DEF AnswerOf, AnswerFor
<1>3. \A d \in Clients \ {c} : AnswerFor(d)' = AnswerFor(d)
  BY SameAnswer
<1>4. PICK old, new, a, b : old = AnswerOf /\ new = AnswerOf' /\ a = AnswerFor(c) /\ b = AnswerFor(c)'
  OBVIOUS
<1>5. /\ \A d \in Clients \ {c} : new[d] = old[d]
      /\ new = [d \in Clients |-> new[d]] /\ old = [d \in Clients |-> old[d]]
      /\ old[c] = a /\ new[c] = b
  BY <1>1, <1>2, <1>3, <1>4
<1>6. new = [old EXCEPT ![c] = b] /\ (a = b => new = old)
  BY <1>5
<1> QED BY <1>4, <1>5, <1>6

(* A handler responds with b. *)
Enqueued(c, b) == FromRespBuf(c, b) \/ \E s : b = <<s>> /\ FromPre(c, s)

(* What a handler enqueues is the answer of the call. *)
LEMMA HandlerAnswers ==
    ASSUME TableInv, ~cfg.shared, NEW c \in Clients, NEW op, Arrived(c, op),
           UNCHANGED <<cfg, call, answer, resp, complete>>, NEW b, Enqueued(c, b)
    PROVE  /\ AnswerOf[c] = NoAnswer
           /\ AnswerOf' = [AnswerOf EXCEPT ![c] = Decoded(op, Len(b), b)]
<1>1. /\ call[c].op = op /\ ~complete[c] /\ answer[c] = NoAnswer /\ via[c] = "none"
      /\ Thread(c) \in DOMAIN respBuf
  BY ArrivedIs DEF TableInv
<1>2. /\ via = [d \in Clients |-> via[d]] /\ pre = [d \in Clients |-> pre[d]]
      /\ DOMAIN respBuf = {Thread(d) : d \in Clients} /\ respBuf = [d \in DOMAIN respBuf |-> respBuf[d]]
  BY DEF TableInv, RpcInv, Places, RespBufs
<1>3. \A d \in Clients : Thread(d) = d /\ Thread(d)' = d /\ d \in DOMAIN respBuf
  BY <1>2 DEF Thread
<1>4. /\ via'[c] # "none" /\ \A d \in Clients \ {c} : via'[d] = via[d]
      /\ InFlight(c)' = b
      /\ \A d \in Clients \ {c} : pre'[d] = pre[d] /\ respBuf'[d] = respBuf[d]
  <2>1. CASE FromRespBuf(c, b)
    <3>1. /\ respBuf' = [respBuf EXCEPT ![c] = b] /\ via' = [via EXCEPT ![c] = "resp_buf"] /\ pre' = pre
      BY <1>3, <2>1 DEF FromRespBuf
    <3>2. respBuf'[c] = b /\ via'[c] = "resp_buf"
      BY <1>2, <1>3, <3>1
    <3>3. InFlight(c)' = b
      BY <1>3, <3>2 DEF InFlight
    <3> QED BY <1>2, <1>3, <3>1, <3>2, <3>3
  <2>2. CASE \E s : b = <<s>> /\ FromPre(c, s)
    <3>1. /\ pre' = [pre EXCEPT ![c] = b] /\ via' = [via EXCEPT ![c] = "pre"] /\ respBuf' = respBuf
      BY <2>2 DEF FromPre
    <3>2. pre'[c] = b /\ via'[c] = "pre"
      BY <1>2, <3>1
    <3>3. InFlight(c)' = b
      BY <3>2 DEF InFlight
    <3> QED BY <1>2, <1>3, <3>1, <3>2, <3>3
  <2> QED BY <2>1, <2>2 DEF Enqueued
<1>5. \A d \in Clients \ {c} : Untouched(d)
  BY <1>4 DEF Untouched
<1>6. AnswerFor(c) = NoAnswer
  BY <1>1 DEF AnswerFor
<1>7. AnswerFor(c)' = Decoded(op, Len(b), b)
  <2>1. answer'[c] = NoAnswer /\ call'[c].op = op /\ via'[c] # "none"
    BY <1>1, <1>4
  <2>2. AnswerFor(c)' = Decoded(call'[c].op, Len(InFlight(c)'), InFlight(c)')
    BY <2>1, Zenon DEF AnswerFor, Decoded, Rows, NoAnswer
  <2> QED BY <1>4, <2>1, <2>2
<1> QED BY <1>5, <1>6, <1>7, AnswersAre

-----------------------------------------------------------------------------
(* 9. Each step is one of the contract. *)

Contract ==
    \/ UNCHANGED <<store, call, AnswerOf>>
    \/ IF cfg.binding = "sqlite" THEN UpdateOnly!Next ELSE Upsert!Next
    \/ cfg.faulty /\ \E c \in Clients : Upsert!Fail(c)
    \/ \E c \in Clients : GoneWrong(c)

(* The status, where there is nothing behind it. *)
LEMMA DecodedFailure ==
    ASSUME NEW op, NEW b, Len(b) \in Nat, Len(b) >= 1, NEW s \in {kError, kNotFound}, b[1] = s
    PROVE  Decoded(op, Len(b), b) =
             [status |-> IF s = kError THEN "error" ELSE "notfound", rows |-> <<>>]
<1>1. ~(Len(b) < 1) /\ s # kOK /\ StatusName[s] = IF s = kError THEN "error" ELSE "notfound"
  BY DEF kError, kNotFound, kOK, StatusName
<1>2. Decoded(op, Len(b), b) = [status |-> StatusName[s], rows |-> <<>>]
  BY <1>1 DEF Decoded
<1> QED BY <1>1, <1>2

(* The answer of a write that was done. *)
LEMMA DecodedWrite ==
    ASSUME NEW op \in {"insert", "update", "delete"}
    PROVE  Decoded(op, Len(<<kOK>>), <<kOK>>) = [status |-> "ok", rows |-> <<>>]
<1>1. StatusName[kOK] = "ok" /\ <<kOK>>[1] = kOK
  BY DEF kOK, kError, kNotFound, StatusName
<1>2. Rows(op, <<kOK>>) = <<>>
  BY DEF Rows
<1>3. op \notin {"read", "scan"}
  OBVIOUS
<1> QED BY <1>1, <1>2, <1>3, Zenon DEF Decoded

(* The answer of a read that found a row. *)
LEMMA DecodedRead ==
    ASSUME NEW v \in Nat, NEW b, b = <<kOK>> \o SerializeRow(Built(v))
    PROVE  Decoded("read", Len(b), b) = [status |-> "ok", rows |-> <<AsRow(Built(v))>>]
<1>1. PICK r \in Seq(Int), R \in Nat : r = SerializeRow(Built(v)) /\ R = RowSize /\ Len(r) = R
  BY RowIs, RowSizeNat DEF RowBytes
<1>2. b \in Seq(Int) /\ Len(b) = 1 + R /\ b[1] = kOK /\ \A i \in 1 .. R : b[i + 1] = r[i]
  <2>1. kOK \in Int
    BY DEF kOK
  <2> HIDE DEF kOK
  <2>2. /\ <<kOK>> \o r \in Seq(Int) /\ Len(<<kOK>> \o r) = 1 + Len(r)
        /\ (<<kOK>> \o r)[1] = kOK /\ \A i \in 1 .. Len(r) : (<<kOK>> \o r)[i + 1] = r[i]
    BY <2>1, Prepend
  <2>3. b = <<kOK>> \o r /\ Len(r) = R
    BY <1>1
  <2> QED BY <2>2, <2>3, Zenon
<1>3. PICK p \in Nat : p = 1 /\ p + RowSize = Len(b) /\ \A i \in 1 .. RowSize : p + i = i + 1
  BY <1>1, <1>2
<1>4. DeserializeRow(b, p, p + RowSize) = Built(v)
  <2>1. p + RowSize <= Len(b)
    BY <1>1, <1>2, <1>3
  <2>2. \A i \in 1 .. RowSize : b[p + i] = SerializeRow(Built(v))[i]
    BY <1>1, <1>2, <1>3
  <2> QED BY <1>2, <2>1, <2>2, RowDecodes
<1>5. DeserializeRow(b, 1, Len(b)) = Built(v)
  BY <1>3, <1>4
<1>6. Rows("read", b) = <<AsRow(Built(v))>>
  BY <1>5 DEF Rows
<1>7. StatusName[kOK] = "ok" /\ ~(Len(b) < 1)
  BY <1>1, <1>2 DEF kOK, kError, kNotFound, StatusName
<1> QED BY <1>2, <1>6, <1>7, Zenon DEF Decoded

(* The answer of a scan. *)
LEMMA DecodedScan ==
    ASSUME NEW n \in Nat, NEW vs \in [1 .. n -> Nat], NEW b, b = ScanResponse(n, vs)
    PROVE  Decoded("scan", Len(b), b) =
             [status |-> "ok", rows |-> [i \in 1 .. n |-> AsRow(Built(vs[i]))]]
<1>3. /\ b \in Seq(Int) /\ Len(b) = 1 + n * (1 + RowSize) /\ b[1] = kOK
      /\ DeserializeRowVector(b, 1, Len(b)) = [i \in 1 .. n |-> Built(vs[i])]
  BY RowsDecode
<1>4. PICK ds : ds = DeserializeRowVector(b, 1, Len(b))
  OBVIOUS
<1>5. DOMAIN ds = 1 .. n /\ \A i \in 1 .. n : ds[i] = Built(vs[i])
  BY <1>3, <1>4
<1>6. [i \in DOMAIN ds |-> AsRow(ds[i])] = [i \in 1 .. n |-> AsRow(Built(vs[i]))]
  BY <1>5
<1>7. Rows("scan", b) = [i \in 1 .. n |-> AsRow(Built(vs[i]))]
  <2>1. Rows("scan", b) = LET rs == DeserializeRowVector(b, 1, Len(b))
                          IN  [i \in DOMAIN rs |-> AsRow(rs[i])]
    BY DEF Rows
  <2> QED BY <1>4, <1>6, <2>1, Zenon
<1>8. StatusName[kOK] = "ok" /\ ~(Len(b) < 1)
  <2>1. n * (1 + RowSize) \in Nat
    BY NatTimes, RowSizeNat
  <2>2. PICK m \in Nat : m = n * (1 + RowSize) /\ Len(b) = 1 + m
    BY <1>3, <2>1
  <2>3. StatusName[kOK] = "ok"
    BY DEF kOK, kError, kNotFound, StatusName
  <2> QED BY <2>2, <2>3
<1> QED BY <1>3, <1>7, <1>8, Zenon DEF Decoded

(* The database fails. *)
LEMMA FailStep ==
    ASSUME TableInv, ~cfg.shared, cfg.faulty, NEW c \in Clients, NEW op, Arrived(c, op),
           UNCHANGED <<cfg, store, call, answer, resp, complete>>,
           NEW b, Enqueued(c, b), Len(b) \in Nat, Len(b) >= 1, b[1] = kError
    PROVE  Contract
<1>1. /\ AnswerOf[c] = NoAnswer
      /\ AnswerOf' = [AnswerOf EXCEPT ![c] = Decoded(op, Len(b), b)]
  BY HandlerAnswers
<1>2. Decoded(op, Len(b), b) = [status |-> "error", rows |-> <<>>]
  BY DecodedFailure
<1>3. call[c] # NoCall
  BY ArrivedIs DEF TableInv
<1>4. TableOf' = TableOf
  BY DEF TableOf
<1>5. NoCall = Upsert!NoCall /\ NoAnswer = Upsert!NoAnswer
  BY AsRowOfNone DEF NoCall, NoAnswer, Upsert!NoCall, Upsert!NoAnswer, EmptyRow, Upsert!NoRow
<1>6. Upsert!Fail(c)
  BY <1>1, <1>2, <1>3, <1>4, <1>5 DEF Upsert!Fail, Upsert!Answer
<1> QED BY <1>6 DEF Contract

(* The instances agree on what there is, and on what a call or an answer is. *)
LEMMA ContractTerms ==
    ASSUME TableInv
    PROVE  /\ Upsert!Present = {k \in Keys : store[k] # NoBytes} /\ UpdateOnly!Present = Upsert!Present
           /\ Upsert!NoRow = EmptyRow /\ UpdateOnly!NoRow = EmptyRow
           /\ Upsert!NoCall = NoCall /\ UpdateOnly!NoCall = NoCall
           /\ Upsert!NoAnswer = NoAnswer /\ UpdateOnly!NoAnswer = NoAnswer
<1>1. Upsert!NoRow = EmptyRow /\ UpdateOnly!NoRow = EmptyRow
  BY DEF Upsert!NoRow, UpdateOnly!NoRow, EmptyRow
<1>2. \A k \in Keys : TableOf[k] = EmptyRow <=> store[k] = NoBytes
  BY TableIs
<1>3. Upsert!Present = {k \in Keys : store[k] # NoBytes}
  BY <1>1, <1>2 DEF Upsert!Present
<1>4. UpdateOnly!Present = {k \in Keys : store[k] # NoBytes}
  BY <1>1, <1>2 DEF UpdateOnly!Present
<1>5. Upsert!NoCall = NoCall /\ UpdateOnly!NoCall = NoCall
  BY <1>1, AsRowOfNone DEF NoCall, Upsert!NoCall, UpdateOnly!NoCall
<1> QED BY <1>1, <1>3, <1>4, <1>5 DEF NoAnswer, Upsert!NoAnswer, UpdateOnly!NoAnswer

(* All fields of a row. *)
LEMMA ProjectAll ==
    ASSUME NEW v
    PROVE  /\ Upsert!Project(AsRow(Built(v)), FieldNames) = AsRow(Built(v))
           /\ UpdateOnly!Project(AsRow(Built(v)), FieldNames) = AsRow(Built(v))
<1>1. PICK r : r = AsRow(Built(v)) /\ r = [f \in Named |-> Value(v)]
  BY AsRowOfBuilt
<1>2. DOMAIN r \cap FieldNames = DOMAIN r
  BY <1>1, NamedIs
<1>3. [f \in DOMAIN r |-> r[f]] = r
  BY <1>1
<1> QED BY <1>1, <1>2, <1>3 DEF Upsert!Project, UpdateOnly!Project

(* The buffer of a server thread with another status. *)
LEMMA NotResizedIs ==
    ASSUME RpcInv, NEW c \in Clients, Thread(c) \in DOMAIN respBuf, NEW s \in {kError, kNotFound}
    PROVE  Len(NotResized(c, s)) \in Nat /\ Len(NotResized(c, s)) >= 1 /\ NotResized(c, s)[1] = s
<1>1. PICK old \in Seq(Int) : old = respBuf[Thread(c)] /\ Len(old) >= 1
  BY DEF RpcInv, RespBufs
<1>2. s \in Int
  BY DEF kError, kNotFound
<1>3. 1 \in 1 .. Len(old)
  BY <1>1
<1>4. PICK new : new = NotResized(c, s) /\ new = [old EXCEPT ![1] = s]
  BY <1>1 DEF NotResized
<1>5. new \in Seq(Int) /\ Len(new) = Len(old)
  BY <1>2, <1>3, <1>4, ExceptSeq
<1>6. new[1] = s
  BY <1>3, <1>4
<1> QED BY <1>1, <1>4, <1>5, <1>6

(* Read *)
LEMMA ReadContract ==
    ASSUME TableInv, ~cfg.shared, NEW c \in Clients, ReadHandler(c)
    PROVE  Contract
<1>1. Arrived(c, "read") /\ UNCHANGED <<cfg, store, call, answer, resp, complete, up, calls>>
  BY DEF ReadHandler
<1>2. PICK k \in Keys : /\ k = call[c].key /\ k = ReqKey(c) /\ Says(c) /\ call[c].op = "read"
                        /\ Thread(c) \in DOMAIN respBuf /\ RpcInv
  BY <1>1, ArrivedIs DEF TableInv
<1>3. PICK b : /\ FromRespBuf(c, b)
               /\ \/ store[k] # NoBytes /\ b = <<kOK>> \o store[k]
                  \/ store[k] = NoBytes /\ (b = <<kNotFound>> \/ b = NotResized(c, kNotFound))
                  \/ cfg.faulty /\ (b = <<kError>> \/ b = NotResized(c, kError))
  BY <1>2, Zenon DEF ReadHandler
<1>4. TableOf' = TableOf /\ call' = call /\ Enqueued(c, b)
  BY <1>1, <1>3 DEF TableOf, Enqueued
<1>5. /\ AnswerOf[c] = NoAnswer
      /\ AnswerOf' = [AnswerOf EXCEPT ![c] = Decoded("read", Len(b), b)]
  BY <1>1, <1>4, HandlerAnswers
<1>6. \A s \in {kError, kNotFound} : b = <<s>> \/ b = NotResized(c, s) =>
        Len(b) \in Nat /\ Len(b) >= 1 /\ b[1] = s
  <2> SUFFICES ASSUME NEW s \in {kError, kNotFound}, b = <<s>> \/ b = NotResized(c, s)
               PROVE  Len(b) \in Nat /\ Len(b) >= 1 /\ b[1] = s
    OBVIOUS
  <2>1. Len(<<s>>) \in Nat /\ Len(<<s>>) >= 1 /\ <<s>>[1] = s
    OBVIOUS
  <2>2. Len(NotResized(c, s)) \in Nat /\ Len(NotResized(c, s)) >= 1 /\ NotResized(c, s)[1] = s
    BY <1>2, NotResizedIs
  <2> QED BY <2>1, <2>2
<1>7. CASE store[k] # NoBytes /\ b = <<kOK>> \o store[k]
  <2>1. PICK v \in RowNumbers : store[k] = SerializeRow(Built(v)) /\ TableOf[k] = AsRow(Built(v))
    BY <1>7, TableIs
  <2>2. Decoded("read", Len(b), b) = [status |-> "ok", rows |-> <<AsRow(Built(v))>>]
    BY <1>7, <2>1, DecodedRead, RowNumbersAre
  <2>3. call[c].fields = FieldNames /\ k \in Upsert!Present /\ k \in UpdateOnly!Present
    BY <1>2, <1>7, ContractTerms DEF Says
  <2>4. PICK r : r = TableOf[k] /\ r = AsRow(Built(v))
    BY <2>1
  <2>5. Upsert!Project(r, FieldNames) = r /\ UpdateOnly!Project(r, FieldNames) = r
    BY <2>4, ProjectAll
  <2>6. AnswerOf' = [AnswerOf EXCEPT ![c] = [status |-> "ok", rows |-> <<r>>]]
    BY <1>5, <2>2, <2>4
  <2>7. Upsert!Read(c)
    BY <1>2, <1>4, <1>5, <2>3, <2>4, <2>5, <2>6, ContractTerms
       DEF Upsert!Read, Upsert!Waiting, Upsert!Answer, Upsert!Ok
  <2>8. UpdateOnly!Read(c)
    BY <1>2, <1>4, <1>5, <2>3, <2>4, <2>5, <2>6, ContractTerms
       DEF UpdateOnly!Read, UpdateOnly!Waiting, UpdateOnly!Answer, UpdateOnly!Ok
  <2>9. Upsert!Next /\ UpdateOnly!Next
    BY <2>7, <2>8, Zenon DEF Upsert!Next, UpdateOnly!Next
  <2> QED BY <2>9 DEF Contract
<1>8. CASE store[k] = NoBytes /\ (b = <<kNotFound>> \/ b = NotResized(c, kNotFound))
  <2>1. Len(b) \in Nat /\ Len(b) >= 1 /\ b[1] = kNotFound
    BY <1>6, <1>8
  <2>2. Decoded("read", Len(b), b) = [status |-> "notfound", rows |-> <<>>]
    BY <2>1, DecodedFailure DEF kError, kNotFound
  <2>3. k \notin Upsert!Present /\ k \notin UpdateOnly!Present
    BY <1>8, ContractTerms
  <2>4. Upsert!Read(c)
    BY <1>2, <1>4, <1>5, <2>2, <2>3, ContractTerms
       DEF Upsert!Read, Upsert!Waiting, Upsert!Answer, Upsert!Failed
  <2>5. UpdateOnly!Read(c)
    BY <1>2, <1>4, <1>5, <2>2, <2>3, ContractTerms
       DEF UpdateOnly!Read, UpdateOnly!Waiting, UpdateOnly!Answer, UpdateOnly!Failed
  <2>6. Upsert!Next /\ UpdateOnly!Next
    BY <2>4, <2>5, Zenon DEF Upsert!Next, UpdateOnly!Next
  <2> QED BY <2>6 DEF Contract
<1>9. CASE cfg.faulty /\ (b = <<kError>> \/ b = NotResized(c, kError))
  <2>1. Len(b) \in Nat /\ Len(b) >= 1 /\ b[1] = kError
    BY <1>6, <1>9
  <2> QED BY <1>1, <1>4, <1>9, <2>1, FailStep
<1> QED BY <1>3, <1>7, <1>8, <1>9

(* The instance's copies of the library's operators are the library's. *)
LEMMA SameOperators ==
    ASSUME NEW S
    PROVE  Upsert!Cardinality(S) = Cardinality(S) /\ Upsert!Min(S) = Min(S)
<1>1. Upsert!Cardinality(S) = Cardinality(S)
  BY Zenon DEF Cardinality, Upsert!Cardinality
<1>2. Upsert!Min(S) = Min(S)
  BY Zenon DEF Min, Upsert!Min
<1> QED BY <1>1, <1>2

(* What a scan finds: as it is stored, and as the contract's table has it. *)
LEMMA ScanFinds ==
    ASSUME TableInv, NEW k \in Keys
    PROVE  \E n \in Nat : \E vs \in [1 .. n -> RowNumbers] :
             /\ Scanned(k, ScanLen) = [i \in 1 .. n |-> SerializeRow(Built(vs[i]))]
             /\ Upsert!RangeFrom(k, ScanLen) = [i \in 1 .. n |-> AsRow(Built(vs[i]))]
<1>1. PICK S : S = From(k)
  OBVIOUS
<1>2. /\ S \in SUBSET Nat /\ IsFiniteSet(S) /\ S \subseteq Keys
      /\ \A j \in S : store[j] # NoBytes
  <2>1. S \in SUBSET Keys /\ \A j \in S : store[j] # NoBytes
    BY <1>1 DEF From
  <2>2. Keys \subseteq Nat /\ IsFiniteSet(Keys)
    <3>1. 1 \in Int /\ K \in Int
      BY Constants
    <3>2. IsFiniteSet(1 .. K)
      BY <3>1, FS_Interval, Zenon
    <3> QED BY <3>1, <3>2 DEF Keys
  <2>3. IsFiniteSet(S)
    BY <2>1, <2>2, FS_Subset
  <2> QED BY <2>1, <2>2, <2>3
<1>3. Cardinality(S) \in Nat
  BY <1>2, FS_CardinalityType
<1>4. PICK n \in Nat : n = Min({ScanLen, Cardinality(S)}) /\ n <= Cardinality(S)
  BY <1>3, Constants, MinOfTwo
<1> DEFINE Is(i, v) == /\ store[Nth(S, i)] = SerializeRow(Built(v))
                       /\ TableOf[Nth(S, i)] = AsRow(Built(v))
           vs == [i \in 1 .. n |-> CHOOSE v \in RowNumbers : Is(i, v)]
<1>5. ASSUME NEW i \in 1 .. n PROVE \E v \in RowNumbers : Is(i, v)
  <2>1. i \in 1 .. Cardinality(S)
    BY <1>3, <1>4
  <2>2. PICK j : j = Nth(S, i) /\ j \in S
    BY <1>2, <2>1, NthIsIn
  <2>3. PICK v \in RowNumbers : store[j] = SerializeRow(Built(v)) /\ TableOf[j] = AsRow(Built(v))
    BY <1>2, <2>2, TableIs
  <2> QED BY <2>2, <2>3
<1> HIDE DEF Is
<1>6. \A i \in 1 .. n : vs[i] \in RowNumbers /\ Is(i, vs[i])
  BY <1>5
<1>7. vs \in [1 .. n -> RowNumbers]
  BY <1>6
<1> HIDE DEF vs
<1>8. Scanned(k, ScanLen) = [i \in 1 .. n |-> SerializeRow(Built(vs[i]))]
  BY <1>1, <1>4, <1>6 DEF Scanned, Is
<1>9. {j \in Upsert!Present : j >= k} = S
  BY <1>1, ContractTerms DEF From
<1>10. \A i : Upsert!Nth(S, i) = Nth(S, i)
  BY SameOperators, Zenon DEF Nth, Upsert!Nth
<1>11. Upsert!RangeFrom(k, ScanLen) = [i \in 1 .. n |-> TableOf[Nth(S, i)]]
  BY <1>4, <1>9, <1>10, SameOperators, Zenon DEF Upsert!RangeFrom
<1>12. Upsert!RangeFrom(k, ScanLen) = [i \in 1 .. n |-> AsRow(Built(vs[i]))]
  BY <1>6, <1>11 DEF Is
<1> QED BY <1>7, <1>8, <1>12

(* Scan *)
LEMMA ScanContract ==
    ASSUME TableInv, ~cfg.shared, NEW c \in Clients, ScanHandler(c)
    PROVE  Contract
<1>1. Arrived(c, "scan") /\ UNCHANGED <<cfg, store, call, answer, resp, complete, up, calls>>
  BY DEF ScanHandler
<1>2. PICK k \in Keys : /\ k = call[c].key /\ k = ReqKey(c) /\ Says(c) /\ call[c].op = "scan"
                        /\ Asks(call[c], req[c])
  BY <1>1, ArrivedIs DEF TableInv
<1>3. At(req[c], 2) = ScanLen /\ call[c].len = ScanLen /\ call[c].fields = FieldNames
  BY <1>2, RequestParts DEF Says
<1>n. PICK n \in Nat : \E vs \in [1 .. n -> RowNumbers] :
        /\ Scanned(k, ScanLen) = [i \in 1 .. n |-> SerializeRow(Built(vs[i]))]
        /\ Upsert!RangeFrom(k, ScanLen) = [i \in 1 .. n |-> AsRow(Built(vs[i]))]
  BY ScanFinds
<1>4. PICK vs \in [1 .. n -> RowNumbers] :
        /\ Scanned(k, ScanLen) = [i \in 1 .. n |-> SerializeRow(Built(vs[i]))]
        /\ Upsert!RangeFrom(k, ScanLen) = [i \in 1 .. n |-> AsRow(Built(vs[i]))]
  BY <1>n
<1>5. PICK b : b = ScanResponse(n, vs) /\ FromRespBuf(c, b)
  <2>1. FromRespBuf(c, <<kOK>> \o SerializeRowVector(Scanned(k, ScanLen)))
    BY <1>2, <1>3 DEF ScanHandler
  <2>2. ScanResponse(n, vs) = <<kOK>> \o SerializeRowVector(Scanned(k, ScanLen))
    BY <1>4, Zenon DEF ScanResponse
  <2> QED BY <2>1, <2>2
<1>6. TableOf' = TableOf /\ call' = call /\ Enqueued(c, b)
  BY <1>1, <1>5 DEF TableOf, Enqueued
<1>7. /\ AnswerOf[c] = NoAnswer
      /\ AnswerOf' = [AnswerOf EXCEPT ![c] = Decoded("scan", Len(b), b)]
  BY <1>1, <1>6, HandlerAnswers
<1>8. PICK found : found = [i \in 1 .. n |-> AsRow(Built(vs[i]))]
  OBVIOUS
<1>9. Decoded("scan", Len(b), b) = [status |-> "ok", rows |-> found]
  <2>1. vs \in [1 .. n -> Nat]
    BY RowNumbersAre
  <2> QED BY <1>5, <1>8, <2>1, DecodedScan
<1>10. [i \in DOMAIN found |-> Upsert!Project(found[i], FieldNames)] = found
  BY <1>8, ProjectAll
<1>11. Upsert!RangeFrom(call[c].key, call[c].len) = found
  BY <1>2, <1>3, <1>4, <1>8
<1>12. AnswerOf' = [AnswerOf EXCEPT ![c] = Upsert!Ok(found)]
  BY <1>7, <1>9 DEF Upsert!Ok
<1>13. Upsert!Scan(c)
  <2>1. Upsert!Waiting(c, "scan")
    BY <1>2, <1>7, ContractTerms DEF Upsert!Waiting
  <2>2. [i \in DOMAIN found |-> Upsert!Project(found[i], call[c].fields)] = found
    BY <1>3, <1>10
  <2>3. \A A : Upsert!Ok(found) \in A => Upsert!Answer(c, A)
    BY <1>12 DEF Upsert!Answer
  <2> QED BY <1>6, <1>11, <2>1, <2>2, <2>3 DEF Upsert!Scan
<1>14. Upsert!Next
  BY <1>13, Zenon DEF Upsert!Next
<1>15. cfg.binding # "sqlite"
  BY <1>1 DEF Arrived, Registered
<1> QED BY <1>14, <1>15 DEF Contract

(* The table after a write to the store. *)
LEMMA TableSet ==
    ASSUME TableInv, NEW k \in Keys, NEW x, store' = [store EXCEPT ![k] = x]
    PROVE  TableOf' = [TableOf EXCEPT ![k] = RowOf(x)]
<1>1. store = [j \in Keys |-> store[j]]
  BY DEF TableInv, RpcInv
<1>2. TableOf = [j \in Keys |-> RowOf(store[j])] /\ TableOf' = [j \in Keys |-> RowOf(store'[j])]
  BY DEF TableOf, RowOf, Keys
<1>3. store'[k] = x /\ \A j \in Keys \ {k} : store'[j] = store[j]
  BY <1>1
<1>4. PICK T, U : T = TableOf /\ U = TableOf'
  OBVIOUS
<1>5. U[k] = RowOf(x) /\ \A j \in Keys \ {k} : U[j] = T[j]
  BY <1>2, <1>3, <1>4
<1>6. U = [j \in Keys |-> U[j]] /\ T = [j \in Keys |-> T[j]]
  BY <1>2, <1>4
<1>7. U = [T EXCEPT ![k] = RowOf(x)]
  BY <1>5, <1>6
<1> QED BY <1>4, <1>7

(* A row overwrites one with the same fields. *)
LEMMA OverlayAll ==
    ASSUME NEW u, NEW v
    PROVE  /\ Upsert!Overlay(AsRow(Built(u)), AsRow(Built(v))) = AsRow(Built(v))
           /\ UpdateOnly!Overlay(AsRow(Built(u)), AsRow(Built(v))) = AsRow(Built(v))
<1>1. PICK a, b : /\ a = AsRow(Built(u)) /\ b = AsRow(Built(v)) /\ b = [f \in Named |-> Value(v)]
                  /\ a = [f \in Named |-> Value(u)]
  BY AsRowOfBuilt
<1>2. DOMAIN a \cup DOMAIN b = Named /\ DOMAIN b = Named /\ b = [f \in Named |-> b[f]]
  BY <1>1
<1>3. [f \in DOMAIN a \cup DOMAIN b |-> IF f \in DOMAIN b THEN b[f] ELSE a[f]] = b
  BY <1>2
<1> QED BY <1>1, <1>3 DEF Upsert!Overlay, UpdateOnly!Overlay

(* What is known of a write that a handler is to do. *)
LEMMA WriteIs ==
    ASSUME TableInv, NEW c \in Clients, NEW op \in {"insert", "update"}, Arrived(c, op)
    PROVE  /\ ReqKey(c) \in Keys /\ call[c].key = ReqKey(c) /\ call[c].op = op
           /\ RowOf(ReqValue(c)) = call[c].vals
           /\ \A k \in Keys : store[k] # NoBytes =>
                 /\ Upsert!Overlay(TableOf[k], call[c].vals) = call[c].vals
                 /\ UpdateOnly!Overlay(TableOf[k], call[c].vals) = call[c].vals
<1>1. ReqKey(c) \in Keys /\ call[c].key = ReqKey(c) /\ call[c].op = op
  BY ArrivedIs DEF TableInv
<1>2. PICK v \in RowNumbers : ReqValue(c) = SerializeRow(Built(v)) /\ call[c].vals = AsRow(Built(v))
  BY WrittenRow
<1>3. RowOf(ReqValue(c)) = call[c].vals
  BY <1>2, RowOfRow, RowNumbersAre
<1>4. ASSUME NEW k \in Keys, store[k] # NoBytes
      PROVE  /\ Upsert!Overlay(TableOf[k], call[c].vals) = call[c].vals
             /\ UpdateOnly!Overlay(TableOf[k], call[c].vals) = call[c].vals
  <2>1. PICK u \in RowNumbers : TableOf[k] = AsRow(Built(u))
    BY <1>4, TableIs
  <2> QED BY <1>2, <2>1, OverlayAll
<1> QED BY <1>1, <1>3, <1>4

(* The answer of a write: done, or refused. *)
LEMMA WriteAnswers ==
    ASSUME TableInv, ~cfg.shared, NEW c \in Clients, NEW op \in {"insert", "update", "delete"},
           Arrived(c, op), UNCHANGED <<cfg, call, answer, resp, complete>>
    PROVE  /\ AnswerOf[c] = NoAnswer
           /\ FromPre(c, kOK) => AnswerOf' = [AnswerOf EXCEPT ![c] = [status |-> "ok", rows |-> <<>>]]
           /\ FromPre(c, kError) =>
                AnswerOf' = [AnswerOf EXCEPT ![c] = [status |-> "error", rows |-> <<>>]]
<1>1. AnswerOf[c] = NoAnswer
  <2>1. AnswerFor(c) = NoAnswer
    BY ArrivedIs DEF TableInv, AnswerFor
  <2> QED BY <2>1 DEF AnswerOf, AnswerFor
<1>2. ASSUME FromPre(c, kOK)
      PROVE  AnswerOf' = [AnswerOf EXCEPT ![c] = [status |-> "ok", rows |-> <<>>]]
  <2>1. PICK b : b = <<kOK>> /\ Enqueued(c, b)
    BY <1>2 DEF Enqueued
  <2>2. AnswerOf' = [AnswerOf EXCEPT ![c] = Decoded(op, Len(b), b)]
    BY <2>1, HandlerAnswers
  <2>3. Decoded(op, Len(b), b) = [status |-> "ok", rows |-> <<>>]
    BY <2>1, DecodedWrite
  <2> QED BY <2>2, <2>3
<1>3. ASSUME FromPre(c, kError)
      PROVE  AnswerOf' = [AnswerOf EXCEPT ![c] = [status |-> "error", rows |-> <<>>]]
  <2>1. PICK b : b = <<kError>> /\ Enqueued(c, b)
    BY <1>3 DEF Enqueued
  <2>2. AnswerOf' = [AnswerOf EXCEPT ![c] = Decoded(op, Len(b), b)]
    BY <2>1, HandlerAnswers
  <2>3. Len(b) \in Nat /\ Len(b) >= 1 /\ b[1] = kError
    BY <2>1
  <2>4. Decoded(op, Len(b), b) = [status |-> "error", rows |-> <<>>]
    BY <2>3, DecodedFailure
  <2> QED BY <2>2, <2>4
<1> QED BY <1>1, <1>2, <1>3

(* A write fails in the database. *)
LEMMA WriteFails ==
    ASSUME TableInv, ~cfg.shared, cfg.faulty, NEW c \in Clients, NEW op, Arrived(c, op),
           UNCHANGED <<cfg, store, call, answer, resp, complete>>, FromPre(c, kError)
    PROVE  Contract
<1>1. PICK b : b = <<kError>> /\ Enqueued(c, b)
  BY DEF Enqueued
<1>2. Len(b) \in Nat /\ Len(b) >= 1 /\ b[1] = kError
  BY <1>1
<1> QED BY <1>1, <1>2, FailStep

(* Put, for Insert and Update alike, of rocksdb-clisvr. *)
LEMMA PutContract ==
    ASSUME TableInv, ~cfg.shared, NEW c \in Clients, PutHandler(c)
    PROVE  Contract
<1>1. PICK op \in {"insert", "update"} : Arrived(c, op)
  BY DEF PutHandler
<1>2. UNCHANGED <<cfg, call, answer, resp, complete>> /\ cfg.binding # "sqlite"
  BY DEF PutHandler
<1>3. CASE store' = [store EXCEPT ![ReqKey(c)] = ReqValue(c)] /\ FromPre(c, kOK)
  <2>1. PICK k \in Keys : k = ReqKey(c) /\ k = call[c].key /\ call[c].op = op
    BY <1>1, WriteIs
  <2>2. TableOf' = [TableOf EXCEPT ![k] = call[c].vals]
    <3>1. TableOf' = [TableOf EXCEPT ![k] = RowOf(ReqValue(c))]
      BY <1>3, <2>1, TableSet
    <3> QED BY <1>1, <3>1, WriteIs
  <2>3. AnswerOf[c] = NoAnswer /\ AnswerOf' = [AnswerOf EXCEPT ![c] = [status |-> "ok", rows |-> <<>>]]
    BY <1>1, <1>2, <1>3, WriteAnswers
  <2>4. Upsert!Waiting(c, op) /\ Upsert!Answer(c, {Upsert!Ok(<<>>)})
    BY <2>1, <2>3, ContractTerms DEF Upsert!Waiting, Upsert!Answer, Upsert!Ok
  <2>5. CASE op = "insert"
    <3>1. Upsert!Insert(c)
      BY <1>2, <2>1, <2>2, <2>4, <2>5 DEF Upsert!Insert
    <3>2. Upsert!Next
      BY <3>1, Zenon DEF Upsert!Next
    <3> QED BY <1>2, <3>2 DEF Contract
  <2>6. CASE op = "update"
    <3>1. k \in Upsert!Present => Upsert!Overlay(TableOf[k], call[c].vals) = call[c].vals
      BY <1>1, ContractTerms, WriteIs
    <3>2. k \in Upsert!Present =>
            TableOf' = [TableOf EXCEPT ![k] = Upsert!Overlay(TableOf[k], call[c].vals)]
      BY <2>2, <3>1
    <3>3. Upsert!Update(c)
      BY <1>2, <2>1, <2>2, <2>4, <2>6, <3>2 DEF Upsert!Update
    <3>4. Upsert!Next
      BY <3>3, Zenon DEF Upsert!Next
    <3> QED BY <1>2, <3>4 DEF Contract
  <2> QED BY <2>5, <2>6
<1>4. CASE cfg.faulty /\ UNCHANGED store /\ FromPre(c, kError)
  BY <1>1, <1>2, <1>4, WriteFails
<1> QED BY <1>3, <1>4 DEF PutHandler

(* Insert of sqlite: refused if there is a record. *)
LEMMA InsertContract ==
    ASSUME TableInv, ~cfg.shared, NEW c \in Clients, InsertHandler(c)
    PROVE  Contract
<1>1. /\ Arrived(c, "insert") /\ cfg.binding = "sqlite"
      /\ UNCHANGED <<cfg, call, answer, resp, complete>>
  BY DEF InsertHandler
<1>2. PICK k \in Keys : k = ReqKey(c) /\ k = call[c].key /\ call[c].op = "insert"
  BY <1>1, WriteIs
<1>3. AnswerOf[c] = NoAnswer /\ UpdateOnly!Waiting(c, "insert")
  BY <1>1, <1>2, WriteAnswers, ContractTerms DEF UpdateOnly!Waiting
<1>4. CASE store' = [store EXCEPT ![ReqKey(c)] = ReqValue(c)] /\ FromPre(c, kOK)
  <2>1. TableOf' = [TableOf EXCEPT ![k] = call[c].vals]
    <3>1. TableOf' = [TableOf EXCEPT ![k] = RowOf(ReqValue(c))]
      BY <1>2, <1>4, TableSet
    <3> QED BY <1>1, <3>1, WriteIs
  <2>2. AnswerOf' = [AnswerOf EXCEPT ![c] = [status |-> "ok", rows |-> <<>>]]
    BY <1>1, <1>4, WriteAnswers
  <2>3. UpdateOnly!Answer(c, {UpdateOnly!Ok(<<>>)})
    BY <2>2 DEF UpdateOnly!Answer, UpdateOnly!Ok
  <2>4. UpdateOnly!Insert(c)
    BY <1>1, <1>2, <1>3, <2>1, <2>3 DEF UpdateOnly!Insert
  <2>5. UpdateOnly!Next
    BY <2>4, Zenon DEF UpdateOnly!Next
  <2> QED BY <1>1, <2>5 DEF Contract
<1>5. CASE store[ReqKey(c)] # NoBytes /\ UNCHANGED store /\ FromPre(c, kError)
  <2>1. AnswerOf' = [AnswerOf EXCEPT ![c] = [status |-> "error", rows |-> <<>>]]
    BY <1>1, <1>5, WriteAnswers
  <2>2. UpdateOnly!Answer(c, UpdateOnly!Failed)
    BY <2>1 DEF UpdateOnly!Answer, UpdateOnly!Failed
  <2>3. TableOf' = TableOf /\ call[c].key \in UpdateOnly!Present
    BY <1>2, <1>5, ContractTerms DEF TableOf
  <2>4. UpdateOnly!Insert(c)
    BY <1>1, <1>3, <2>2, <2>3 DEF UpdateOnly!Insert
  <2>5. UpdateOnly!Next
    BY <2>4, Zenon DEF UpdateOnly!Next
  <2> QED BY <1>1, <2>5 DEF Contract
<1>6. CASE cfg.faulty /\ UNCHANGED store /\ FromPre(c, kError)
  BY <1>1, <1>6, WriteFails
<1> QED BY <1>4, <1>5, <1>6 DEF InsertHandler

(* Update of sqlite: done even if there is no record. *)
LEMMA UpdateContract ==
    ASSUME TableInv, ~cfg.shared, NEW c \in Clients, UpdateHandler(c)
    PROVE  Contract
<1>1. /\ Arrived(c, "update") /\ cfg.binding = "sqlite"
      /\ UNCHANGED <<cfg, call, answer, resp, complete>>
  BY DEF UpdateHandler
<1>2. PICK k \in Keys : k = ReqKey(c) /\ k = call[c].key /\ call[c].op = "update"
  BY <1>1, WriteIs
<1>3. AnswerOf[c] = NoAnswer /\ UpdateOnly!Waiting(c, "update")
  BY <1>1, <1>2, WriteAnswers, ContractTerms DEF UpdateOnly!Waiting
<1>4. CASE /\ store' = [store EXCEPT ![ReqKey(c)] = IF @ = NoBytes THEN @ ELSE ReqValue(c)]
           /\ FromPre(c, kOK)
  <2>1. AnswerOf' = [AnswerOf EXCEPT ![c] = [status |-> "ok", rows |-> <<>>]]
    BY <1>1, <1>4, WriteAnswers
  <2>2. /\ UpdateOnly!Answer(c, {UpdateOnly!Ok(<<>>)})
        /\ UpdateOnly!Answer(c, {UpdateOnly!Ok(<<>>)} \cup UpdateOnly!Failed)
    BY <2>1 DEF UpdateOnly!Answer, UpdateOnly!Ok
  <2>3. k \in UpdateOnly!Present <=> store[k] # NoBytes
    BY ContractTerms
  <2>4. store = [j \in Keys |-> store[j]]
    BY DEF TableInv, RpcInv
  <2>5. CASE store[k] # NoBytes
    <3>1. store' = [store EXCEPT ![k] = ReqValue(c)]
      BY <1>2, <1>4, <2>4, <2>5
    <3>2. TableOf' = [TableOf EXCEPT ![k] = RowOf(ReqValue(c))]
      BY <3>1, TableSet
    <3>3. TableOf' = [TableOf EXCEPT ![k] = UpdateOnly!Overlay(TableOf[k], call[c].vals)]
      BY <1>1, <2>5, <3>2, WriteIs
    <3>4. UpdateOnly!Update(c)
      BY <1>1, <1>2, <1>3, <2>2, <2>3, <2>5, <3>3 DEF UpdateOnly!Update
    <3>5. UpdateOnly!Next
      BY <3>4, Zenon DEF UpdateOnly!Next
    <3> QED BY <1>1, <3>5 DEF Contract
  <2>6. CASE store[k] = NoBytes
    <3>1. store' = store
      BY <1>2, <1>4, <2>4, <2>6
    <3>2. TableOf' = TableOf
      BY <3>1 DEF TableOf
    <3>3. UpdateOnly!Update(c)
      BY <1>1, <1>2, <1>3, <2>2, <2>3, <2>6, <3>2 DEF UpdateOnly!Update
    <3>4. UpdateOnly!Next
      BY <3>3, Zenon DEF UpdateOnly!Next
    <3> QED BY <1>1, <3>4 DEF Contract
  <2> QED BY <2>5, <2>6
<1>5. CASE cfg.faulty /\ UNCHANGED store /\ FromPre(c, kError)
  BY <1>1, <1>5, WriteFails
<1> QED BY <1>4, <1>5 DEF UpdateHandler

(* Delete *)
LEMMA DeleteContract ==
    ASSUME TableInv, ~cfg.shared, NEW c \in Clients, DeleteHandler(c)
    PROVE  Contract
<1>1. Arrived(c, "delete") /\ UNCHANGED <<cfg, call, answer, resp, complete>>
  BY DEF DeleteHandler
<1>2. PICK k \in Keys : k = ReqKey(c) /\ k = call[c].key /\ call[c].op = "delete"
  BY <1>1, ArrivedIs DEF TableInv
<1>3. /\ AnswerOf[c] = NoAnswer /\ Upsert!Waiting(c, "delete") /\ UpdateOnly!Waiting(c, "delete")
  BY <1>1, <1>2, WriteAnswers, ContractTerms DEF Upsert!Waiting, UpdateOnly!Waiting
<1>4. CASE store' = [store EXCEPT ![ReqKey(c)] = NoBytes] /\ FromPre(c, kOK)
  <2>1. AnswerOf' = [AnswerOf EXCEPT ![c] = [status |-> "ok", rows |-> <<>>]]
    BY <1>1, <1>4, WriteAnswers
  <2>2. /\ Upsert!Answer(c, {Upsert!Ok(<<>>)})
        /\ Upsert!Answer(c, {Upsert!Ok(<<>>)} \cup Upsert!Failed)
    BY <2>1 DEF Upsert!Answer, Upsert!Ok
  <2>3. /\ UpdateOnly!Answer(c, {UpdateOnly!Ok(<<>>)})
        /\ UpdateOnly!Answer(c, {UpdateOnly!Ok(<<>>)} \cup UpdateOnly!Failed)
    BY <2>1 DEF UpdateOnly!Answer, UpdateOnly!Ok
  <2>4. TableOf' = [TableOf EXCEPT ![k] = EmptyRow]
    <3>1. TableOf' = [TableOf EXCEPT ![k] = RowOf(NoBytes)]
      BY <1>2, <1>4, TableSet
    <3> QED BY <3>1, RowOfNothing
  <2>5. store[k] = NoBytes => TableOf' = TableOf
    <3>1. store = [j \in Keys |-> store[j]]
      BY DEF TableInv, RpcInv
    <3>2. store[k] = NoBytes => store' = store
      BY <1>2, <1>4, <3>1
    <3> QED BY <3>2 DEF TableOf
  <2>6. (k \in Upsert!Present <=> store[k] # NoBytes) /\ (k \in UpdateOnly!Present <=> store[k] # NoBytes)
    BY ContractTerms
  <2>7. Upsert!Delete(c)
    BY <1>1, <1>2, <1>3, <2>2, <2>4, <2>5, <2>6, ContractTerms DEF Upsert!Delete
  <2>8. UpdateOnly!Delete(c)
    BY <1>1, <1>2, <1>3, <2>3, <2>4, <2>5, <2>6, ContractTerms DEF UpdateOnly!Delete
  <2>9. Upsert!Next /\ UpdateOnly!Next
    BY <2>7, <2>8, Zenon DEF Upsert!Next, UpdateOnly!Next
  <2> QED BY <2>9 DEF Contract
<1>5. CASE cfg.faulty /\ UNCHANGED store /\ FromPre(c, kError)
  BY <1>1, <1>5, WriteFails
<1> QED BY <1>4, <1>5 DEF DeleteHandler

(* What a client asks for is a call of the contract. *)
LEMMA CallIs ==
    ASSUME RpcInv, NEW op \in cfg.mix, NEW k \in Keys, calls + 1 \in RowNumbers
    PROVE  CallOf(op, k) \in Upsert!Calls /\ CallOf(op, k) \in UpdateOnly!Calls
<1>1. op \in {"read", "scan", "insert", "update", "delete"}
  BY Constants DEF RpcInv
<1>2. PICK r : r = AsRow(Sent(op))
  OBVIOUS
<1>3. \E S \in SUBSET FieldNames : r \in [S -> Values]
  <2>1. CASE op \in {"insert", "update"}
    <3>1. PICK v \in RowNumbers : Sent(op) = Built(v)
      BY <2>1 DEF Sent
    <3>2. r = [f \in Named |-> Value(v)] /\ Value(v) \in Values
      BY <1>2, <3>1, AsRowOfBuilt DEF Values, RowNumbers
    <3> QED BY <3>2, NamedIs
  <2>2. CASE op \notin {"insert", "update"}
    <3>1. r = EmptyRow
      BY <1>2, <2>2, AsRowOfNone DEF Sent
    <3>2. r \in [{} -> Values] /\ {} \in SUBSET FieldNames
      BY <3>1 DEF EmptyRow
    <3> QED BY <3>2
  <2> QED BY <2>1, <2>2
<1>4. r \in Upsert!Rows /\ r \in UpdateOnly!Rows
  BY <1>3 DEF Upsert!Rows, UpdateOnly!Rows
<1>5. PICK l \in Nat : l = IF op = "scan" THEN ScanLen ELSE 0
  BY Constants
<1>6. CallOf(op, k) = [op |-> op, key |-> k, vals |-> r, fields |-> FieldNames, len |-> l]
  BY <1>2, <1>5 DEF CallOf
<1> QED BY <1>1, <1>4, <1>6 DEF Upsert!Calls, UpdateOnly!Calls

(* Invoke *)
LEMMA InvokeContract ==
    ASSUME TableInv, ~cfg.shared, NEW c \in Clients, Invoke(c)
    PROVE  Contract
<1>1. /\ call[c] = NoCall /\ UNCHANGED <<cfg, store, answer, resp, complete, via, pre, respBuf, up>>
      /\ RpcInv /\ Stage(c) /\ call = [d \in Clients |-> call[d]]
  BY DEF Invoke, TableInv, RpcInv
<1>2. PICK op \in cfg.mix, k \in Keys :
        call' = [call EXCEPT ![c] = CallOf(op, k)] /\ call'[c] = CallOf(op, k)
  BY <1>1, InvokeIs
<1>3. call'[c] \in Upsert!Calls /\ call'[c] \in UpdateOnly!Calls
  BY <1>1, <1>2, CallIs, InvokeIs
<1>4. answer[c] = NoAnswer /\ via[c] = "none" /\ ~complete[c]
  BY <1>1 DEF Stage
<1>5. AnswerFor(c) = NoAnswer /\ AnswerFor(c)' = NoAnswer
  BY <1>1, <1>4 DEF AnswerFor
<1>6. \A d \in Clients \ {c} : Untouched(d)
  BY <1>1, <1>2 DEF Untouched
<1>7. AnswerOf' = AnswerOf /\ TableOf' = TableOf
  <2>1. AnswerFor(c)' = AnswerFor(c)
    BY <1>5
  <2>2. AnswerOf' = AnswerOf
    BY <1>1, <1>6, <2>1, AnswersAre
  <2> QED BY <1>1, <2>2 DEF TableOf
<1>8. call' = [call EXCEPT ![c] = call'[c]]
  BY <1>2
<1>9. Upsert!Invoke(c) /\ UpdateOnly!Invoke(c)
  BY <1>1, <1>3, <1>7, <1>8, ContractTerms DEF Upsert!Invoke, UpdateOnly!Invoke
<1>10. Upsert!Next /\ UpdateOnly!Next
  BY <1>9, Zenon DEF Upsert!Next, UpdateOnly!Next
<1> QED BY <1>10 DEF Contract

(* The response is copied: the answer is the same. *)
LEMMA DeliverContract ==
    ASSUME TableInv, ~cfg.shared, NEW c \in Clients, Deliver(c)
    PROVE  Contract
<1>1. /\ UNCHANGED <<cfg, store, call, answer, respBuf>> /\ via[c] # "none"
      /\ resp' = [resp EXCEPT ![c] = [size |-> Len(InFlight(c)), buf |-> InFlight(c)]]
      /\ via' = [via EXCEPT ![c] = "none"] /\ pre' = [pre EXCEPT ![c] = NoBytes]
      /\ complete' = [complete EXCEPT ![c] = TRUE]
  BY DEF Deliver
<1>2. /\ resp = [d \in Clients |-> resp[d]] /\ pre = [d \in Clients |-> pre[d]]
      /\ via = [d \in Clients |-> via[d]] /\ complete = [d \in Clients |-> complete[d]] /\ Stage(c)
  BY DEF TableInv, Places, RpcInv
<1>3. \A d \in Clients \ {c} : Untouched(d)
  BY <1>1, <1>2 DEF Untouched
<1>4. answer[c] = NoAnswer
  BY <1>1, <1>2 DEF Stage
<1>5. PICK b : b = InFlight(c)
  OBVIOUS
<1>6. /\ resp'[c].size = Len(b) /\ resp'[c].buf = b /\ via'[c] = "none" /\ complete'[c] = TRUE
      /\ answer'[c] = NoAnswer /\ call'[c] = call[c]
  BY <1>1, <1>2, <1>4, <1>5
<1>7. AnswerFor(c) = Decoded(call[c].op, Len(b), b)
  BY <1>1, <1>4, <1>5, Zenon DEF AnswerFor
<1>8. AnswerFor(c)' = Decoded(call[c].op, Len(b), b)
  BY <1>6 DEF AnswerFor
<1>9. AnswerFor(c)' = AnswerFor(c)
  BY <1>7, <1>8
<1>10. AnswerOf' = AnswerOf
  BY <1>1, <1>3, <1>9, AnswersAre
<1> QED BY <1>1, <1>10 DEF Contract

(* The client decodes the response: that is the answer. *)
LEMMA PollContract ==
    ASSUME TableInv, ~cfg.shared, NEW c \in Clients, PollForRpcComplete(c)
    PROVE  Contract
<1>1. /\ UNCHANGED <<cfg, store, call, via, pre, respBuf>> /\ complete[c] /\ answer[c] = NoAnswer
      /\ complete' = [complete EXCEPT ![c] = FALSE]
      /\ answer' = [answer EXCEPT ![c] = Decoded(call[c].op, resp[c].size, resp[c].buf)]
      /\ \E r : resp' = [resp EXCEPT ![c] = r]
  BY DEF PollForRpcComplete, AfterPoll
<1>2. /\ resp = [d \in Clients |-> resp[d]] /\ answer = [d \in Clients |-> answer[d]]
      /\ complete = [d \in Clients |-> complete[d]] /\ Stage(c)
  BY DEF TableInv, Places, RpcInv
<1>3. \A d \in Clients \ {c} : Untouched(d)
  BY <1>1, <1>2 DEF Untouched
<1>4. via[c] = "none"
  BY <1>1, <1>2 DEF Stage
<1>5. PICK a : a = Decoded(call[c].op, resp[c].size, resp[c].buf)
  OBVIOUS
<1>6. AnswerFor(c) = a
  BY <1>1, <1>4, <1>5, Zenon DEF AnswerFor
<1>7. AnswerFor(c)' = a
  <2>1. answer'[c] = a /\ complete'[c] = FALSE /\ via'[c] = "none"
    BY <1>1, <1>2, <1>4, <1>5
  <2> QED BY <2>1 DEF AnswerFor
<1>8. AnswerFor(c)' = AnswerFor(c)
  BY <1>6, <1>7
<1>9. AnswerOf' = AnswerOf
  BY <1>1, <1>3, <1>8, AnswersAre
<1> QED BY <1>1, <1>9 DEF Contract

(* Return *)
LEMMA ReturnContract ==
    ASSUME TableInv, ~cfg.shared, NEW c \in Clients, Return(c)
    PROVE  Contract
<1>1. /\ UNCHANGED <<cfg, store, resp, complete, via, pre, respBuf>> /\ answer[c] # NoAnswer
      /\ call' = [call EXCEPT ![c] = NoCall] /\ answer' = [answer EXCEPT ![c] = NoAnswer]
  BY DEF Return
<1>2. /\ call = [d \in Clients |-> call[d]] /\ answer = [d \in Clients |-> answer[d]] /\ Stage(c)
  BY DEF TableInv, RpcInv
<1>3. \A d \in Clients \ {c} : Untouched(d)
  BY <1>1, <1>2 DEF Untouched
<1>4. via[c] = "none" /\ ~complete[c]
  BY <1>1, <1>2 DEF Stage
<1>5. AnswerFor(c) = answer[c]
  BY <1>1 DEF AnswerFor
<1>6. AnswerFor(c)' = NoAnswer
  <2>1. answer'[c] = NoAnswer /\ via'[c] = "none" /\ ~complete'[c]
    BY <1>1, <1>2, <1>4
  <2> QED BY <2>1 DEF AnswerFor
<1>7. AnswerOf[c] # NoAnswer /\ AnswerOf' = [AnswerOf EXCEPT ![c] = NoAnswer] /\ TableOf' = TableOf
  <2>1. /\ AnswerOf' = [AnswerOf EXCEPT ![c] = AnswerFor(c)'] /\ AnswerOf[c] = AnswerFor(c)
    BY <1>1, <1>3, AnswersAre
  <2> QED BY <1>1, <1>5, <1>6, <2>1 DEF TableOf
<1>8. Upsert!Return(c) /\ UpdateOnly!Return(c)
  BY <1>1, <1>7, ContractTerms DEF Upsert!Return, UpdateOnly!Return
<1>9. Upsert!Next /\ UpdateOnly!Next
  BY <1>8, Zenon DEF Upsert!Next, UpdateOnly!Next
<1> QED BY <1>9 DEF Contract

(* The request is given up. *)
LEMMA AbandonContract ==
    ASSUME TableInv, ~cfg.shared, NEW c \in Clients, Abandon(c)
    PROVE  Contract
<1>1. /\ UNCHANGED <<cfg, store, call, answer, respBuf>> /\ Thread(c) \notin up
      /\ req[c] # NoBytes \/ via[c] # "none"
      /\ via' = [via EXCEPT ![c] = "none"] /\ pre' = [pre EXCEPT ![c] = NoBytes]
      /\ complete' = [complete EXCEPT ![c] = TRUE]
  BY DEF Abandon
<1>2. PICK s : resp' = [resp EXCEPT ![c] = [size |-> 0, buf |-> <<s>>]]
  BY DEF Abandon
<1>3. /\ resp = [d \in Clients |-> resp[d]] /\ pre = [d \in Clients |-> pre[d]]
      /\ via = [d \in Clients |-> via[d]] /\ complete = [d \in Clients |-> complete[d]] /\ Stage(c)
  BY DEF TableInv, Places, RpcInv
<1>4. \A d \in Clients \ {c} : Untouched(d)
  BY <1>1, <1>2, <1>3 DEF Untouched
<1>5. answer[c] = NoAnswer /\ call[c] # NoCall
  BY <1>1, <1>3 DEF Stage
<1>6. /\ AnswerOf'[c] = AnswerFor(c)' /\ \A d \in Clients \ {c} : AnswerOf'[d] = AnswerOf[d]
  BY <1>1, <1>4, AnswersAre
<1>7. ASSUME call[c].op \in {"read", "scan"} PROVE AnswerFor(c)' = [status |-> "error", rows |-> <<>>]
  <2>1. /\ resp'[c].size = 0 /\ via'[c] = "none" /\ complete'[c] = TRUE
        /\ answer'[c] = NoAnswer /\ call'[c] = call[c]
    BY <1>1, <1>2, <1>3, <1>5
  <2>2. AnswerFor(c)' = Decoded(call[c].op, 0, resp'[c].buf)
    BY <2>1 DEF AnswerFor
  <2>3. 0 < 1
    OBVIOUS
  <2> QED BY <1>7, <2>2, <2>3 DEF Decoded
<1>8. GoneWrong(c)
  BY <1>1, <1>5, <1>6, <1>7 DEF GoneWrong
<1> QED BY <1>8 DEF Contract

(* A server thread leaves its loop, or nothing happens. *)
LEMMA QuietContract ==
    ASSUME ~cfg.shared,
           UNCHANGED <<cfg, store, call, answer, resp, complete, via, pre, respBuf>>
    PROVE  Contract
<1>1. AnswerOf = [d \in Clients |-> AnswerFor(d)] /\ AnswerOf' = [d \in Clients |-> AnswerFor(d)']
  BY Zenon DEF AnswerOf, AnswerFor
<1>2. ASSUME NEW d \in Clients PROVE AnswerFor(d)' = AnswerFor(d)
  BY SameAnswer DEF Untouched
<1>3. AnswerOf' = AnswerOf
  BY <1>1, <1>2
<1> QED BY <1>3 DEF Contract

-----------------------------------------------------------------------------
(* The theorems. *)

(***************************************************************************)
(* Every message fits, whoever calls what and however the handlers         *)
(* interleave, if msg_size is at least Needed; so an overrun means it is   *)
(* smaller: SerializeRow, SerializeRowVector and the handlers check none   *)
(* of the lengths they write.                                              *)
(***************************************************************************)
THEOREM MessagesFit == Spec => []FitsIfLargeEnough
<1>1. RpcInv => FitsIfLargeEnough
  BY DEF RpcInv
<1> QED BY <1>1, InitRpc, NextRpc, PTL DEF Spec

(***************************************************************************)
(* A call is in one place at a time: a request under way, a response under *)
(* way and complete_ exclude each other, and no answer is being decoded    *)
(* while complete_ is set.                                                 *)
(***************************************************************************)
THEOREM RpcTypes == Spec => []RpcTypeOK
<1>1. RpcInv => RpcTypeOK
  <2> SUFFICES ASSUME RpcInv PROVE RpcTypeOK
    OBVIOUS
  <2>1. DOMAIN store = Keys /\ up \subseteq DOMAIN respBuf
    BY DEF RpcInv
  <2>2. ASSUME NEW c \in Clients
        PROVE  /\ req[c] # NoBytes => call[c] # NoCall
               /\ via[c] # "none" => req[c] = NoBytes /\ call[c] # NoCall
               /\ complete[c] => call[c] # NoCall /\ via[c] = "none" /\ req[c] = NoBytes
               /\ answer[c] # NoAnswer => ~complete[c]
    <3>1. Stage(c)
      BY DEF RpcInv
    <3> QED BY <3>1 DEF Stage
  <2>3. \A t \in DOMAIN respBuf : corrupt \/ Len(respBuf[t]) \in 1 .. cfg.size
    <3> SUFFICES ASSUME NEW t \in DOMAIN respBuf, ~corrupt PROVE Len(respBuf[t]) \in 1 .. cfg.size
      OBVIOUS
    <3>1. /\ respBuf[t] \in Seq(Int) /\ Len(respBuf[t]) >= 1 /\ Len(respBuf[t]) <= cfg.size
          /\ cfg.size \in Nat
      BY Constants DEF RpcInv, RespBufs
    <3>2. Len(respBuf[t]) \in Nat
      BY <3>1
    <3> QED BY <3>1, <3>2
  <2> QED BY <2>1, <2>2, <2>3 DEF RpcTypeOK
<1> QED BY <1>1, InitRpc, NextRpc, PTL DEF Spec

(***************************************************************************)
(* The store holds nothing but rows that the workload built, whole, and a  *)
(* request under way has the key and the row of its call; the inductive    *)
(* invariant of the next theorem.                                          *)
(***************************************************************************)
THEOREM TableInvariant == Spec => []TableInv
BY InitTable, NextTable, PTL DEF Spec

(***************************************************************************)
(* The client/server bindings implement the contract of db.h when every    *)
(* client has a server thread of its own: for every number of clients,     *)
(* keys, fields and calls, and every size of messages that is not overrun, *)
(* a call takes effect on the table when its handler runs, and the client  *)
(* decodes what the handler found; except that a server thread that is     *)
(* gone leaves the answers to writes open.                                 *)
(***************************************************************************)
THEOREM RpcBindingsImplementContract == Spec => RpcImplementsContract
<1>1. ASSUME TableInv, [Next]_vars, ~cfg.shared PROVE Contract
  <2>1. ASSUME NEW c \in Clients, Handle(c) PROVE Contract
    BY <1>1, <2>1, ReadContract, ScanContract, PutContract, InsertContract, UpdateContract,
       DeleteContract DEF Handle
  <2>2. ASSUME NEW c \in Clients,
               \/ Invoke(c) \/ Deliver(c) \/ Abandon(c) \/ PollForRpcComplete(c) \/ Return(c)
        PROVE  Contract
    BY <1>1, <2>2, InvokeContract, DeliverContract, AbandonContract, PollContract, ReturnContract
  <2>3. ASSUME (\E t \in up : StopThread(t)) \/ UNCHANGED vars PROVE Contract
    BY <1>1, <2>3, QuietContract DEF StopThread, vars
  <2> QED BY <1>1, <2>1, <2>2, <2>3 DEF Next
<1>2. TableInv /\ [Next]_vars =>
        [~cfg.shared /\ ~corrupt' =>
           \/ UNCHANGED <<store, call, AnswerOf>>
           \/ IF cfg.binding = "sqlite" THEN UpdateOnly!Next ELSE Upsert!Next
           \/ cfg.faulty /\ \E c \in Clients : Upsert!Fail(c)
           \/ \E c \in Clients : GoneWrong(c)]_<<TableOf, call, AnswerOf>>
  BY <1>1 DEF Contract
<1> QED BY <1>2, InitTable, NextTable, PTL DEF Spec, RpcImplementsContract
=============================================================================
