------------------------------ MODULE RowCodec ------------------------------
(***************************************************************************)
(* How keys and rows are laid out in the buffers that the client/server    *)
(* bindings exchange and in the values that the servers store.  A buffer   *)
(* is a sequence of cells; a length (uint32_t) is one cell, a string one   *)
(* cell per character:                                                     *)
(*     key     | length | characters |                                     *)
(*     row     | length | field name | length | value | ...                *)
(*     rows    | length | row | ...                                        *)
(* Offsets count from 0, as pointers do.  There is no bounds check in the  *)
(* release build; what would be read from beyond the end is Garbage.       *)
(***************************************************************************)
EXTENDS Integers, Sequences, SequencesExt

Sized(s) == <<Len(s)>> \o s

SerializeKey(key) == Sized(key)

SerializeRow(values) ==
    FlattenSeq([i \in DOMAIN values |-> Sized(values[i].first) \o Sized(values[i].second)])

SerializeRowVector(rows) == FlattenSeq([i \in DOMAIN rows |-> Sized(rows[i])])

Garbage == -9

(* The cell at p, and the n cells from p on. *)
At(data, p) == IF p < Len(data) THEN data[p + 1] ELSE Garbage
Slice(data, p, n) ==
    IF n >= 0 /\ p + n <= Len(data) THEN SubSeq(data, p + 1, p + n) ELSE <<Garbage>>

DeserializeKey(data) == Slice(data, 1, At(data, 0))

DeserializeRow(data, p, lim) ==
    LET row[q \in p .. lim] ==
          IF q = lim THEN <<>>
          ELSE LET v == q + 1 + At(data, q)
                   end == v + 1 + At(data, v)
                   field == [first |-> Slice(data, q + 1, v - q - 1),
                             second |-> Slice(data, v + 1, end - v - 1)]
               IN  <<field>> \o (IF end \in (q + 2) .. lim THEN row[end]
                                 ELSE <<[first |-> <<Garbage>>, second |-> <<Garbage>>]>>)
    IN  row[p]

DeserializeRowVector(data, p, lim) ==
    LET rows[q \in p .. lim] ==
          IF q = lim THEN <<>>
          ELSE LET end == q + 1 + At(data, q)
               IN  IF end \in (q + 1) .. lim
                   THEN <<DeserializeRow(data, q + 1, end)>> \o rows[end]
                   ELSE <<<<[first |-> <<Garbage>>, second |-> <<Garbage>>]>>>>
    IN  rows[p]

(* A vector of fields as a row: of several fields of a name, the first. *)
AsRow(values) ==
    [f \in {values[i].first : i \in DOMAIN values} |->
        values[CHOOSE i \in DOMAIN values :
                 values[i].first = f /\ \A j \in 1 .. (i - 1) : values[j].first # f].second]
=============================================================================
