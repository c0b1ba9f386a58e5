---------------------------- MODULE InsertTrace ----------------------------
(***************************************************************************)
(* InsertThreadState: the part of a recorded trace that one client of      *)
(* PureInsertWorkload replays.  The trace is a set of files run.w.1,       *)
(* run.w.2, ..., each a sequence of records of RECORD_LENGTH bytes that    *)
(* hold one key each; a client maps every threadcount-th file until they   *)
(* hold as many records as it has operations to do.                        *)
(*                                                                         *)
(* Lengths are counted in records: the code rounds down to whole records   *)
(* wherever it uses them.  The files exist and can be mapped.              *)
(***************************************************************************)
EXTENDS Integers, Sequences, FiniteSetsExt, SequencesExt

Garbage == -1      \* what is read behind the end of a file, or through a wild pointer

(* Mutation: neighbouring files, which are the next clients' too. *)
FileNumberNext(i, id, threadcount) == i + id + 1

FileNumber(i, id, threadcount) == i * threadcount + id + 1

Records(trace, id, threadcount, n) ==
    LET lengths == [i \in 0 .. (n - 1) |-> Len(trace[FileNumber(i, id, threadcount)])]
    IN  MapThenSumSet(LAMBDA i : lengths[i], 0 .. (n - 1))

(* How many files the constructor maps; none for a client without operations. *)
Files(trace, id, threadcount, ops) ==
    Min({n \in 0 .. (Len(trace) \div threadcount) : Records(trace, id, threadcount, n) >= ops})

(* The state: the mapped files, len (of the last of them), workload_i, offset. *)
Reader(trace, id, threadcount, ops) ==
    LET n == Files(trace, id, threadcount, ops)
        workloads == [i \in 1 .. n |-> trace[FileNumber(i - 1, id, threadcount)]]
    IN  [workloads |-> workloads, len |-> IF n = 0 THEN 0 ELSE Len(workloads[n]),
         i |-> 1, offset |-> 0]

NoReader == [workloads |-> <<>>, len |-> 0, i |-> 1, offset |-> 0]

HasNextKey(r) == r.offset + 1 <= r.len

(* GetNextKey: the next file if this one is used up, and the record there. *)
Turned(r) == IF HasNextKey(r) THEN r ELSE [r EXCEPT !.i = @ + 1, !.offset = 0]

KeyAt(r) ==
    IF r.i \in DOMAIN r.workloads /\ r.offset < Len(r.workloads[r.i])
    THEN r.workloads[r.i][r.offset + 1] ELSE Garbage

Advanced(r) == [r EXCEPT !.offset = @ + 1]
=============================================================================
