----------------------------- MODULE AckPrefix -----------------------------
(***************************************************************************)
(* What AcknowledgedCounterGenerator promises its callers, without the     *)
(* ring of slots that implements it.                                       *)
(*                                                                         *)
(* Keys are handed out in order.  A key is acknowledged once, in any       *)
(* order, and the readable limit covers acknowledged keys only.  The       *)
(* promise is conditional: an acknowledgement more than W keys ahead of    *)
(* the limit breaks the rules of use, and from then on (overrun) the limit *)
(* may be anything not below where it was.                                 *)
(***************************************************************************)
EXTENDS Integers

CONSTANTS W,            \* how far ahead of the limit an acknowledgement may be
          RecordCount   \* the first key handed out

VARIABLES counter,      \* the next key to hand out
          acked,        \* the keys acknowledged so far
          limit,        \* the largest key a reader may choose
          overrun       \* an acknowledgement was more than W ahead of limit

vars == <<counter, acked, limit, overrun>>

Init ==
    /\ counter = RecordCount
    /\ acked = {}
    /\ limit = RecordCount - 1
    /\ overrun = FALSE

HandOut ==
    /\ counter' = counter + 1
    /\ UNCHANGED <<acked, limit, overrun>>

(***************************************************************************)
(* The limits an acknowledgement may leave behind: everything up to the    *)
(* limit is acknowledged, and at most one acknowledged key is still above  *)
(* a limit that could already cover it.                                    *)
(***************************************************************************)
Covers(S, l) ==
    /\ \A k \in RecordCount .. l : k \in S
    /\ (l + 1) \in S => \A k \in S : k <= l + 1

Acknowledge(k) ==
    /\ k \in RecordCount .. (counter - 1)
    /\ k \notin acked
    /\ acked' = acked \cup {k}
    /\ overrun' = (overrun \/ k > limit + W)
    /\ limit' \in Int /\ limit' >= limit
    /\ ~overrun' => Covers(acked', limit')
    /\ UNCHANGED counter

(* An acknowledgement is refused only when the rules of use were broken. *)
Refuse ==
    /\ overrun' = TRUE
    /\ UNCHANGED <<counter, acked, limit>>

Next ==
    \/ HandOut
    \/ \E k \in RecordCount .. (counter - 1) : Acknowledge(k)
    \/ Refuse

Spec == Init /\ [][Next]_vars

=============================================================================
