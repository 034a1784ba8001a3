------------------------------ MODULE AppendLog ------------------------------
(***************************************************************************)
(* What AppendLogStore of codel00p-storage (traits.rs) promises of one     *)
(* stream: an append takes effect at once, at the end, and nothing that    *)
(* was appended is ever changed or removed.                                *)
(***************************************************************************)
EXTENDS Sequences

CONSTANT Payloads

VARIABLE stream

Init == stream = <<>>

Append_(payload) == stream' = Append(stream, payload)

Next == \E payload \in Payloads : Append_(payload)

Spec == Init /\ [][Next]_stream

=============================================================================
