-------------------------- MODULE MCImageLayout --------------------------
(* Programs of up to three code items, then static data and two reservations;  *)
(* load addresses that put the limit before, within and after the code.        *)
EXTENDS ImageLayout

Code ==
    {[kind |-> "plain", size |-> 8]}
        \cup [kind : {"branch", "call"}, label : 0 .. 3]
        \cup [kind : {"address"}, label : {0, 2, 5, 7}]

Statics ==
    <<[kind |-> "data", size |-> 1, align |-> 1], [kind |-> "data", size |-> 4, align |-> 4],
      [kind |-> "reserved", size |-> 3, align |-> 1], [kind |-> "reserved", size |-> 4, align |-> 4]>>

(* A control names a code label or, rarely, none; a constant any.              *)
MCPrograms == {p \o Statics : p \in [1 .. 3 -> Code]}
=============================================================================
