------------------------- MODULE MCNativeEmulator -------------------------
(* Both engines on every program of a family of two instructions in eight      *)
(* bytes of RAM: the first leaves a value in r1, the second is any instruction *)
(* over it, so that stores rewrite both, itself included, and execution wraps  *)
(* around RAM and comes back to what was rewritten.                            *)
EXTENDS NativeEmulator

MCOp ==
    LET op(arm, imm, code) == [arm |-> arm, imm |-> imm, code |-> code]
        table == <<op("nop", FALSE, 0),     op("in", FALSE, 0),      op("out", FALSE, 0),
                   op("getpc", FALSE, 0),   op("alu", TRUE, 4),      op("alu", FALSE, 10),
                   op("branch", TRUE, 8),   op("branch", FALSE, 1),  op("load", FALSE, 0),
                   op("store", TRUE, 4),    op("store", FALSE, 6),   op("store", TRUE, 5),
                   op("load", TRUE, 3),     op("store", FALSE, 7),   op("alu", FALSE, 5),
                   op("invalid", FALSE, 0)>>
    IN  [b \in Byte |-> table[b + 1]]

(* The first instruction is add r1, zr, v or in r1; the second has any opcode  *)
(* with operands r1 or zr and any low byte.                                    *)
MCImages ==
    { [a \in Address |-> (first \o second)[a + 1]] :
        first  \in {<<4, 4, 0, v>> : v \in {1, 6, 9, 12}} \cup {<<1, 4, 0, 0>>},
        second \in {<<op, pair, third, low>> :
                        op \in Byte, pair \in {1, 5}, third \in {0, 1}, low \in Address} }

MCInputLists == {<<9, 6>>}
=============================================================================
