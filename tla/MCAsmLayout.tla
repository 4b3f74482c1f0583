---------------------------- MODULE MCAsmLayout ----------------------------
(* Instances of AsmLayout: the machines of the games, and short functions. *)
EXTENDS AsmLayout

\* T8_36 and T9_38, T7_1B, T10_06, JUP_8A and JUP_8B.
Machine(align, u16, iw, noParams, hash, flags, register) ==
    [align |-> align, u16 |-> u16, iw |-> iw, noParams |-> noParams,
     hash |-> hash, flags |-> flags, register |-> register]
MCVMs == {Machine(TRUE, TRUE, FALSE, FALSE, 4, TRUE, "none"),
          Machine(TRUE, FALSE, FALSE, FALSE, 4, TRUE, "none"),
          Machine(FALSE, FALSE, FALSE, TRUE, 8, TRUE, "many"),
          Machine(FALSE, FALSE, TRUE, TRUE, 8, FALSE, "one"),
          Machine(FALSE, FALSE, TRUE, TRUE, 8, FALSE, "many")}

Calls(ops) == {[kind |-> "call", op |-> op] : op \in ops}
Jumps(by) == {[kind |-> "jump", to |-> d] : d \in by}
Ops(counts) == {[kind |-> "op", count |-> c] : c \in counts}

\* 17000 opcodes of two bytes take a jump past 32767, 66000 past MAX_JUMP.
MCNodes ==
    Calls(CallOps) \cup Jumps({-1, 2}) \cup Ops({1, 17000, 66000})
    \cup {[kind |-> "label"], [kind |-> "lazy"],
          [kind |-> "raw", size |-> 1, align |-> 1], [kind |-> "raw", size |-> 8, align |-> 8],
          [kind |-> "value", size |-> 8],
          [kind |-> "bytes", size |-> 1]}
MCLocals == {<<0, 0>>, <<1, 2>>}
MCSizes == {13}
=============================================================================
