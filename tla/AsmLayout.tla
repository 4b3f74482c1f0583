------------------------------ MODULE AsmLayout ------------------------------
(***************************************************************************)
(* How the GSC compiler places the bytecode of a function                  *)
(* (gsc_compiler_asm.hpp, FunctionObject::ComputeRelativeLocations and the *)
(* writeExport lambda of CompileObject::CreateScript).  The nodes of the   *)
(* function are walked twice.  The first pass, ComputeRelativeLocations,   *)
(* writes nothing: it gives every node a location relative to the function *)
(* (rloc) and one in the file (floc) from ShiftSize.  The second calls     *)
(* Write on each node, which pads and appends to the buffer.  Jumps are    *)
(* encoded from the locations of the first pass, and after the last        *)
(* function the link tables (strings, globals, animations, imports) are    *)
(* filled from floc: nothing compares the two passes, and a byte of        *)
(* difference sends every later jump and every link into another opcode.   *)
(*                                                                         *)
(* The last part is the reader of the tables, GSCOBJHandler::PatchCode of  *)
(* the decompiler, which plays the game's linker.                          *)
(***************************************************************************)
EXTENDS Integers, Sequences

CONSTANTS VMs,      \* the virtual machines compiled for: records of VM
          Nodes,    \* the nodes a body may hold: records of Node
          Locals,   \* the pairs <<parameters, other variables>> of a function
          MaxNodes, \* the longest body
          Sizes     \* the sizes the buffer may have before the function

\* VmInfo: VMF_ALIGN, VMF_OPCODE_U16, VMF_IW_CALLS, VMF_CALL_NO_PARAMS, the
\* size of a hash (VMF_HASH64), !VMF_NO_PARAM_FLAGS and which of the opcodes
\* IW_RegisterVariable and IW_RegisterMultipleVariables the machine has.
VM == [align: BOOLEAN, u16: BOOLEAN, iw: BOOLEAN, noParams: BOOLEAN,
       hash: {4, 8}, flags: BOOLEAN, register: {"none", "one", "many"}]

CallOps == {"Plain", "Thread", "Builtin", "GetFunction", "GetResolve",
            "Pointer", "ThreadPointer", "ClassPointer"}
Pointers == {"Pointer", "ThreadPointer", "ClassPointer"}
Getters == {"GetFunction", "GetResolve"}

\* The subclasses of AscmNode.  An "op" stands for count opcodes without an
\* operand, "value" for an opcode and an operand aligned on its size (a
\* number, a hash, a string reference, a global), "lazy" for AscmNodeLazyLink,
\* "bytes" for an opcode and bytes that are never aligned (a variable index,
\* inlined text, a count of variables).  "slot" and "register" are the parts
\* of AscmNodeCreateLocalVariables.  A jump names its target by its distance.
Node == [kind: {"label", "lazy", "slot", "bareslot", "register"}]
        \cup [kind: {"raw"}, size: Nat, align: {1, 2, 4, 8}]
        \cup [kind: {"op"}, count: Nat \ {0}]
        \cup [kind: {"value"}, size: {1, 2, 4, 8}]
        \cup [kind: {"bytes"}, size: Nat]
        \cup [kind: {"call"}, op: CallOps]
        \cup [kind: {"jump"}, to: Int]

ASSUME VMAssumption == VMs \subseteq VM
\* True of every machine gsc_opcodes_*.hpp registers: those that inline their
\* references have hashes of four bytes and counts of parameters, and those that
\* register one variable at a time have no flags.
ASSUME MachinesAssumption ==
    \A v \in VMs : /\ v.align => v.hash = 4 /\ ~v.noParams
                   /\ v.register = "one" => ~v.flags
ASSUME NodesAssumption == Nodes \subseteq Node
ASSUME LocalsAssumption == Locals \subseteq Nat \X Nat
ASSUME SizesAssumption == Sizes \subseteq Nat /\ MaxNodes \in Nat

VARIABLES vm, nodes, phase, i,
          start,      \* exp.location: the size of the buffer at the first node
          rloc, floc, \* what the first pass gave each node
          current,    \* its running location
          pos,        \* data.size()
          opAt,       \* where the second pass wrote the opcode of each node
          argAt,      \* and its operand
          delta,      \* the int16 of each jump
          place       \* where the linker writes for each linked node

vars == <<vm, nodes, phase, i, start, rloc, floc, current, pos,
          opAt, argAt, delta, place>>

-----------------------------------------------------------------------------
(* Sizes of the nodes.                                                     *)

\* utils::Aligned.
Aligned(x, a) == ((x + a - 1) \div a) * a

\* The "aligned" of ShiftSize and HasAlign() of Write, as the bytes they give
\* an opcode: nothing is padded where that is one.
Width(b) == IF b THEN 2 ELSE 1
Up(w, x, a) == IF w = 2 THEN Aligned(x, a) ELSE x

\* The first pass aligns for a machine that has both flags, the second and
\* the link tables for one that has VMF_ALIGN.  The two tests disagree on the
\* machines aligned without VMF_OPCODE_U16: T7_1B, and T6_01, which has no
\* handler to compile with.
LayoutWidth(v) == Width(v.align /\ v.u16)
WriteWidth(v) == Width(v.align)
OneWidth(v) == LayoutWidth(v) = WriteWidth(v)

\* A node is an opcode or none (ops), unaligned bytes, padding, an operand and
\* what trails it.
Part(ops, lead, align, size, tail) ==
    [ops |-> ops, lead |-> lead, align |-> align, size |-> size, tail |-> tail]

Byte(b) == IF b THEN 1 ELSE 0

\* AscmNodeFunctionCall::LoadData: whether a count of parameters may follow
\* the opcode, and the size of the reference.  inlineCall is VMF_ALIGN.
UseParams(v, op) ==
    IF v.align THEN op \notin Getters
               ELSE op \in {"Thread", "ThreadPointer", "Builtin"}
DataSize(v, op) ==
    CASE op \in Pointers -> 0
      [] op \notin Pointers /\ v.align -> 8
      [] op \in {"Builtin", "GetFunction"} /\ ~v.align -> 2
      [] op \in {"Plain", "Thread", "GetResolve"} /\ ~v.align -> 4

\* ShiftSize.
LaidCall(v, op, w) ==
    LET params == Byte(UseParams(v, op))
    IN  CASE op = "ClassPointer" /\ w = 2 -> Part(1, params, 4, v.hash, 0)
          [] op \in Pointers /\ op # "ClassPointer" /\ w = 2 -> Part(1, params, 1, 0, 0)
          [] op \notin Pointers /\ w = 2 -> Part(1, params, 8, DataSize(v, op), 0)
          [] w = 1 -> Part(1, Byte(UseParams(v, op) /\ (v.align \/ v.iw)),
                         1, DataSize(v, op), 0)

\* Write, with the count of parameters of every call that has one.
PutCall_AllParams(v, op) ==
    LET params == Byte(UseParams(v, op))
    IN  CASE op = "ClassPointer" -> Part(1, params, v.hash, v.hash, 0)
          [] op \in Pointers /\ op # "ClassPointer" -> Part(1, params, 1, 0, 0)
          [] op \notin Pointers -> Part(1, params, DataSize(v, op), DataSize(v, op), 0)

\* Write of the second.
PutCall(v, op) ==
    LET params == Byte(UseParams(v, op) /\ (v.align \/ v.iw))
    IN  CASE op = "ClassPointer" -> Part(1, params, v.hash, v.hash, 0)
          [] op \in Pointers /\ op # "ClassPointer" -> Part(1, params, 1, 0, 0)
          [] op \notin Pointers -> Part(1, params, DataSize(v, op), DataSize(v, op), 0)

\* The nodes both passes describe in the same way.
Operand(v, n, w) ==
    CASE n.kind = "label" -> Part(0, 0, 1, 0, 0)
      [] n.kind = "raw" -> Part(0, 0, n.align, n.size, 0)
      [] n.kind = "op" -> Part(1, (n.count - 1) * w, 1, 0, 0)
      [] n.kind = "value" -> Part(1, 0, n.size, n.size, 0)
      [] n.kind = "lazy" -> Part(1, 0, 4, 16, 0)
      [] n.kind = "bytes" -> Part(1, n.size, 1, 0, 0)
      [] n.kind = "slot" -> Part(0, 0, v.hash, v.hash, Byte(v.flags))
      [] n.kind = "bareslot" -> Part(0, 0, v.hash, v.hash, 0)
      [] n.kind = "jump" -> Part(1, 0, 2, 2, 0)

Laid(v, n, w) ==
    CASE n.kind = "call" -> LaidCall(v, n.op, w)
      [] n.kind = "register" -> Part(1, 0, v.hash, v.hash, 0)
      [] n.kind \notin {"call", "register"} -> Operand(v, n, w)

Put(v, n) ==
    CASE n.kind = "call" -> PutCall(v, n.op)
      [] n.kind = "register" -> Part(1, 0, v.hash, v.hash, Byte(v.flags))
      [] n.kind \notin {"call", "register"} -> Operand(v, n, WriteWidth(v))

\* Where the operand of a part that starts at x is, and where the part ends.
OpcodeEnd(p, x, w) == IF p.ops = 0 THEN x ELSE Up(w, x, 2) + w
OperandAt(p, x, w) == Up(w, OpcodeEnd(p, x, w) + p.lead, p.align)
EndOf(p, x, w) == OperandAt(p, x, w) + p.size + p.tail

ShiftSize(v, n, x, w) == EndOf(Laid(v, n, w), x, w)

-----------------------------------------------------------------------------
(* The functions compiled.                                                 *)

\* AscmNodeCreateLocalVariables: the opcode and the count of what it declares
\* (CheckClearParams when that is nothing) and the hashes of the variables.
\* A machine that registers its variables declares only the parameters here.
CreateLocalVariables(v, params, others) ==
    LET declared == IF v.register = "none" THEN params + others ELSE params
        head == IF declared = 0 THEN <<[kind |-> "op", count |-> 1]>>
                ELSE <<[kind |-> "bytes", size |-> 1]>> \o [k \in 1..declared |-> [kind |-> "slot"]]
    IN  head \o (IF v.register = "one" THEN [k \in 1..others |-> [kind |-> "register"]]
                 ELSE IF v.register = "many" /\ others > 0
                 THEN <<[kind |-> "bytes", size |-> 1]>> \o [k \in 1..others |-> [kind |-> "bareslot"]]
                 ELSE <<>>)

Bodies == UNION {[1..k -> Nodes] : k \in 0..MaxNodes}

\* The parser makes jumps to labels and to nodes that start with an opcode,
\* and class pointers only for the machines that inline references (LoadData
\* throws for the others).
Emitted(v, code) ==
    \A k \in DOMAIN code :
        /\ code[k].kind = "jump" =>
              /\ k + code[k].to \in DOMAIN code
              /\ code[k + code[k].to].kind \notin {"raw", "slot", "bareslot"}
        /\ code[k].kind = "call" /\ code[k].op = "ClassPointer" => v.align
        /\ code[k].kind = "register" => v.register = "one"

Target(k) == k + nodes[k].to

-----------------------------------------------------------------------------
(* The compilation of a function.                                          *)

Init ==
    /\ vm \in VMs
    /\ \E l \in Locals, body \in Bodies :
          nodes = CreateLocalVariables(vm, l[1], l[2]) \o body
    /\ Emitted(vm, nodes)
    /\ pos \in Sizes
    /\ phase = "align" /\ i = 1 /\ start = 0 /\ current = 0
    /\ rloc = <<>> /\ floc = <<>> /\ opAt = <<>> /\ argAt = <<>>
    /\ delta = <<>> /\ place = <<>>

\* writeExport: the buffer is padded to 16 bytes and 8 more are added.
AlignExport ==
    /\ phase = "align"
    /\ pos' = Aligned(pos, 16) + 8
    /\ start' = pos'
    /\ phase' = "layout"
    /\ UNCHANGED <<vm, nodes, i, rloc, floc, current, opAt, argAt, delta, place>>

\* ComputeRelativeLocations, one node.
LayoutNode ==
    /\ phase = "layout" /\ i <= Len(nodes)
    /\ rloc' = Append(rloc, current)
    /\ floc' = Append(floc, Up(LayoutWidth(vm), start + current, 2))
    /\ current' = ShiftSize(vm, nodes[i], current, LayoutWidth(vm))
    /\ i' = i + 1
    /\ UNCHANGED <<vm, nodes, phase, start, pos, opAt, argAt, delta, place>>

\* The second pass begins where the first one ended.
LayoutEnd_KeepsIndex ==
    /\ phase = "layout" /\ i > Len(nodes)
    /\ phase' = "write"
    /\ i' = i + 1
    /\ UNCHANGED <<vm, nodes, start, rloc, floc, current, pos, opAt, argAt, delta, place>>

LayoutEnd ==
    /\ phase = "layout" /\ i > Len(nodes)
    /\ phase' = "write"
    /\ i' = 1
    /\ UNCHANGED <<vm, nodes, start, rloc, floc, current, pos, opAt, argAt, delta, place>>

\* AscmNodeJump::Write: the distance from the end of the jump, refused when it
\* reaches MAX_JUMP and written as an int16_t.
MAX_JUMP == 65536
Int16 == {d \in Int : -32768 <= d /\ d < 32768}
\* From the start of the jump.
JumpDelta_FromStart(k) == rloc[Target(k)] - rloc[k]
JumpDelta(k) == rloc[Target(k)] - ShiftSize(vm, nodes[k], rloc[k], WriteWidth(vm))
TooFar(d) == d >= MAX_JUMP \/ d <= -MAX_JUMP
AsInt16(d) == ((d + 32768) % 65536) - 32768

\* Write, one node.
WriteNode ==
    /\ phase = "write" /\ i <= Len(nodes)
    /\ nodes[i].kind = "jump" => ~TooFar(JumpDelta(i))
    /\ LET p == Put(vm, nodes[i])
       IN  /\ opAt' = Append(opAt, Up(WriteWidth(vm), pos, 2))
           /\ argAt' = Append(argAt, OperandAt(p, pos, WriteWidth(vm)))
           /\ pos' = EndOf(p, pos, WriteWidth(vm))
    /\ delta' = Append(delta, IF nodes[i].kind = "jump" THEN AsInt16(JumpDelta(i)) ELSE 0)
    /\ i' = i + 1
    /\ UNCHANGED <<vm, nodes, phase, start, rloc, floc, current, place>>

\* "Max delta size": the export is refused and with it the script.
WriteFails ==
    /\ phase = "write" /\ i <= Len(nodes)
    /\ nodes[i].kind = "jump" /\ TooFar(JumpDelta(i))
    /\ phase' = "refused"
    /\ UNCHANGED <<vm, nodes, i, start, rloc, floc, current, pos, opAt, argAt, delta, place>>

-----------------------------------------------------------------------------
(* The link tables.                                                        *)

Linked(n) == n.kind = "value" \/ (n.kind = "call" /\ n.op \notin Pointers)

\* The location of the opcode, whether the references are inline or not.
GetFLoc_Opcode(k) == floc[k]

\* The location a table holds: GetDataFLoc for the operand of a value, GetFLoc
\* for a call.
GetDataFLoc(k) == ShiftSize(vm, nodes[k], floc[k], WriteWidth(vm)) - nodes[k].size
GetFLoc(k) ==
    IF vm.align THEN floc[k]
    ELSE IF nodes[k].op = "Builtin" /\ vm.iw THEN floc[k] + 2
    ELSE floc[k] + 1

\* PatchCode: where an import is written.  A machine without the references
\* inline has a count of parameters before some of them.  That the reader writes
\* the count as well is left out.
ImportAt(k) ==
    LET op == nodes[k].op
        width == Width(vm.u16)
        params == Byte(op \notin Getters /\ ~vm.noParams)
    IN  IF vm.align THEN Aligned(GetFLoc(k) + width + params, 8)
        ELSE GetFLoc(k) + Byte(vm.iw /\ op \in {"Thread", "Builtin"})

\* The tables are written after the last function, and read when the script is
\* loaded: the operands of the linked nodes are replaced.
Link ==
    /\ phase = "write" /\ i > Len(nodes)
    /\ place' = [k \in {k \in DOMAIN nodes : Linked(nodes[k])} |->
                    IF nodes[k].kind = "call" THEN ImportAt(k) ELSE GetDataFLoc(k)]
    /\ phase' = "linked"
    /\ UNCHANGED <<vm, nodes, i, start, rloc, floc, current, pos, opAt, argAt, delta>>

Done ==
    /\ phase \in {"linked", "refused"}
    /\ UNCHANGED vars

Next ==
    \/ AlignExport
    \/ LayoutNode
    \/ LayoutEnd
    \/ WriteNode
    \/ WriteFails
    \/ Link
    \/ Done

Spec == Init /\ [][Next]_vars

-----------------------------------------------------------------------------
(* Properties.                                                             *)

\* Every variable has its type.
TypeOK ==
    /\ vm \in VM
    /\ nodes \in Seq(Node)
    /\ phase \in {"align", "layout", "write", "refused", "linked"}
    /\ i \in 1..(Len(nodes) + 1)
    /\ start \in Nat /\ current \in Nat /\ pos \in Nat
    /\ rloc \in Seq(Nat) /\ floc \in Seq(Nat)
    /\ opAt \in Seq(Nat) /\ argAt \in Seq(Nat)
    /\ delta \in Seq(Int16)
    /\ DOMAIN place \subseteq 1..Len(nodes)

\* The bytes Write appends are where ComputeRelativeLocations said: each node
\* starts at its floc (the debug tables, the checksum and the link tables go by
\* it), and the function is as long as it was computed to be.  That is for the
\* machines whose two passes count the same bytes for an opcode: for T7_1B
\* nothing after the first opcode is where it was said to be.
PassesAgree ==
    OneWidth(vm) =>
        /\ \A k \in DOMAIN opAt : opAt[k] = floc[k]
        /\ phase = "linked" => pos = start + current

\* What the linker replaces is the operand Write left for it, not the opcode,
\* the count of parameters or the padding next to it.  The builtin calls of the
\* machines with IW calls are left out: GetFLoc gives them one byte more than
\* PatchCode takes back.
ShiftedByFLoc(k) == vm.iw /\ nodes[k] = [kind |-> "call", op |-> "Builtin"]
OperandsLinked ==
    OneWidth(vm) => \A k \in DOMAIN place : ShiftedByFLoc(k) \/ place[k] = argAt[k]

\* The jump at node k reads, after its end and aligned, the opcode of the node
\* it targets.
Lands(k) == Up(WriteWidth(vm), argAt[k] + 2 + delta[k], 2) = opAt[Target(k)]
IsJump(k) == nodes[k].kind = "jump"

\* In a script that was accepted every jump whose distance an int16 can hold
\* lands on its target, and so across nodes that both passes had to pad.  The
\* test on MAX_JUMP ("Max delta size") lets longer ones through.  T7_1B is left out
\* as in PassesAgree.
JumpsInReachLand ==
    OneWidth(vm) /\ phase = "linked" =>
        \A k \in DOMAIN nodes :
            IsJump(k) /\ JumpDelta(k) \in Int16 => Lands(k)
=============================================================================
