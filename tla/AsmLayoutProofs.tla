--------------------------- MODULE AsmLayoutProofs ---------------------------
(***************************************************************************)
(* For every set of machines, nodes and sizes that AsmLayout allows, and   *)
(* for the machines whose two passes count opcodes of the same width, the  *)
(* second pass writes each node where the first one placed it, the linker  *)
(* finds the operands, and the jumps whose distance an int16_t holds land. *)
(***************************************************************************)
EXTENDS AsmLayout, TLAPS

\* The nodes of a function the parser makes, one at a time.
Legal(v, n) ==
    /\ n.kind = "call" /\ n.op = "ClassPointer" => v.align
    /\ n.kind = "register" => v.register = "one"

-----------------------------------------------------------------------------
(* Arithmetic of the alignment.                                            *)

\* Aligning commutes with a shift by a multiple of eight.
LEMMA AlignedShift ==
    ASSUME NEW m \in Nat, NEW x \in Nat, NEW a \in {1, 2, 4, 8}
    PROVE  Aligned(8 * m + x, a) = 8 * m + Aligned(x, a)
<1>1. CASE a = 1
  BY <1>1 DEF Aligned
<1>2. CASE a = 2
  BY <1>2 DEF Aligned
<1>4. CASE a = 4
  BY <1>4 DEF Aligned
<1>8. CASE a = 8
  BY <1>8 DEF Aligned
<1> QED
  BY <1>1, <1>2, <1>4, <1>8

\* An aligned natural number is one, and not a smaller one.
LEMMA AlignedNat ==
    ASSUME NEW x \in Nat, NEW a \in {1, 2, 4, 8}
    PROVE  Aligned(x, a) \in Nat /\ Aligned(x, a) >= x
<1>1. CASE a = 1
  BY <1>1 DEF Aligned
<1>2. CASE a = 2
  BY <1>2 DEF Aligned
<1>4. CASE a = 4
  BY <1>4 DEF Aligned
<1>8. CASE a = 8
  BY <1>8 DEF Aligned
<1> QED
  BY <1>1, <1>2, <1>4, <1>8

\* The start writeExport chooses is a multiple of eight.
LEMMA StartAligned ==
    ASSUME NEW x \in Nat
    PROVE  \E m \in Nat : Aligned(x, 16) + 8 = 8 * m
<1> DEFINE m == 2 * ((x + 15) \div 16) + 1
<1>1. m \in Nat
  OBVIOUS
<1>2. Aligned(x, 16) + 8 = 8 * m
  BY DEF Aligned
<1> QED
  BY <1>1, <1>2

-----------------------------------------------------------------------------
(* The two descriptions of a node.                                         *)

PartType == [ops: {0, 1}, lead: Nat, align: {1, 2, 4, 8}, size: Nat, tail: Nat]

\* Every part of a node, laid out or written, has a size and an alignment.
LEMMA PartTyped ==
    ASSUME NEW ops \in {0, 1}, NEW lead \in Nat, NEW align \in {1, 2, 4, 8},
           NEW size \in Nat, NEW tail \in Nat
    PROVE  /\ Part(ops, lead, align, size, tail) \in PartType
           /\ Part(ops, lead, align, size, tail).ops = ops
           /\ Part(ops, lead, align, size, tail).lead = lead
           /\ Part(ops, lead, align, size, tail).align = align
           /\ Part(ops, lead, align, size, tail).size = size
           /\ Part(ops, lead, align, size, tail).tail = tail
BY DEF Part, PartType

\* The fields of a machine, and the widths of an opcode.
LEMMA MachineFields ==
    ASSUME NEW v \in VMs
    PROVE  /\ v.align \in BOOLEAN /\ v.u16 \in BOOLEAN /\ v.iw \in BOOLEAN
           /\ v.noParams \in BOOLEAN /\ v.hash \in {4, 8} /\ v.flags \in BOOLEAN
           /\ v.align => v.hash = 4
           /\ v.register = "one" => ~v.flags
           /\ WriteWidth(v) = (IF v.align THEN 2 ELSE 1)
           /\ LayoutWidth(v) \in {1, 2} /\ WriteWidth(v) \in {1, 2}
BY VMAssumption, MachinesAssumption DEF VM, LayoutWidth, WriteWidth, Width

\* Two parts that take the same room where an opcode has w bytes.
Same(p, q, w) ==
    /\ p \in PartType /\ q \in PartType
    /\ p.ops = q.ops /\ p.lead = q.lead /\ p.size = q.size /\ p.tail = q.tail
    /\ w = 2 => p.align = q.align

\* A call is laid out as it is written.
LEMMA CallsSame ==
    ASSUME NEW v \in VMs, NEW op \in CallOps,
           op = "ClassPointer" => v.align
    PROVE  Same(LaidCall(v, op, WriteWidth(v)), PutCall(v, op), WriteWidth(v))
<1> USE MachineFields
<1>3. v.align /\ op \notin Pointers => DataSize(v, op) = 8
  BY DEF DataSize
<1>2. ~v.align /\ op \notin Pointers => DataSize(v, op) \in {2, 4}
  BY DEF DataSize, CallOps, Pointers
<1>4. op \notin Pointers => DataSize(v, op) \in {2, 4, 8}
  BY <1>2, <1>3
<1>5. op \in Pointers => DataSize(v, op) = 0
  BY DEF DataSize, Pointers
<1> DEFINE few == Byte(UseParams(v, op) /\ (v.align \/ v.iw))
           all == Byte(UseParams(v, op))
<1>6. few \in Nat /\ all \in Nat /\ (v.align => few = all)
  BY DEF Byte
<1> HIDE DEF few, all
<1>7. CASE op = "ClassPointer"
  <2>1. v.align /\ v.hash = 4 /\ op \in Pointers
    BY <1>7 DEF Pointers
  <2>2. LaidCall(v, op, WriteWidth(v)) = Part(1, all, 4, v.hash, 0)
    BY <1>7, <2>1 DEF LaidCall, all
  <2>3. PutCall(v, op) = Part(1, few, v.hash, v.hash, 0)
    BY <1>7, <2>1 DEF PutCall, few
  <2>4. few = all
    BY <2>1, <1>6
  <2>5. v.hash = 4
    BY <2>1
  <2> QED
    BY <2>2, <2>3, <2>4, <2>5, <1>6 DEF Same, Part, PartType
<1>8. CASE op \in Pointers /\ op # "ClassPointer"
  <2>1. PutCall(v, op) = Part(1, few, 1, 0, 0)
    BY <1>8 DEF PutCall, few
  <2>2. CASE v.align
    <3>1. LaidCall(v, op, WriteWidth(v)) = Part(1, all, 1, 0, 0)
      BY <1>8, <2>2 DEF LaidCall, all
    <3>2. few = all
      BY <2>2, <1>6
    <3> QED
      BY <2>1, <3>1, <3>2, <1>6 DEF Same, Part, PartType
  <2>3. CASE ~v.align
    <3>1. LaidCall(v, op, WriteWidth(v)) = Part(1, few, 1, 0, 0)
      BY <1>8, <2>3, <1>5 DEF LaidCall, few
    <3> QED
      BY <2>1, <2>3, <3>1, <1>6 DEF Same, Part, PartType
  <2> QED
    BY <2>2, <2>3
<1>9. CASE op \notin Pointers
  <2>1. PutCall(v, op) = Part(1, few, DataSize(v, op), DataSize(v, op), 0)
    BY <1>9 DEF PutCall, few, Pointers
  <2>2. CASE v.align
    <3>1. LaidCall(v, op, WriteWidth(v)) = Part(1, all, 8, DataSize(v, op), 0)
      BY <1>9, <2>2 DEF LaidCall, all, Pointers
    <3>2. few = all /\ DataSize(v, op) = 8
      BY <2>2, <1>3, <1>6, <1>9
    <3> QED
      BY <2>1, <3>1, <3>2, <1>6 DEF Same, Part, PartType
  <2>3. CASE ~v.align
    <3>1. LaidCall(v, op, WriteWidth(v)) = Part(1, few, 1, DataSize(v, op), 0)
      BY <1>9, <2>3 DEF LaidCall, few
    <3> QED
      BY <2>1, <2>3, <3>1, <1>4, <1>9, <1>6 DEF Same, Part, PartType
  <2> QED
    BY <2>2, <2>3
<1> QED
  BY <1>7, <1>8, <1>9

\* The room of a stretch of opcodes.
LEMMA OpcodesNat ==
    ASSUME NEW c \in Nat \ {0}, NEW w \in {1, 2}
    PROVE  (c - 1) * w \in Nat
<1>1. CASE w = 1
  BY <1>1
<1>2. CASE w = 2
  BY <1>2
<1> QED
  BY <1>1, <1>2

\* The parts of the nodes that both passes describe alike.
LEMMA OperandTyped ==
    ASSUME NEW v \in VMs, NEW n \in Node, n.kind \notin {"call", "register"}, NEW w \in {1, 2}
    PROVE  Operand(v, n, w) \in PartType
<1> USE MachineFields
<1>1. CASE n.kind \in {"label", "lazy", "jump"}
  BY <1>1 DEF Operand, Part, PartType
<1>2. CASE n.kind \in {"slot", "bareslot"}
  <2>1. Byte(v.flags) \in Nat /\ v.hash \in {4, 8}
    BY DEF Byte
  <2> QED
    BY <1>2, <2>1 DEF Operand, Part, PartType
<1>3. CASE n.kind = "raw"
  BY <1>3, PartTyped DEF Operand, Node
<1>4. CASE n.kind = "op"
  <2> DEFINE c == n.count
  <2>1. c \in Nat \ {0}
    BY <1>4 DEF Node
  <2>2. Operand(v, n, w) = Part(1, (c - 1) * w, 1, 0, 0)
    BY <1>4 DEF Operand
  <2> HIDE DEF c
  <2> DEFINE lead == (c - 1) * w
  <2>3. lead \in Nat
    BY <2>1, OpcodesNat
  <2> HIDE DEF lead
  <2>4. Part(1, lead, 1, 0, 0) \in PartType
    BY <2>3, PartTyped
  <2> QED
    BY <2>2, <2>4 DEF lead
<1>5. CASE n.kind = "value"
  BY <1>5 DEF Operand, Part, PartType, Node
<1>6. CASE n.kind = "bytes"
  BY <1>6, PartTyped DEF Operand, Node
<1> QED
  BY <1>1, <1>2, <1>3, <1>4, <1>5, <1>6 DEF Node

\* What the first pass lays out has a size whatever the width.
LEMMA PartsTyped ==
    ASSUME NEW v \in VMs, NEW n \in Node, Legal(v, n), NEW w \in {1, 2}
    PROVE  Laid(v, n, w) \in PartType
<1> USE MachineFields
<1>1. CASE n.kind = "call"
  <2> DEFINE op == n.op
             few == Byte(UseParams(v, op) /\ (v.align \/ v.iw))
             all == Byte(UseParams(v, op))
             size == DataSize(v, op)
  <2>1. op \in CallOps
    BY <1>1 DEF Node
  <2>2. Laid(v, n, w) = LaidCall(v, op, w)
    BY <1>1 DEF Laid
  <2>3. size \in {0, 2, 4, 8}
    BY <2>1 DEF DataSize, CallOps, Pointers
  <2>4. few \in Nat /\ all \in Nat
    BY DEF Byte
  <2> HIDE DEF few, all, size, op
  <2>5. \/ LaidCall(v, op, w) = Part(1, all, 4, v.hash, 0)
        \/ LaidCall(v, op, w) = Part(1, all, 1, 0, 0)
        \/ LaidCall(v, op, w) = Part(1, all, 8, size, 0)
        \/ LaidCall(v, op, w) = Part(1, few, 1, size, 0)
    BY DEF LaidCall, few, all, size
  <2> QED
    BY <2>2, <2>3, <2>4, <2>5 DEF Part, PartType
<1>2. CASE n.kind = "register"
  <2>1. Laid(v, n, w) = Part(1, 0, v.hash, v.hash, 0)
    BY <1>2 DEF Laid
  <2> QED
    BY <2>1 DEF Part, PartType
<1>3. CASE n.kind \notin {"call", "register"}
  <2>1. Laid(v, n, w) = Operand(v, n, w)
    BY <1>3 DEF Laid
  <2> QED
    BY <1>3, <2>1, OperandTyped
<1> QED
  BY <1>1, <1>2, <1>3

\* Every node is laid out as it is written, where the width is that of Write.
LEMMA PartsSame ==
    ASSUME NEW v \in VMs, NEW n \in Node, Legal(v, n)
    PROVE  Same(Laid(v, n, WriteWidth(v)), Put(v, n), WriteWidth(v))
<1> USE MachineFields
<1>1. CASE n.kind = "call"
  <2>1. n.op \in CallOps
    BY <1>1 DEF Node
  <2>2. Same(LaidCall(v, n.op, WriteWidth(v)), PutCall(v, n.op), WriteWidth(v))
    BY <1>1, <2>1, CallsSame DEF Legal
  <2>3. Laid(v, n, WriteWidth(v)) = LaidCall(v, n.op, WriteWidth(v)) /\ Put(v, n) = PutCall(v, n.op)
    BY <1>1 DEF Laid, Put
  <2> QED
    BY <2>2, <2>3
<1>2. CASE n.kind = "register"
  <2>1. Laid(v, n, WriteWidth(v)) = Part(1, 0, v.hash, v.hash, 0)
    BY <1>2 DEF Laid
  <2>2. Put(v, n) = Part(1, 0, v.hash, v.hash, Byte(v.flags))
    BY <1>2 DEF Put
  <2>3. Byte(v.flags) = 0
    BY <1>2 DEF Legal, Byte
  <2> QED
    BY <2>1, <2>2, <2>3 DEF Same, Part, PartType
<1>3. CASE n.kind \notin {"call", "register"}
  <2>1. Laid(v, n, WriteWidth(v)) = Operand(v, n, WriteWidth(v)) /\ Put(v, n) = Operand(v, n, WriteWidth(v))
    BY <1>3 DEF Laid, Put
  <2>2. Operand(v, n, WriteWidth(v)) \in PartType
    BY <1>3, OperandTyped
  <2> QED
    BY <2>1, <2>2 DEF Same
<1> QED
  BY <1>1, <1>2, <1>3

\* Moving a part by a multiple of eight moves its operand and its end as much.
LEMMA PartShift ==
    ASSUME NEW p \in PartType, NEW q \in PartType, NEW m \in Nat, NEW x \in Nat,
           NEW w \in {1, 2}, Same(p, q, w)
    PROVE  /\ OperandAt(q, 8 * m + x, w) = 8 * m + OperandAt(p, x, w)
           /\ EndOf(q, 8 * m + x, w) = 8 * m + EndOf(p, x, w)
           /\ OperandAt(p, x, w) \in Nat /\ EndOf(p, x, w) \in Nat
<1>1. /\ p.ops = q.ops /\ p.lead = q.lead /\ p.size = q.size /\ p.tail = q.tail
      /\ p.lead \in Nat /\ p.size \in Nat /\ p.tail \in Nat /\ p.ops \in {0, 1}
      /\ p.align \in {1, 2, 4, 8} /\ (w = 2 => p.align = q.align)
  BY DEF Same, PartType
<1>2. Aligned(8 * m + x, 2) = 8 * m + Aligned(x, 2) /\ Aligned(x, 2) \in Nat
  BY AlignedShift, AlignedNat
<1> DEFINE y == OpcodeEnd(p, x, w) + p.lead
           z == OpcodeEnd(q, 8 * m + x, w) + q.lead
<1>3. y \in Nat /\ z = 8 * m + y
  BY <1>1, <1>2 DEF OpcodeEnd, Up
<1>4. OperandAt(p, x, w) = Up(w, y, p.align)
  BY DEF OperandAt
<1>5. OperandAt(q, 8 * m + x, w) = Up(w, z, q.align)
  BY DEF OperandAt
<1> HIDE DEF y, z
<1>6. Aligned(8 * m + y, p.align) = 8 * m + Aligned(y, p.align) /\ Aligned(y, p.align) \in Nat
  <2>1. y \in Nat /\ p.align \in {1, 2, 4, 8}
    BY <1>1, <1>3
  <2>2. Aligned(8 * m + y, p.align) = 8 * m + Aligned(y, p.align)
    BY <2>1, AlignedShift
  <2>3. Aligned(y, p.align) \in Nat
    BY <2>1, AlignedNat
  <2> QED
    BY <2>2, <2>3
<1>7. /\ OperandAt(q, 8 * m + x, w) = 8 * m + OperandAt(p, x, w)
      /\ OperandAt(p, x, w) \in Nat
  BY <1>1, <1>3, <1>4, <1>5, <1>6 DEF Up
<1> QED
  BY <1>1, <1>7 DEF EndOf

\* The bytes of a node, written from 8m + x, are those laid out from x.
LEMMA NodeShift ==
    ASSUME NEW v \in VMs, NEW n \in Node, Legal(v, n), NEW m \in Nat, NEW x \in Nat
    PROVE  /\ OperandAt(Put(v, n), 8 * m + x, WriteWidth(v))
                = 8 * m + OperandAt(Laid(v, n, WriteWidth(v)), x, WriteWidth(v))
           /\ EndOf(Put(v, n), 8 * m + x, WriteWidth(v)) = 8 * m + ShiftSize(v, n, x, WriteWidth(v))
           /\ OperandAt(Laid(v, n, WriteWidth(v)), x, WriteWidth(v)) \in Nat
           /\ ShiftSize(v, n, x, WriteWidth(v)) \in Nat
<1>1. WriteWidth(v) \in {1, 2}
  BY MachineFields
<1> DEFINE p == Laid(v, n, WriteWidth(v))
           q == Put(v, n)
<1>2. Same(p, q, WriteWidth(v)) /\ p \in PartType /\ q \in PartType
  BY PartsSame DEF Same
<1>3. ShiftSize(v, n, x, WriteWidth(v)) = EndOf(p, x, WriteWidth(v))
  BY DEF ShiftSize
<1> HIDE DEF p, q
<1>4. /\ OperandAt(q, 8 * m + x, WriteWidth(v)) = 8 * m + OperandAt(p, x, WriteWidth(v))
      /\ EndOf(q, 8 * m + x, WriteWidth(v)) = 8 * m + EndOf(p, x, WriteWidth(v))
      /\ OperandAt(p, x, WriteWidth(v)) \in Nat /\ EndOf(p, x, WriteWidth(v)) \in Nat
  BY <1>1, <1>2, PartShift
<1> QED
  BY <1>3, <1>4 DEF p, q

\* Whatever the width, a node takes a natural number of bytes.
LEMMA LaidNat ==
    ASSUME NEW v \in VMs, NEW n \in Node, Legal(v, n), NEW x \in Nat, NEW w \in {1, 2}
    PROVE  ShiftSize(v, n, x, w) \in Nat
<1> DEFINE p == Laid(v, n, w)
<1>1. p \in PartType
  BY PartsTyped
<1>2. ShiftSize(v, n, x, w) = EndOf(p, x, w)
  BY DEF ShiftSize
<1> HIDE DEF p
<1>3. Same(p, p, w)
  BY <1>1 DEF Same
<1>4. EndOf(p, x, w) \in Nat
  <2>1. 0 \in Nat
    OBVIOUS
  <2> QED
    BY <1>1, <1>3, <2>1, PartShift
<1> QED
  BY <1>2, <1>4

-----------------------------------------------------------------------------
(* The inductive invariant.                                                *)

\* What does not change.
InputInv ==
    /\ vm \in VMs
    /\ nodes \in Seq(Node)
    /\ Emitted(vm, nodes)
    /\ phase \in {"align", "layout", "write", "refused", "linked"}

\* Where the first pass is, and where the node after k starts.
LocAt(k) == IF k <= Len(rloc) THEN rloc[k] ELSE current

Counters ==
    /\ i \in 1..(Len(nodes) + 1)
    /\ start \in Nat /\ current \in Nat /\ pos \in Nat
    /\ rloc \in Seq(Nat) /\ floc \in Seq(Nat) /\ Len(floc) = Len(rloc)
    /\ phase = "align" => i = 1 /\ Len(rloc) = 0
    /\ phase = "layout" => Len(rloc) = i - 1
    /\ phase \in {"write", "refused", "linked"} => Len(rloc) = Len(nodes)
    /\ phase # "align" => \E m \in Nat : start = 8 * m

\* The locations of the first pass follow each other by the widths of the
\* second.
Layout ==
    OneWidth(vm) =>
        /\ LocAt(1) = 0
        /\ \A k \in 1..Len(rloc) :
              /\ LocAt(k + 1) = ShiftSize(vm, nodes[k], rloc[k], WriteWidth(vm))
              /\ floc[k] = Up(WriteWidth(vm), start + rloc[k], 2)

\* What the second pass has written, on every machine.
Written ==
    /\ opAt \in Seq(Nat) /\ argAt \in Seq(Nat) /\ delta \in Seq(Int16)
    /\ Len(argAt) = Len(opAt) /\ Len(delta) = Len(opAt)
    /\ phase \in {"align", "layout"} => Len(opAt) = 0
    /\ phase = "layout" => pos = start
    /\ phase = "write" => Len(opAt) = i - 1
    /\ phase = "refused" => Len(opAt) <= Len(nodes)
    /\ phase = "linked" => Len(opAt) = Len(nodes)

\* It is where the first pass said.
Placed ==
    OneWidth(vm) =>
        /\ phase = "write" => pos = start + LocAt(i)
        /\ phase = "linked" => pos = start + current
        /\ \A k \in 1..Len(opAt) :
              /\ opAt[k] = Up(WriteWidth(vm), start + rloc[k], 2)
              /\ argAt[k] = start + OperandAt(Laid(vm, nodes[k], WriteWidth(vm)), rloc[k], WriteWidth(vm))
              /\ delta[k] = IF IsJump(k) THEN AsInt16(JumpDelta(k)) ELSE 0

LinkTable == [k \in {k \in DOMAIN nodes : Linked(nodes[k])} |->
                 IF nodes[k].kind = "call" THEN ImportAt(k) ELSE GetDataFLoc(k)]
Tables ==
    /\ phase # "linked" => place = <<>>
    /\ phase = "linked" => place = LinkTable

Inv == InputInv /\ Counters /\ Layout /\ Written /\ Placed /\ Tables

\* Each node is one the parser makes.
LEMMA NodesLegal ==
    ASSUME InputInv, NEW k \in 1..Len(nodes)
    PROVE  nodes[k] \in Node /\ Legal(vm, nodes[k])
BY DEF InputInv, Emitted, Legal

\* The declaration of the variables is made of nodes.
LEMMA LocalVariablesTyped ==
    ASSUME NEW v, NEW params \in Nat, NEW others \in Nat
    PROVE  CreateLocalVariables(v, params, others) \in Seq(Node)
<1> DEFINE declared == IF v.register = "none" THEN params + others ELSE params
           slots == [k \in 1..declared |-> [kind |-> "slot"]]
           registers == [k \in 1..others |-> [kind |-> "register"]]
           bare == [k \in 1..others |-> [kind |-> "bareslot"]]
           count == <<[kind |-> "bytes", size |-> 1]>>
           clear == <<[kind |-> "op", count |-> 1]>>
           head == IF declared = 0 THEN clear ELSE count \o slots
           tail == IF v.register = "one" THEN registers
                   ELSE IF v.register = "many" /\ others > 0 THEN count \o bare ELSE <<>>
<1>1. declared \in Nat
  OBVIOUS
<1>2. /\ [kind |-> "slot"] \in Node /\ [kind |-> "register"] \in Node
      /\ [kind |-> "bareslot"] \in Node
  BY DEF Node
<1>3. [kind |-> "bytes", size |-> 1] \in Node
  BY DEF Node
<1>4. [kind |-> "op", count |-> 1] \in Node
  BY DEF Node
<1> HIDE DEF declared
<1>5. slots \in Seq(Node) /\ registers \in Seq(Node) /\ bare \in Seq(Node)
  BY <1>1, <1>2
<1>6. count \in Seq(Node) /\ clear \in Seq(Node)
  BY <1>3, <1>4
<1> HIDE DEF slots, registers, bare, count, clear
<1>7. head \in Seq(Node) /\ tail \in Seq(Node)
  BY <1>5, <1>6
<1>8. CreateLocalVariables(v, params, others) = head \o tail
  BY DEF CreateLocalVariables, declared, slots, registers, bare, count, clear
<1> HIDE DEF head, tail
<1> QED
  BY <1>7, <1>8

\* The initial states satisfy it.
LEMMA InitInv == Init => Inv
<1> SUFFICES ASSUME Init PROVE Inv
  OBVIOUS
<1>1. PICK l \in Locals, body \in Bodies : nodes = CreateLocalVariables(vm, l[1], l[2]) \o body
  BY DEF Init
<1>2. body \in Seq(Node)
  BY NodesAssumption DEF Bodies
<1>3. l[1] \in Nat /\ l[2] \in Nat
  BY LocalsAssumption
<1>4. CreateLocalVariables(vm, l[1], l[2]) \in Seq(Node)
  BY <1>3, LocalVariablesTyped
<1>5. nodes \in Seq(Node)
  BY <1>1, <1>2, <1>4
<1>6. InputInv
  BY <1>5 DEF InputInv, Init
<1>7. Counters
  BY SizesAssumption, <1>5 DEF Counters, Init
<1>8. Layout
  BY DEF Layout, LocAt, Init
<1>9. Written /\ Placed
  BY DEF Written, Placed, Init
<1>10. Tables
  BY DEF Tables, Init
<1> QED
  BY <1>6, <1>7, <1>8, <1>9, <1>10 DEF Inv

\* The padding before the function.
LEMMA AlignStep == Inv /\ AlignExport => Inv'
<1> SUFFICES ASSUME Inv, AlignExport PROVE Inv'
  OBVIOUS
<1> USE DEF AlignExport
<1>1. pos \in Nat /\ phase = "align" /\ i = 1 /\ Len(rloc) = 0
  BY DEF Inv, Counters
<1>2. PICK m \in Nat : Aligned(pos, 16) + 8 = 8 * m
  BY <1>1, StartAligned
<1>3. pos' = 8 * m /\ start' = 8 * m /\ pos' \in Nat
  BY <1>2
<1>4. InputInv'
  BY DEF Inv, InputInv
<1>5. Counters'
  <2>1. Counters
    BY DEF Inv
  <2>2. \E n \in Nat : start' = 8 * n
    BY <1>3
  <2>3. /\ i' = i /\ current' = current /\ rloc' = rloc /\ floc' = floc /\ nodes' = nodes
        /\ phase' = "layout" /\ start' \in Nat /\ pos' \in Nat
    BY <1>3
  <2> QED
    BY <1>1, <2>1, <2>2, <2>3 DEF Counters
<1>6. Layout'
  <2>1. rloc' = rloc /\ current' = current /\ vm' = vm /\ 1..Len(rloc') = {} /\ Len(rloc') = 0
    BY <1>1
  <2>2. OneWidth(vm) => current = 0
    BY <1>1 DEF Inv, Layout, LocAt
  <2>3. OneWidth(vm) => LocAt(1)' = 0
    BY <2>1, <2>2 DEF LocAt
  <2> QED
    BY <2>1, <2>3 DEF Layout, OneWidth
<1>7. Written' /\ Placed'
  <2>1. /\ opAt' = opAt /\ argAt' = argAt /\ delta' = delta /\ Len(opAt) = 0
        /\ phase' = "layout" /\ pos' = start'
    BY <1>1, <1>3 DEF Inv, Written
  <2>2. /\ opAt \in Seq(Nat) /\ argAt \in Seq(Nat) /\ delta \in Seq(Int16)
        /\ Len(argAt) = Len(opAt) /\ Len(delta) = Len(opAt)
    BY DEF Inv, Written
  <2>3. 1..Len(opAt') = {}
    BY <2>1
  <2> QED
    BY <2>1, <2>2, <2>3 DEF Written, Placed
<1>8. Tables'
  BY <1>1 DEF Inv, Tables
<1> QED
  BY <1>4, <1>5, <1>6, <1>7, <1>8 DEF Inv

\* One node of the first pass.
LEMMA LayoutStep == Inv /\ LayoutNode => Inv'
<1> SUFFICES ASSUME Inv, LayoutNode PROVE Inv'
  OBVIOUS
<1> USE DEF LayoutNode
<1>1. /\ vm \in VMs /\ nodes \in Seq(Node) /\ i \in 1..Len(nodes)
      /\ current \in Nat /\ start \in Nat /\ Len(rloc) = i - 1 /\ Len(floc) = i - 1
      /\ rloc \in Seq(Nat) /\ floc \in Seq(Nat)
  BY DEF Inv, InputInv, Counters
<1> DEFINE w == LayoutWidth(vm)
<1>2. nodes[i] \in Node /\ Legal(vm, nodes[i])
  BY <1>1, NodesLegal DEF Inv
<1>3. w \in {1, 2} /\ (OneWidth(vm) => w = WriteWidth(vm))
  BY <1>1, MachineFields DEF OneWidth
<1>4. ShiftSize(vm, nodes[i], current, w) \in Nat
  BY <1>1, <1>2, <1>3, LaidNat
<1>5. Up(w, start + current, 2) \in Nat
  <2>1. start + current \in Nat
    BY <1>1
  <2> QED
    BY <2>1, AlignedNat DEF Up
<1>6. /\ rloc' = Append(rloc, current) /\ floc' = Append(floc, Up(w, start + current, 2))
      /\ current' = ShiftSize(vm, nodes[i], current, w)
  BY <1>3
<1> HIDE DEF w
<1>7. /\ rloc' \in Seq(Nat) /\ floc' \in Seq(Nat) /\ Len(rloc') = i /\ Len(floc') = i
      /\ \A k \in 1..(i - 1) : rloc'[k] = rloc[k] /\ floc'[k] = floc[k]
      /\ rloc'[i] = current /\ floc'[i] = Up(w, start + current, 2)
  BY <1>1, <1>5, <1>6
<1>8. InputInv'
  BY DEF Inv, InputInv
<1>9. Counters'
  BY <1>1, <1>4, <1>6, <1>7 DEF Inv, Counters
<1>10. Layout'
  <2> SUFFICES ASSUME OneWidth(vm) PROVE Layout'
    BY DEF Layout, OneWidth
  <2>1. ASSUME NEW k \in 1..i
        PROVE  /\ LocAt(k + 1)' = ShiftSize(vm, nodes[k], rloc'[k], w)
               /\ floc'[k] = Up(w, start + rloc'[k], 2)
    <3>1. CASE k = i
      <4>1. LocAt(k + 1)' = current'
        BY <1>7, <3>1, <1>1 DEF LocAt
      <4> QED
        BY <3>1, <4>1, <1>6, <1>7
    <3>2. CASE k # i
      <4>1. k \in 1..(i - 1) /\ k \in 1..Len(rloc) /\ k + 1 <= i
        BY <3>2, <1>1
      <4>2. /\ LocAt(k + 1) = ShiftSize(vm, nodes[k], rloc[k], w)
            /\ floc[k] = Up(w, start + rloc[k], 2)
        BY <4>1, <1>3 DEF Inv, Layout
      <4>3. LocAt(k + 1)' = rloc'[k + 1]
        BY <4>1, <1>7 DEF LocAt
      <4>4. rloc'[k + 1] = LocAt(k + 1)
        <5>1. CASE k + 1 = i
          BY <5>1, <1>1, <1>7 DEF LocAt
        <5>2. CASE k + 1 # i
          <6>1. k + 1 \in 1..(i - 1)
            BY <4>1, <5>2, <1>1
          <6> QED
            BY <6>1, <1>1, <1>7 DEF LocAt
        <5> QED
          BY <5>1, <5>2
      <4> QED
        BY <4>1, <4>2, <4>3, <4>4, <1>7
    <3> QED
      BY <3>1, <3>2
  <2>2. vm' = vm /\ nodes' = nodes /\ start' = start /\ WriteWidth(vm') = w
    BY <1>3
  <2>3. Len(rloc') = i
    BY <1>1, <1>7
  <2>4. LocAt(1)' = 0
    <3>1. LocAt(1) = 0 /\ LocAt(1)' = rloc'[1]
      BY <1>1, <2>3 DEF Inv, Layout, LocAt
    <3>2. CASE i = 1
      BY <3>1, <3>2, <1>1, <1>7 DEF LocAt
    <3>3. CASE i # 1
      <4>1. 1 \in 1..(i - 1) /\ 1 <= Len(rloc)
        BY <3>3, <1>1
      <4> QED
        BY <3>1, <4>1, <1>7 DEF LocAt
    <3> QED
      BY <3>2, <3>3
  <2> QED
    BY <2>1, <2>2, <2>3, <2>4 DEF Layout
<1>11. Written' /\ Placed'
  <2>1. /\ opAt' = opAt /\ argAt' = argAt /\ delta' = delta /\ Len(opAt) = 0
        /\ phase' = "layout" /\ pos' = start'
    BY DEF Inv, Written
  <2>2. /\ opAt \in Seq(Nat) /\ argAt \in Seq(Nat) /\ delta \in Seq(Int16)
        /\ Len(argAt) = Len(opAt) /\ Len(delta) = Len(opAt)
    BY DEF Inv, Written
  <2>3. 1..Len(opAt') = {}
    BY <2>1
  <2> QED
    BY <2>1, <2>2, <2>3 DEF Written, Placed
<1>12. Tables'
  BY DEF Inv, Tables
<1> QED
  BY <1>8, <1>9, <1>10, <1>11, <1>12 DEF Inv

\* Between the two passes.
LEMMA LayoutEndStep == Inv /\ LayoutEnd => Inv'
<1> SUFFICES ASSUME Inv, LayoutEnd PROVE Inv'
  OBVIOUS
<1> USE DEF LayoutEnd
<1>1. phase = "layout" /\ i > Len(nodes) /\ nodes \in Seq(Node) /\ i \in 1..(Len(nodes) + 1)
  BY DEF Inv, InputInv, Counters
<1>2. Len(nodes) \in Nat
  BY <1>1
<1>3. i' = 1 /\ phase' = "write" /\ Len(rloc) = Len(nodes) /\ 1 \in 1..(Len(nodes) + 1)
  BY <1>1, <1>2 DEF Inv, Counters
<1>4. /\ vm' = vm /\ nodes' = nodes /\ start' = start /\ rloc' = rloc /\ floc' = floc
      /\ current' = current /\ pos' = pos /\ opAt' = opAt /\ argAt' = argAt /\ delta' = delta
      /\ place' = place
  OBVIOUS
<1>5. InputInv'
  BY <1>3, <1>4 DEF Inv, InputInv
<1>6. Counters'
  BY <1>1, <1>3, <1>4 DEF Inv, Counters
<1>7. OneWidth(vm) => LocAt(1)' = 0 /\ LocAt(1) = 0
  BY <1>4 DEF Inv, Layout, LocAt
<1>8. Layout'
  <2>1. Layout
    BY DEF Inv
  <2> QED
    BY <2>1, <1>4, <1>7 DEF Layout, LocAt
<1>9. Written' /\ Placed'
  <2>1. Len(opAt) = 0 /\ pos = start /\ start \in Nat
    BY <1>1 DEF Inv, Written, Counters
  <2>2. /\ opAt \in Seq(Nat) /\ argAt \in Seq(Nat) /\ delta \in Seq(Int16)
        /\ Len(argAt) = Len(opAt) /\ Len(delta) = Len(opAt)
    BY DEF Inv, Written
  <2>3. 1..Len(opAt') = {}
    BY <2>1, <1>4
  <2>4. Len(opAt') = i' - 1 /\ (OneWidth(vm) => pos' = start' + LocAt(i)')
    BY <2>1, <1>3, <1>4, <1>7 DEF LocAt
  <2> QED
    BY <2>1, <2>2, <2>3, <2>4, <1>3, <1>4 DEF Written, Placed, OneWidth
<1>10. Tables'
  BY <1>1, <1>3, <1>4 DEF Inv, Tables
<1> QED
  BY <1>5, <1>6, <1>8, <1>9, <1>10 DEF Inv

\* The number a jump stores is always an int16_t.
LEMMA Int16Range == ASSUME NEW d \in Int PROVE AsInt16(d) \in Int16
<1> DEFINE r == (d + 32768) % 65536
<1>1. r \in Int /\ 0 <= r /\ r < 65536
  OBVIOUS
<1>2. AsInt16(d) = r - 32768
  BY DEF AsInt16
<1> HIDE DEF r
<1> QED
  BY <1>1, <1>2 DEF Int16

\* A number below the modulus is its own remainder.
LEMMA SmallRemainder == ASSUME NEW x \in Nat, x < 65536 PROVE x % 65536 = x
OBVIOUS

\* A distance that fits one is stored unchanged.
LEMMA Int16Exact == ASSUME NEW d \in Int16 PROVE AsInt16(d) = d
<1> DEFINE x == d + 32768
<1>1. d \in Int /\ -32768 <= d /\ d < 32768
  BY DEF Int16
<1>2. x \in Nat /\ x < 65536 /\ x - 32768 = d
  BY <1>1
<1> HIDE DEF x
<1>3. x % 65536 = x
  BY <1>2, SmallRemainder
<1> QED
  BY <1>2, <1>3 DEF AsInt16, x

\* Every jump of a laid out function has a distance.
LEMMA DeltaTyped ==
    ASSUME InputInv, rloc \in Seq(Nat), Len(rloc) = Len(nodes),
           NEW k \in 1..Len(nodes), IsJump(k)
    PROVE  Target(k) \in 1..Len(nodes) /\ JumpDelta(k) \in Int
<1>1. vm \in VMs /\ nodes \in Seq(Node) /\ Emitted(vm, nodes)
  BY DEF InputInv
<1>2. Target(k) \in 1..Len(nodes)
  BY <1>1 DEF Emitted, IsJump, Target
<1>3. nodes[k] \in Node /\ Legal(vm, nodes[k])
  BY NodesLegal
<1>4. rloc[k] \in Nat /\ rloc[Target(k)] \in Nat
  BY <1>2
<1>5. ShiftSize(vm, nodes[k], rloc[k], WriteWidth(vm)) \in Nat
  <2>1. 0 \in Nat
    OBVIOUS
  <2> QED
    BY <1>1, <1>3, <1>4, <2>1, NodeShift
<1> QED
  BY <1>2, <1>4, <1>5 DEF JumpDelta

\* What an appended sequence holds.
LEMMA Appended ==
    ASSUME NEW S, NEW s \in Seq(S), NEW e \in S, NEW j \in Nat \ {0}, Len(s) = j - 1
    PROVE  /\ Append(s, e) \in Seq(S) /\ Len(Append(s, e)) = j
           /\ \A k \in 1..(j - 1) : Append(s, e)[k] = s[k]
           /\ Append(s, e)[j] = e
OBVIOUS

\* One node of the second pass, on every machine.
LEMMA WriteTyped ==
    ASSUME Inv, WriteNode
    PROVE  InputInv' /\ Counters' /\ Layout' /\ Written' /\ Tables'
<1> DEFINE w == WriteWidth(vm)
           n == nodes[i]
           at == OperandAt(Put(vm, n), pos, w)
           to == EndOf(Put(vm, n), pos, w)
           d == IF n.kind = "jump" THEN AsInt16(JumpDelta(i)) ELSE 0
           o == Up(w, pos, 2)
<1>1. InputInv /\ vm \in VMs /\ nodes \in Seq(Node) /\ phase = "write"
  BY DEF Inv, InputInv, WriteNode
<1>2. i \in 1..Len(nodes) /\ i \in Nat \ {0}
  BY <1>1 DEF Inv, Counters, WriteNode
<1>3. rloc \in Seq(Nat) /\ Len(rloc) = Len(nodes) /\ pos \in Nat
  BY <1>1 DEF Inv, Counters
<1>4. opAt \in Seq(Nat) /\ argAt \in Seq(Nat) /\ delta \in Seq(Int16)
  BY DEF Inv, Written
<1>5. Len(opAt) = i - 1 /\ Len(argAt) = i - 1 /\ Len(delta) = i - 1
  BY <1>1 DEF Inv, Written
<1>6. n \in Node /\ Legal(vm, n) /\ w \in {1, 2}
  BY <1>1, <1>2, NodesLegal, MachineFields
<1>7. /\ opAt' = Append(opAt, o) /\ argAt' = Append(argAt, at) /\ pos' = to
      /\ delta' = Append(delta, d)
      /\ i' = i + 1
      /\ vm' = vm /\ nodes' = nodes /\ phase' = phase /\ start' = start /\ rloc' = rloc
      /\ floc' = floc /\ current' = current /\ place' = place
  BY DEF WriteNode
<1>8. o \in Nat
  BY <1>3, AlignedNat DEF Up
<1>9. d \in Int16
  <2>1. CASE n.kind = "jump"
    <3>1. JumpDelta(i) \in Int
      BY <1>1, <1>2, <1>3, <2>1, DeltaTyped DEF IsJump
    <3>2. AsInt16(JumpDelta(i)) \in Int16
      BY <3>1, Int16Range
    <3> QED
      BY <2>1, <3>2
  <2>2. CASE n.kind # "jump"
    <3>1. 0 \in Int16
      BY DEF Int16
    <3> QED
      BY <2>2, <3>1
  <2> QED
    BY <2>1, <2>2
<1> HIDE DEF w, n, d, o
<1>10. at \in Nat /\ to \in Nat
  <2>1. 0 \in Nat /\ 8 * 0 + pos = pos
    BY <1>3
  <2>2. /\ OperandAt(Put(vm, n), 8 * 0 + pos, w) = 8 * 0 + OperandAt(Laid(vm, n, w), pos, w)
        /\ EndOf(Put(vm, n), 8 * 0 + pos, w) = 8 * 0 + ShiftSize(vm, n, pos, w)
        /\ OperandAt(Laid(vm, n, w), pos, w) \in Nat /\ ShiftSize(vm, n, pos, w) \in Nat
    BY <1>1, <1>3, <1>6, <2>1, NodeShift DEF w
  <2> QED
    BY <2>1, <2>2
<1> HIDE DEF at, to
<1>11. opAt' \in Seq(Nat) /\ Len(opAt') = i
  BY <1>2, <1>4, <1>5, <1>7, <1>8, Appended
<1>12. argAt' \in Seq(Nat) /\ Len(argAt') = i
  BY <1>2, <1>4, <1>5, <1>7, <1>10, Appended
<1>13. delta' \in Seq(Int16) /\ Len(delta') = i
  BY <1>2, <1>4, <1>5, <1>7, <1>9, Appended
<1>14. InputInv'
  BY <1>1, <1>7 DEF InputInv
<1>15. Counters'
  <2>1. Counters
    BY DEF Inv
  <2>2. i' \in 1..(Len(nodes) + 1) /\ pos' \in Nat
    BY <1>1, <1>2, <1>7, <1>10
  <2>3. phase' = "write"
    BY <1>1, <1>7
  <2> QED
    BY <1>7, <2>1, <2>2, <2>3 DEF Counters
<1>16. Layout'
  <2>1. Layout
    BY DEF Inv
  <2> QED
    BY <1>7, <2>1 DEF Layout, LocAt
<1>17. Written'
  <2>1. Len(opAt') = i' - 1 /\ phase' = "write"
    BY <1>1, <1>2, <1>7, <1>11
  <2> QED
    BY <1>11, <1>12, <1>13, <2>1 DEF Written
<1>18. Tables'
  BY <1>1, <1>7 DEF Inv, Tables
<1> QED
  BY <1>14, <1>15, <1>16, <1>17, <1>18

\* It is written where it was laid out, where the widths agree.
LEMMA WritePlaced ==
    ASSUME Inv, WriteNode, OneWidth(vm)
    PROVE  Placed'
<1> DEFINE w == WriteWidth(vm)
           n == nodes[i]
           x == rloc[i]
<1>1. InputInv /\ vm \in VMs /\ nodes \in Seq(Node) /\ phase = "write"
  BY DEF Inv, InputInv, WriteNode
<1>2. i \in 1..Len(nodes) /\ i \in Nat \ {0} /\ i \in 1..Len(rloc)
  BY <1>1 DEF Inv, Counters, WriteNode
<1>3. rloc \in Seq(Nat) /\ Len(rloc) = Len(nodes)
  BY <1>1 DEF Inv, Counters
<1>4. start \in Nat /\ current \in Nat /\ pos \in Nat
  BY <1>1 DEF Inv, Counters
<1>5. InputInv /\ vm \in VMs /\ i \in 1..Len(nodes) /\ rloc \in Seq(Nat) /\ Len(rloc) = Len(nodes)
      /\ start \in Nat
  BY <1>1, <1>2, <1>3, <1>4
<1>6. opAt \in Seq(Nat) /\ argAt \in Seq(Nat) /\ delta \in Seq(Int16)
  BY DEF Inv, Written
<1>7. Len(opAt) = i - 1 /\ Len(argAt) = i - 1 /\ Len(delta) = i - 1
  BY <1>1 DEF Inv, Written
<1>8. pos = start + LocAt(i)
  BY <1>1 DEF Inv, Placed
<1>9. x \in Nat
  BY <1>2, <1>3
<1>10. x \in Nat /\ pos = start + x /\ LocAt(i) = x
  BY <1>2, <1>8, <1>9 DEF LocAt
<1>11. PICK m \in Nat : start = 8 * m
  BY <1>5 DEF Inv, Counters
<1>12. n \in Node /\ Legal(vm, n) /\ w \in {1, 2}
  BY <1>5, NodesLegal, MachineFields
<1>13. pos = 8 * m + x
  BY <1>10, <1>11
<1> HIDE DEF n, x
<1>14. /\ OperandAt(Put(vm, n), 8 * m + x, w) = 8 * m + OperandAt(Laid(vm, n, w), x, w)
      /\ EndOf(Put(vm, n), 8 * m + x, w) = 8 * m + ShiftSize(vm, n, x, w)
      /\ OperandAt(Laid(vm, n, w), x, w) \in Nat /\ ShiftSize(vm, n, x, w) \in Nat
  <2>1. vm \in VMs /\ n \in Node /\ Legal(vm, n) /\ m \in Nat /\ x \in Nat
    BY <1>1, <1>9, <1>11, <1>12
  <2> QED
    BY <2>1, NodeShift
<1> DEFINE at == OperandAt(Laid(vm, n, w), x, w)
           to == ShiftSize(vm, n, x, w)
           d == IF n.kind = "jump" THEN AsInt16(JumpDelta(i)) ELSE 0
           o == Up(w, start + x, 2)
<1>15. /\ opAt' = Append(opAt, Up(w, pos, 2))
      /\ argAt' = Append(argAt, OperandAt(Put(vm, n), pos, w))
      /\ pos' = EndOf(Put(vm, n), pos, w)
      /\ delta' = Append(delta, d)
      /\ i' = i + 1
      /\ vm' = vm /\ nodes' = nodes /\ phase' = phase /\ start' = start /\ rloc' = rloc
      /\ floc' = floc /\ current' = current /\ place' = place
  BY DEF WriteNode, n
<1>16. o \in Nat
  <2>1. start + x \in Nat
    BY <1>5, <1>10
  <2> QED
    BY <2>1, AlignedNat DEF Up
<1>17. d \in Int16
  <2>1. CASE n.kind = "jump"
    <3>1. JumpDelta(i) \in Int
      BY <1>5, <2>1, DeltaTyped DEF IsJump, n
    <3>2. AsInt16(JumpDelta(i)) \in Int16
      BY <3>1, Int16Range
    <3> QED
      BY <2>1, <3>2
  <2>2. CASE n.kind # "jump"
    <3>1. 0 \in Int16
      BY DEF Int16
    <3> QED
      BY <2>2, <3>1
  <2> QED
    BY <2>1, <2>2
<1> HIDE DEF w, at, to, d, o
<1>18. opAt' = Append(opAt, o) /\ argAt' = Append(argAt, start + at) /\ pos' = start + to
  BY <1>10, <1>11, <1>13, <1>14, <1>15 DEF at, to, o
<1>19. at \in Nat /\ to \in Nat
  BY <1>14 DEF at, to
<1>20. start + at \in Nat /\ start + to \in Nat
  BY <1>5, <1>19
<1>21. delta' = Append(delta, d)
  BY <1>15
<1>22. /\ opAt' \in Seq(Nat) /\ argAt' \in Seq(Nat) /\ delta' \in Seq(Int16)
       /\ Len(opAt') = i /\ Len(argAt') = i /\ Len(delta') = i
  <2>1. opAt' \in Seq(Nat) /\ Len(opAt') = i
    BY <1>2, <1>6, <1>7, <1>16, <1>18, Appended
  <2>2. argAt' \in Seq(Nat) /\ Len(argAt') = i
    BY <1>2, <1>6, <1>7, <1>18, <1>20, Appended
  <2>3. delta' \in Seq(Int16) /\ Len(delta') = i
    BY <1>2, <1>6, <1>7, <1>17, <1>21, Appended
  <2> QED
    BY <2>1, <2>2, <2>3
<1>23. \A k \in 1..(i - 1) :
          opAt'[k] = opAt[k] /\ argAt'[k] = argAt[k] /\ delta'[k] = delta[k]
  <2>1. \A k \in 1..(i - 1) : opAt'[k] = opAt[k]
    BY <1>2, <1>6, <1>7, <1>16, <1>18, Appended
  <2>2. \A k \in 1..(i - 1) : argAt'[k] = argAt[k]
    BY <1>2, <1>6, <1>7, <1>18, <1>20, Appended
  <2>3. \A k \in 1..(i - 1) : delta'[k] = delta[k]
    BY <1>2, <1>6, <1>7, <1>17, <1>21, Appended
  <2> QED
    BY <2>1, <2>2, <2>3
<1>24. opAt'[i] = o /\ argAt'[i] = start + at /\ delta'[i] = d
  <2>1. opAt'[i] = o
    BY <1>2, <1>6, <1>7, <1>16, <1>18, Appended
  <2>2. argAt'[i] = start + at
    BY <1>2, <1>6, <1>7, <1>18, <1>20, Appended
  <2>3. delta'[i] = d
    BY <1>2, <1>6, <1>7, <1>17, <1>21, Appended
  <2> QED
    BY <2>1, <2>2, <2>3
<1>27. LocAt(1)' = LocAt(1) /\ \A k \in Nat : LocAt(k)' = LocAt(k)
  BY <1>15 DEF LocAt
<1>29. to = LocAt(i)'
  <2>1. LocAt(i + 1) = to
    BY <1>5 DEF Inv, Layout, to, w, n, x
  <2> QED
    BY <2>1, <1>15 DEF LocAt
<1>30. Placed'
  <2>1. ASSUME NEW k \in 1..i
        PROVE  /\ opAt'[k] = Up(w, start + rloc[k], 2)
               /\ argAt'[k] = start + OperandAt(Laid(vm, nodes[k], w), rloc[k], w)
               /\ delta'[k] = IF IsJump(k) THEN AsInt16(JumpDelta(k)) ELSE 0
    <3>1. CASE k = i
      BY <3>1, <1>24 DEF o, at, d, n, x, IsJump
    <3>2. CASE k # i
      <4>1. k \in 1..(i - 1) /\ k \in 1..Len(opAt)
        BY <3>2, <1>2, <1>7
      <4>2. /\ opAt[k] = Up(w, start + rloc[k], 2)
            /\ argAt[k] = start + OperandAt(Laid(vm, nodes[k], w), rloc[k], w)
            /\ delta[k] = IF IsJump(k) THEN AsInt16(JumpDelta(k)) ELSE 0
        BY <4>1 DEF Inv, Placed, w
      <4> QED
        BY <4>1, <4>2, <1>23
    <3> QED
      BY <3>1, <3>2
  <2>2. \A k \in 1..i : /\ IsJump(k)' = IsJump(k)
                        /\ JumpDelta(k)' = JumpDelta(k)
    BY <1>15 DEF IsJump, JumpDelta, Target
  <2>3. ASSUME NEW k \in 1..Len(opAt')
        PROVE  /\ opAt'[k] = Up(WriteWidth(vm)', start' + rloc'[k], 2)
               /\ argAt'[k] = start' + OperandAt(Laid(vm', nodes'[k], WriteWidth(vm)'), rloc'[k], WriteWidth(vm)')
               /\ delta'[k] = IF IsJump(k)' THEN AsInt16(JumpDelta(k)') ELSE 0
    <3>1. k \in 1..i
      BY <1>22
    <3>2. WriteWidth(vm)' = w /\ start' = start /\ rloc' = rloc /\ nodes' = nodes /\ vm' = vm
      BY <1>15 DEF w
    <3> QED
      BY <2>1, <2>2, <3>1, <3>2
  <2>4. pos' = start' + LocAt(i)' /\ phase' = "write"
    BY <1>1, <1>15, <1>18, <1>29
  <2> QED
    BY <2>3, <2>4 DEF Placed
<1> QED
  BY <1>30

\* One node of the second pass.
LEMMA WriteStep == Inv /\ WriteNode => Inv'
<1> SUFFICES ASSUME Inv, WriteNode PROVE Inv'
  OBVIOUS
<1>1. InputInv' /\ Counters' /\ Layout' /\ Written' /\ Tables'
  BY WriteTyped
<1>2. Placed'
  <2>1. CASE OneWidth(vm)
    BY <2>1, WritePlaced
  <2>2. CASE ~OneWidth(vm)
    BY <2>2 DEF Placed, WriteNode, OneWidth
  <2> QED
    BY <2>1, <2>2
<1> QED
  BY <1>1, <1>2 DEF Inv

\* The table of the links depends on the inputs and on the first pass only.
LEMMA LinkTableStays ==
    ASSUME vm' = vm, nodes' = nodes, floc' = floc
    PROVE  LinkTable' = LinkTable
<1>1. ASSUME NEW k \in {k \in DOMAIN nodes : Linked(nodes[k])}
      PROVE  ImportAt(k)' = ImportAt(k) /\ GetDataFLoc(k)' = GetDataFLoc(k)
  BY DEF ImportAt, GetFLoc, GetDataFLoc
<1> QED
  BY <1>1 DEF LinkTable

\* A step that leaves the two passes alone and ends the second, or stutters.
LEMMA QuietStep ==
    ASSUME Inv,
           UNCHANGED <<vm, nodes, i, start, rloc, floc, current, pos, opAt, argAt, delta>>,
           \/ phase' = phase /\ place' = place
           \/ phase = "write" /\ i <= Len(nodes) /\ phase' = "refused" /\ place' = place
           \/ phase = "write" /\ i > Len(nodes) /\ phase' = "linked" /\ place' = LinkTable
    PROVE  Inv'
<1>1. InputInv /\ Counters /\ Layout /\ Written /\ Placed /\ Tables
  BY DEF Inv
<1>2. InputInv'
  BY <1>1 DEF InputInv
<1>3. nodes \in Seq(Node) /\ Len(nodes) \in Nat
  BY <1>1 DEF InputInv
<1>4. i \in 1..(Len(nodes) + 1)
  BY <1>1 DEF Counters
<1>5. Counters'
  BY <1>1 DEF Counters
<1>6. Layout'
  BY <1>1 DEF Layout, LocAt
<1>7. Written'
  <2>1. phase = "write" => Len(opAt) = i - 1
    BY <1>1 DEF Written
  <2>2. phase' = "refused" => Len(opAt) <= Len(nodes)
    BY <1>1, <1>3, <1>4, <2>1 DEF Written
  <2>3. phase' = "linked" => Len(opAt) = Len(nodes)
    BY <1>1, <1>3, <1>4, <2>1 DEF Written
  <2>4. phase' \in {"align", "layout"} => phase = phase'
    OBVIOUS
  <2> QED
    BY <1>1, <2>1, <2>2, <2>3, <2>4 DEF Written
<1>9. Placed'
  <2> SUFFICES ASSUME OneWidth(vm) PROVE Placed'
    BY DEF Placed, OneWidth
  <2>1. phase = "write" => pos = start + LocAt(i) /\ Len(rloc) = Len(nodes)
    BY <1>1 DEF Placed, Counters
  <2>2. phase' = "linked" => pos = start + current
    <3>1. CASE phase = "linked"
      BY <1>1, <3>1 DEF Placed
    <3>2. CASE phase = "write" /\ i > Len(nodes)
      BY <1>3, <1>4, <2>1, <3>2 DEF LocAt
    <3> QED
      BY <3>1, <3>2
  <2>3. LocAt(i)' = LocAt(i) /\ (phase' = "write" => phase = "write")
    BY DEF LocAt
  <2>4. \A k \in 1..Len(opAt) : IsJump(k)' = IsJump(k) /\ JumpDelta(k)' = JumpDelta(k)
    BY DEF IsJump, JumpDelta, Target
  <2> QED
    BY <1>1, <2>1, <2>2, <2>3, <2>4 DEF Placed
<1>8. Tables'
  <2>1. LinkTable' = LinkTable
    BY LinkTableStays
  <2> QED
    BY <1>1, <2>1 DEF Tables
<1> QED
  BY <1>2, <1>5, <1>6, <1>7, <1>8, <1>9 DEF Inv

\* Every step preserves the invariant.
LEMMA NextInv == Inv /\ [Next]_vars => Inv'
<1> SUFFICES ASSUME Inv, [Next]_vars PROVE Inv'
  OBVIOUS
<1>1. CASE AlignExport
  BY <1>1, AlignStep
<1>2. CASE LayoutNode
  BY <1>2, LayoutStep
<1>3. CASE LayoutEnd
  BY <1>3, LayoutEndStep
<1>4. CASE WriteNode
  BY <1>4, WriteStep
<1>5. CASE WriteFails
  BY <1>5, QuietStep DEF WriteFails
<1>6. CASE Link
  BY <1>6, QuietStep DEF Link, LinkTable
<1>7. CASE UNCHANGED vars
  BY <1>7, QuietStep DEF vars
<1>8. CASE Done
  BY <1>8, <1>7 DEF Done
<1> QED
  BY <1>1, <1>2, <1>3, <1>4, <1>5, <1>6, <1>7, <1>8 DEF Next

\* The invariant holds in every reachable state.
LEMMA InvHolds == Spec => []Inv
<1> QED
  BY InitInv, NextInv, PTL DEF Spec

-----------------------------------------------------------------------------
(* The theorems.                                                           *)

\* Every variable of the compilation keeps its type.
THEOREM TypeCorrect == Spec => []TypeOK
<1>1. Inv => TypeOK
  <2> SUFFICES ASSUME Inv PROVE TypeOK
    OBVIOUS
  <2>1. InputInv /\ Counters /\ Written /\ Tables
    BY DEF Inv
  <2>2. vm \in VM
    BY <2>1, VMAssumption DEF InputInv
  <2>3. DOMAIN place \subseteq 1..Len(nodes)
    <3>1. CASE phase = "linked"
      BY <2>1, <3>1 DEF Tables, LinkTable, InputInv
    <3>2. CASE phase # "linked"
      BY <2>1, <3>2 DEF Tables
    <3> QED
      BY <3>1, <3>2
  <2> QED
    BY <2>1, <2>2, <2>3 DEF TypeOK, InputInv, Counters, Written
<1> QED
  BY <1>1, InvHolds, PTL

\* The bytes of Write are where ComputeRelativeLocations said, for every
\* function the parser makes and every machine for which both take an opcode to
\* have the same width.
THEOREM Agreement == Spec => []PassesAgree
<1>1. Inv => PassesAgree
  <2> SUFFICES ASSUME Inv, OneWidth(vm) PROVE PassesAgree
    BY DEF PassesAgree
  <2>1. Len(opAt) <= Len(rloc) /\ opAt \in Seq(Nat)
    <3>1. InputInv /\ Counters /\ Written
      BY DEF Inv
    <3>2. nodes \in Seq(Node) /\ Len(nodes) \in Nat /\ i \in 1..(Len(nodes) + 1)
      BY <3>1 DEF InputInv, Counters
    <3>3. opAt \in Seq(Nat) /\ rloc \in Seq(Nat)
      BY <3>1 DEF Counters, Written
    <3>4. CASE phase \in {"align", "layout"}
      BY <3>1, <3>3, <3>4 DEF Written
    <3>5. CASE phase \in {"write", "refused", "linked"}
      <4>1. Len(rloc) = Len(nodes)
        BY <3>1, <3>5 DEF Counters
      <4>2. Len(opAt) <= Len(nodes)
        BY <3>1, <3>2, <3>5 DEF Written
      <4> QED
        BY <3>3, <4>1, <4>2
    <3> QED
      BY <3>1, <3>4, <3>5 DEF InputInv, Written
  <2>2. ASSUME NEW k \in DOMAIN opAt PROVE opAt[k] = floc[k]
    <3>1. k \in 1..Len(opAt) /\ k \in 1..Len(rloc)
      BY <2>1 DEF Inv, Counters
    <3> QED
      BY <3>1 DEF Inv, Layout, Placed
  <2>3. phase = "linked" => pos = start + current
    BY DEF Inv, Placed
  <2> QED
    BY <2>2, <2>3 DEF PassesAgree
<1> QED
  BY <1>1, InvHolds, PTL

\* A jump whose distance an int16_t holds lands on its target, whatever both
\* passes padded on the way, on the machines of Agreement.
THEOREM JumpsLandInReach == Spec => []JumpsInReachLand
<1>1. Inv => JumpsInReachLand
  <2> SUFFICES ASSUME Inv, OneWidth(vm), phase = "linked", NEW k \in DOMAIN nodes,
                      IsJump(k), JumpDelta(k) \in Int16
               PROVE  Lands(k)
    BY DEF JumpsInReachLand
  <2> DEFINE w == WriteWidth(vm)
             t == Target(k)
             at == OperandAt(Laid(vm, nodes[k], w), rloc[k], w)
  <2>1. InputInv /\ Len(opAt) = Len(nodes) /\ Len(rloc) = Len(nodes)
    BY DEF Inv, Counters, Written
  <2>2. rloc \in Seq(Nat) /\ start \in Nat
    BY DEF Inv, Counters
  <2>3. k \in 1..Len(nodes) /\ k \in 1..Len(opAt) /\ vm \in VMs /\ nodes \in Seq(Node)
    BY <2>1 DEF InputInv
  <2>4. t \in 1..Len(opAt)
    BY <2>1, <2>2, <2>3, DeltaTyped
  <2>5. rloc[t] \in Nat /\ rloc[k] \in Nat
    BY <2>1, <2>2, <2>3, <2>4
  <2>6. opAt[t] = Up(w, start + rloc[t], 2)
    BY <2>4 DEF Inv, Placed
  <2>7. argAt[k] = start + at /\ delta[k] = AsInt16(JumpDelta(k))
    BY <2>3 DEF Inv, Placed
  <2>8. delta[k] = JumpDelta(k)
    BY <2>7, Int16Exact
  <2>9. nodes[k] \in Node /\ Legal(vm, nodes[k])
    BY <2>1, <2>3, NodesLegal
  <2>10. at \in Nat
    <3>1. 0 \in Nat
      OBVIOUS
    <3> QED
      BY <2>3, <2>5, <2>9, <3>1, NodeShift
  <2>11. ShiftSize(vm, nodes[k], rloc[k], w) = at + 2
    <3>1. Laid(vm, nodes[k], w).size = 2 /\ Laid(vm, nodes[k], w).tail = 0
      BY DEF Laid, Operand, Part, IsJump
    <3> HIDE DEF w
    <3>2. ShiftSize(vm, nodes[k], rloc[k], w) = at + Laid(vm, nodes[k], w).size + Laid(vm, nodes[k], w).tail
      BY DEF ShiftSize, EndOf
    <3> HIDE DEF at
    <3> QED
      BY <2>10, <3>1, <3>2
  <2>12. JumpDelta(k) = rloc[t] - (at + 2)
    BY <2>11 DEF JumpDelta
  <2> HIDE DEF at, t
  <2>13. argAt[k] + 2 + delta[k] = start + rloc[t]
    <3> DEFINE to == rloc[t]
    <3>1. to \in Nat /\ start \in Nat /\ at \in Nat
      BY <2>2, <2>5, <2>10
    <3>2. argAt[k] = start + at /\ delta[k] = to - (at + 2)
      BY <2>7, <2>8, <2>12
    <3> HIDE DEF to
    <3>3. argAt[k] + 2 + delta[k] = start + to
      BY <3>1, <3>2
    <3> QED
      BY <3>3 DEF to
  <2> QED
    BY <2>6, <2>13 DEF Lands, t
<1> QED
  BY <1>1, InvHolds, PTL

\* An address that was aligned stays where it is.
LEMMA UpTwice ==
    ASSUME NEW x \in Nat, NEW w \in {1, 2}
    PROVE  Up(w, x, 2) \in Nat /\ Up(w, Up(w, x, 2), 2) = Up(w, x, 2)
<1>1. Aligned(x, 2) \in Nat /\ Aligned(Aligned(x, 2), 2) = Aligned(x, 2)
  BY DEF Aligned
<1> QED
  BY <1>1 DEF Up

\* The operand of a node of a written function, by the location of its opcode.
LEMMA OperandFound ==
    ASSUME Inv, OneWidth(vm), phase = "linked", NEW k \in 1..Len(nodes),
           Put(vm, nodes[k]).ops = 1
    PROVE  /\ floc[k] \in Nat
           /\ argAt[k] = OperandAt(Put(vm, nodes[k]), floc[k], WriteWidth(vm))
           /\ Up(WriteWidth(vm), floc[k], 2) = floc[k]
<1> DEFINE w == WriteWidth(vm)
           n == nodes[k]
           x == rloc[k]
<1>1. /\ InputInv /\ vm \in VMs /\ k \in 1..Len(opAt) /\ k \in 1..Len(rloc)
      /\ rloc \in Seq(Nat) /\ start \in Nat
  BY DEF Inv, InputInv, Counters, Written
<1>2. PICK m \in Nat : start = 8 * m
  BY DEF Inv, Counters
<1>3. n \in Node /\ Legal(vm, n) /\ w \in {1, 2} /\ x \in Nat
  BY <1>1, NodesLegal, MachineFields
<1>4. argAt[k] = start + OperandAt(Laid(vm, n, w), x, w) /\ floc[k] = Up(w, start + x, 2)
  BY <1>1 DEF Inv, Layout, Placed
<1> HIDE DEF w, n, x
<1>5. OperandAt(Put(vm, n), 8 * m + x, w) = 8 * m + OperandAt(Laid(vm, n, w), x, w)
  BY <1>1, <1>3, NodeShift DEF w
<1>6. argAt[k] = OperandAt(Put(vm, n), start + x, w)
  BY <1>2, <1>4, <1>5
<1>7. start + x \in Nat
  BY <1>1, <1>3
<1>8. Up(w, start + x, 2) \in Nat /\ Up(w, Up(w, start + x, 2), 2) = Up(w, start + x, 2)
  BY <1>3, <1>7, UpTwice
<1>9. floc[k] \in Nat /\ Up(w, floc[k], 2) = floc[k]
  BY <1>4, <1>8
<1>10. OperandAt(Put(vm, n), floc[k], w) = OperandAt(Put(vm, n), start + x, w)
  <2> DEFINE p == Put(vm, n)
  <2>1. p.ops = 1
    BY DEF n
  <2> HIDE DEF p
  <2>2. OpcodeEnd(p, floc[k], w) = OpcodeEnd(p, start + x, w)
    BY <1>4, <1>9, <2>1 DEF OpcodeEnd
  <2> QED
    BY <2>2 DEF OperandAt, p
<1> QED
  BY <1>6, <1>9, <1>10 DEF w, n

\* The operand of a value is where its table says.
LEMMA ValueLinked ==
    ASSUME Inv, OneWidth(vm), phase = "linked", NEW k \in 1..Len(nodes), nodes[k].kind = "value"
    PROVE  GetDataFLoc(k) = argAt[k]
<1> DEFINE w == WriteWidth(vm)
           n == nodes[k]
           p == Part(1, 0, n.size, n.size, 0)
<1>1. vm \in VMs /\ n \in Node
  BY NodesLegal DEF Inv, InputInv
<1>2. n.size \in {1, 2, 4, 8} /\ w \in {1, 2}
  BY <1>1, MachineFields DEF Node
<1>3. Put(vm, n) = p /\ Laid(vm, n, w) = p
  BY DEF Put, Laid, Operand
<1>4. p.ops = 1 /\ p.lead = 0 /\ p.align = n.size /\ p.size = n.size /\ p.tail = 0
  BY DEF Part
<1> HIDE DEF w, n, p
<1>5. floc[k] \in Nat /\ argAt[k] = OperandAt(p, floc[k], w) /\ Up(w, floc[k], 2) = floc[k]
  BY <1>3, <1>4, OperandFound DEF w, n
<1>6. GetDataFLoc(k) = EndOf(p, floc[k], w) - n.size
  BY <1>3 DEF GetDataFLoc, ShiftSize, w, n
<1>7. EndOf(p, floc[k], w) = OperandAt(p, floc[k], w) + n.size + 0
  BY <1>4 DEF EndOf
<1>8. OperandAt(p, floc[k], w) = Up(w, floc[k] + w, n.size)
  BY <1>2, <1>4, <1>5 DEF OperandAt, OpcodeEnd
<1>9. Up(w, floc[k] + w, n.size) \in Nat
  <2>1. floc[k] + w \in Nat
    BY <1>2, <1>5
  <2> QED
    BY <1>2, <2>1, AlignedNat DEF Up
<1> QED
  BY <1>2, <1>5, <1>6, <1>7, <1>8, <1>9

\* So is the reference of a call, but for a builtin's with IW calls.
LEMMA CallLinked ==
    ASSUME Inv, OneWidth(vm), phase = "linked", NEW k \in 1..Len(nodes), nodes[k].kind = "call",
           nodes[k].op \notin Pointers, vm.iw => nodes[k].op # "Builtin"
    PROVE  ImportAt(k) = argAt[k]
<1> DEFINE w == WriteWidth(vm)
           op == nodes[k].op
           few == Byte(UseParams(vm, op) /\ (vm.align \/ vm.iw))
           size == DataSize(vm, op)
           p == Part(1, few, size, size, 0)
<1>1. vm \in VMs /\ nodes[k] \in Node
  BY NodesLegal DEF Inv, InputInv
<1>2. Put(vm, nodes[k]) = p
  BY DEF Put, PutCall, Pointers
<1>3. p.ops = 1 /\ p.lead = few /\ p.align = size
  BY DEF Part
<1>4. few \in Nat /\ w \in {1, 2}
  BY <1>1, MachineFields DEF Byte
<1> HIDE DEF w, few, size, p
<1>5. floc[k] \in Nat /\ argAt[k] = OperandAt(p, floc[k], w) /\ Up(w, floc[k], 2) = floc[k]
  BY <1>2, <1>3, OperandFound DEF w
<1>6. OperandAt(p, floc[k], w) = Up(w, floc[k] + w + few, size)
  BY <1>3, <1>5 DEF OperandAt, OpcodeEnd
<1>7. CASE vm.align
  <2>1. w = 2 /\ vm.u16 /\ ~vm.noParams
    BY <1>1, <1>7, MachineFields, MachinesAssumption DEF w, OneWidth, LayoutWidth, Width
  <2>2. size = 8
    BY <1>7 DEF size, DataSize
  <2>3. few = Byte(op \notin Getters /\ ~vm.noParams)
    BY <1>7, <2>1 DEF few, UseParams, Byte
  <2>4. ImportAt(k) = Aligned(floc[k] + 2 + few, 8)
    BY <1>7, <2>1, <2>3 DEF ImportAt, GetFLoc, Width
  <2> QED
    BY <1>5, <1>6, <2>1, <2>2, <2>4 DEF Up
<1>8. CASE ~vm.align
  <2>1. w = 1
    BY <1>1, <1>8, MachineFields DEF w
  <2>2. few = Byte(vm.iw /\ op \in {"Thread", "Builtin"})
    <3>1. vm.iw \in BOOLEAN
      BY <1>1, MachineFields
    <3>2. op # "ThreadPointer"
      BY DEF Pointers
    <3>3. CASE op \in {"Thread", "Builtin"}
      BY <1>8, <3>1, <3>3 DEF few, UseParams, Byte
    <3>4. CASE op \notin {"Thread", "Builtin"}
      BY <1>8, <3>1, <3>2, <3>4 DEF few, UseParams, Byte
    <3> QED
      BY <3>3, <3>4
  <2>3. ImportAt(k) = floc[k] + 1 + few
    <3>1. GetFLoc(k) = floc[k] + 1
      BY <1>8 DEF GetFLoc
    <3> QED
      BY <1>8, <2>2, <3>1 DEF ImportAt
  <2> QED
    BY <1>5, <1>6, <2>1, <2>3 DEF Up
<1> QED
  BY <1>7, <1>8

\* The linker writes over the operands and over nothing else, on the machines of
\* Agreement and but for the builtin calls of those with IW calls.
THEOREM LinksHitOperands == Spec => []OperandsLinked
<1>1. Inv => OperandsLinked
  <2> SUFFICES ASSUME Inv, OneWidth(vm), NEW k \in DOMAIN place, ~ShiftedByFLoc(k)
               PROVE  place[k] = argAt[k]
    BY DEF OperandsLinked
  <2>1. phase = "linked" /\ place = LinkTable
    BY DEF Inv, Tables
  <2>2. k \in 1..Len(nodes) /\ Linked(nodes[k])
    BY <2>1 DEF LinkTable, Inv, InputInv
  <2>3. place[k] = IF nodes[k].kind = "call" THEN ImportAt(k) ELSE GetDataFLoc(k)
    BY <2>1 DEF LinkTable
  <2>4. CASE nodes[k].kind = "call"
    <3>1. nodes[k] \in [kind: {"call"}, op: CallOps]
      BY <2>2, <2>4, NodesLegal DEF Inv, Node
    <3>2. vm.iw => nodes[k].op # "Builtin"
      BY <3>1 DEF ShiftedByFLoc
    <3>3. nodes[k].op \notin Pointers
      BY <2>2, <2>4 DEF Linked
    <3> QED
      BY <2>1, <2>2, <2>3, <2>4, <3>2, <3>3, CallLinked
  <2>5. CASE nodes[k].kind # "call"
    <3>1. nodes[k].kind = "value"
      BY <2>2, <2>5 DEF Linked
    <3> QED
      BY <2>1, <2>2, <2>3, <2>5, <3>1, ValueLinked
  <2> QED
    BY <2>4, <2>5
<1> QED
  BY <1>1, InvHolds, PTL
=============================================================================
