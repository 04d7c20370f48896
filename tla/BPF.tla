--------------------------------- MODULE BPF ---------------------------------
(***************************************************************************)
(* The three filters a packet may meet in the driver: bpf_filter when      *)
(* header and lookahead buffer are contiguous, the code of BPF_jitter in   *)
(* its place on 32-bit machines, bpf_filter_with_2_buffers otherwise.  All *)
(* execute a program bpf_validate accepted; which one runs depends on how  *)
(* the network card hands over the packet, so they have to agree.  The     *)
(* driver of Windows 9x has older copies of the first and the last; a      *)
(* program written for one driver is given to the other.                   *)
(*                                                                         *)
(* Jumps only go forward, so an instruction is executed at most once: the  *)
(* model chooses it when it is reached, which covers every program.  A     *)
(* byte has two bits here, a short two bytes and a word four.              *)
(***************************************************************************)
EXTENDS Integers, Sequences, Bitwise

CONSTANTS
  ProgramLength,  \* instructions of a program
  Immediates,     \* values of k, as words
  Jumps,          \* values of jt and jf
  MemWords        \* BPF_MEMWORDS

VARIABLE bpf      \* the packet and the state of the filters

ByteValues == 4
Word == 256
Sizes == {1, 2, 4}

(* (int)w                                                                  *)
Signed(w) == IF w < Word \div 2 THEN w ELSE w - Word

(* What a filter ends with besides a number of bytes: it used a value that *)
(* nothing defines, or the compiler refused the program.                   *)
Running == -1
Undefined == -2
Refused == -3

-----------------------------------------------------------------------------
(* Instructions, as records; a field an instruction does not use is 0.     *)

Insn(class, op, src, n, k, jt, jf) ==
  [class |-> class, op |-> op, src |-> src, n |-> n, k |-> k, jt |-> jt, jf |-> jf]

Conditions == {"jgt", "jge", "jeq", "jset"}
AluOps == {"add", "sub", "mul", "div", "and", "or", "lsh", "rsh"}
Operands == {[src |-> "k", k |-> k] : k \in Immediates} \cup {[src |-> "x", k |-> 0]}

valid_instructions ==
  {Insn("ret", "k", "k", 0, k, 0, 0) : k \in Immediates} \cup {Insn("ret", "a", "a", 0, 0, 0, 0)}
  \cup {Insn("ld", op, "k", n, k, 0, 0) : op \in {"abs", "ind"}, n \in Sizes, k \in Immediates}
  \cup {Insn("ldx", "abs", "k", n, 0, 0, 0) : n \in Sizes}
  \cup {Insn("ldx", "msh", "k", 1, k, 0, 0) : k \in Immediates}
  \cup {Insn(c, op, "k", 4, k, 0, 0) : c \in {"ld", "ldx"}, op \in {"imm", "mem"}, k \in Immediates}
  \cup {Insn(c, "len", "k", 4, 0, 0, 0) : c \in {"ld", "ldx"}}
  \cup {Insn(c, "mem", "k", 4, k, 0, 0) : c \in {"st", "stx"}, k \in Immediates}
  \cup {Insn("jmp", "ja", "k", 0, k, 0, 0) : k \in Immediates}
  \cup {Insn("jmp", op, o.src, 0, o.k, jt, jf) :
          op \in Conditions, o \in Operands, jt \in Jumps, jf \in Jumps}
  \cup {Insn("alu", op, o.src, 0, o.k, 0, 0) : op \in AluOps, o \in Operands}
  \cup {Insn("alu", "neg", "k", 0, 0, 0, 0)}
  \cup {Insn("misc", op, "k", 0, 0, 0, 0) : op \in {"tax", "txa"}}

InRange(ins, at, len) ==
  LET from == at + 1
  IN IF ins.op = "ja"
     THEN ~((from + ins.k) % Word < from \/ (from + ins.k) % Word >= len)
     ELSE ~(from + ins.jt >= len \/ from + ins.jf >= len)

(* bpf_validate: what it requires of the instruction at position at.       *)
bpf_validate(ins, at, len) ==
  /\ ins \in valid_instructions
  /\ ins.op = "mem" => ins.k < MemWords
  /\ ins.op = "div" /\ ins.src = "k" => ins.k # 0
  /\ ins.class = "jmp" => InRange(ins, at, len)
  /\ at = len - 1 => ins.class = "ret"

(* The older bpf_validate does not look the instruction up in the table:   *)
(* it also takes one that no filter has a case for.                        *)
UnknownInsn == Insn("misc", "unknown", "k", 0, 0, 0, 0)

VxdValidate(ins, at, len) ==
  \/ bpf_validate(ins, at, len)
  \/ ins = UnknownInsn /\ at # len - 1

-----------------------------------------------------------------------------
(* What they have in common.                                               *)

RECURSIVE Extract(_)
Extract(bytes) ==
  IF bytes = << >> THEN 0
  ELSE bytes[Len(bytes)] + ByteValues * Extract(SubSeq(bytes, 1, Len(bytes) - 1))

Fresh(unset) ==
  [pc |-> 0, A |-> unset, X |-> unset, mem |-> [i \in 0..(MemWords - 1) |-> unset],
   res |-> Running]

(* The registers and the memory are gone.                                  *)
Ends(r, value) == [Fresh(0) EXCEPT !.pc = r.pc, !.res = value]
Next1(r) == [r EXCEPT !.pc = @ + 1]
SetA(r, value) == [Next1(r) EXCEPT !.A = value]
SetX(r, value) == [Next1(r) EXCEPT !.X = value]
Store(r, ins, value) == [Next1(r) EXCEPT !.mem[ins.k] = value]

(* A value read before it was written.                                     *)
Uses(r, value, then) == IF value = Undefined THEN Ends(r, Undefined) ELSE then

Operand(r, ins) == IF ins.src = "x" THEN r.X ELSE ins.k

(* The processor takes the shift count modulo the bits of a word.          *)
ShiftBy(b) == 2 ^ (b % 8)

Arithmetic(op, a, b) ==
  CASE op = "add" -> (a + b) % Word
    [] op = "sub" -> (a - b) % Word
    [] op = "mul" -> (a * b) % Word
    [] op = "div" -> a \div b
    [] op = "and" -> a & b
    [] op = "or"  -> a | b
    [] op = "lsh" -> (a * ShiftBy(b)) % Word
    [] op = "rsh" -> a \div ShiftBy(b)
    [] op = "neg" -> (-a) % Word

Alu(r, ins) ==
  LET b == Operand(r, ins)
  IN Uses(r, r.A, Uses(r, b,
       IF ins.op = "div" /\ b = 0 THEN Ends(r, 0)
       ELSE SetA(r, Arithmetic(ins.op, r.A, b))))

(* The index of the packet a load refers to.                               *)
LoadAt(r, ins) == IF ins.op = "ind" THEN (r.X + ins.k) % Word ELSE ins.k

(* What a load does with the value: BPF_MSH takes the length field of an   *)
(* IP header, the low half of a byte, in words.                            *)
Loaded(r, ins, value) ==
  IF ins.op = "msh" THEN SetX(r, (value % 2) * 4) ELSE SetA(r, value)

-----------------------------------------------------------------------------
(* bpf_filter.                                                             *)

OneBuffer(r, ins, pkt) ==
  LET k == LoadAt(r, ins)
      out == k >= Len(pkt) \/ (ins.n > 1 /\ (k + ins.n) % Word > Len(pkt))
  IN IF out THEN Ends(r, 0) ELSE Loaded(r, ins, Extract(SubSeq(pkt, k + 1, k + ins.n)))

(* As if the interpreter compared without sign.                            *)
CompareUnsigned(op, src, a, b) ==
  CASE op = "jgt" -> a > b
    [] op = "jge" -> a >= b
    [] op = "jeq" -> a = b
    [] op = "jset" -> (a & b) # 0

(* JGT and JGE compare as int with a constant, unsigned with X.            *)
Compare(op, src, a, b) ==
  CASE op = "jgt" -> IF src = "k" THEN Signed(a) > Signed(b) ELSE a > b
    [] op = "jge" -> IF src = "k" THEN Signed(a) >= Signed(b) ELSE a >= b
    [] op = "jeq" -> a = b
    [] op = "jset" -> (a & b) # 0

Jump(r, ins) ==
  IF ins.op = "ja" THEN [r EXCEPT !.pc = @ + 1 + ins.k]
  ELSE Uses(r, r.A, Uses(r, Operand(r, ins),
         [r EXCEPT !.pc = @ + 1 + (IF Compare(ins.op, ins.src, r.A, Operand(r, ins))
                                     THEN ins.jt ELSE ins.jf)]))

Moves(r, ins, wirelen) ==
  CASE ins.op = "len" -> IF ins.class = "ld" THEN SetA(r, wirelen) ELSE SetX(r, wirelen)
    [] ins.op = "imm" -> IF ins.class = "ld" THEN SetA(r, ins.k) ELSE SetX(r, ins.k)
    [] ins.op = "tax" -> SetX(r, r.A)
    [] ins.op = "txa" -> SetA(r, r.X)
    [] ins.op = "mem" ->
         CASE ins.class = "ld" -> SetA(r, r.mem[ins.k])
           [] ins.class = "ldx" -> SetX(r, r.mem[ins.k])
           [] ins.class = "st" -> Store(r, ins, r.A)
           [] ins.class = "stx" -> Store(r, ins, r.X)

Returns(r, ins) == Uses(r, IF ins.op = "a" THEN r.A ELSE 0,
                        Ends(r, IF ins.op = "a" THEN r.A ELSE ins.k))

IsLoad(ins) == ins.op \in {"abs", "ind", "msh"}

(* No case for ldx abs, which bpf_validate accepts: the default returns 0. *)
NoCase(ins) == ins.class = "ldx" /\ ins.op = "abs"

bpf_filter(r, ins, pkt) ==
  CASE ins.class = "ret" -> Returns(r, ins)
    [] NoCase(ins) -> Ends(r, 0)
    [] IsLoad(ins) /\ ~NoCase(ins) -> OneBuffer(r, ins, pkt)
    [] ins.class = "jmp" -> Jump(r, ins)
    [] ins.class = "alu" -> Alu(r, ins)
    [] OTHER -> Moves(r, ins, Len(pkt))

-----------------------------------------------------------------------------
(* bpf_filter_with_2_buffers: h bytes in the header buffer, the rest in    *)
(* the lookahead buffer; k is an int, and each load tests it its own way.  *)

TwoBufferOut(k, ins, len) ==
  LET s == Signed(k)
  IN CASE ins.n = 4 /\ ins.op = "abs" -> s + 4 > len
       [] ins.n = 4 /\ ins.op = "ind" -> (k + 4) % Word > len
       [] ins.n = 2 /\ ins.op = "abs" -> (k + 2) % Word > len
       [] ins.n = 2 /\ ins.op = "ind" -> s + 2 > len
       [] ins.n = 1 -> s >= len

(* Index in the lookahead buffer of the i-th byte of a load at k: when the *)
(* load straddles, the code counts from k-h again, except for a word with  *)
(* one byte in the header buffer.                                          *)
LookaheadIndex(k, n, h, i) ==
  IF k >= h \/ (n = 4 /\ k + 1 = h) THEN k - h + i ELSE k - h + i - (h - k)

(* A byte, or Undefined when the index lies outside its buffer.            *)
TwoBufferByte(k, n, h, i, pkt) ==
  IF k + n <= h \/ k + i < h
  THEN IF k + i \in 0..(h - 1) THEN pkt[k + i + 1] ELSE Undefined
  ELSE LET j == LookaheadIndex(k, n, h, i)
       IN IF j \in 0..(Len(pkt) - h - 1) THEN pkt[h + j + 1] ELSE Undefined

TwoBuffers(r, ins, pkt, h) ==
  LET k == LoadAt(r, ins)
      bytes == [i \in 1..ins.n |-> TwoBufferByte(Signed(k), ins.n, h, i - 1, pkt)]
  IN CASE TwoBufferOut(k, ins, Len(pkt)) -> Ends(r, 0)
       [] ~TwoBufferOut(k, ins, Len(pkt)) ->
            IF \E i \in 1..ins.n : bytes[i] = Undefined THEN Ends(r, Undefined)
            ELSE Loaded(r, ins, Extract(bytes))

bpf_filter_with_2_buffers(r, ins, pkt, h) ==
  IF IsLoad(ins) /\ ~NoCase(ins) THEN TwoBuffers(r, ins, pkt, h)
                                 ELSE bpf_filter(r, ins, pkt)

-----------------------------------------------------------------------------
(* The code of BPFtoX86: A in EAX and X in EDX, neither set on entry, and  *)
(* mem, allocated once by BPF_jitter and never cleared.                    *)

(* cmp k, buflen; ja out; k + n; cmp; jbe in  -  one byte: cmp; jb in.     *)
JitOut(k, n, len) ==
  IF n = 1 THEN k >= len ELSE k > len \/ (k + n) % Word > len

JitLoad(r, ins, pkt) ==
  LET k == LoadAt(r, ins)
  IN IF ins.op = "ind" /\ r.X = Undefined THEN Ends(r, Undefined)
     ELSE IF JitOut(k, ins.n, Len(pkt)) THEN Ends(r, 0)
     ELSE Loaded(r, ins, Extract(SubSeq(pkt, k + 1, k + ins.n)))

(* cmp or and sets the flags; jg and jge look at the sign, ja and jae do   *)
(* not; for jset the jump on zero goes to jf.                              *)
JitJump(r, ins) ==
  LET b == Operand(r, ins)
      taken == CASE ins.src = "k" /\ ins.op = "jgt" -> Signed(r.A) > Signed(b)
                 [] ins.src = "k" /\ ins.op = "jge" -> Signed(r.A) >= Signed(b)
                 [] ins.src = "x" /\ ins.op = "jgt" -> r.A > b
                 [] ins.src = "x" /\ ins.op = "jge" -> r.A >= b
                 [] ins.op = "jeq" -> r.A = b
                 [] ins.op = "jset" -> ~((r.A & b) = 0)
  IN IF ins.op = "ja" THEN [r EXCEPT !.pc = @ + 1 + ins.k]
     ELSE Uses(r, r.A, Uses(r, b,
            [r EXCEPT !.pc = @ + 1 + (IF taken THEN ins.jt ELSE ins.jf)]))

BPFtoX86(r, ins, pkt) ==
  CASE NoCase(ins) -> Ends(r, Refused)
    [] ins.class = "ret" -> Returns(r, ins)
    [] IsLoad(ins) /\ ~NoCase(ins) -> JitLoad(r, ins, pkt)
    [] ins.class = "jmp" -> JitJump(r, ins)
    [] ins.class = "alu" -> Alu(r, ins)
    [] OTHER -> Moves(r, ins, Len(pkt))

-----------------------------------------------------------------------------
(* The filters of the VxD: A and X are cleared, mem is not; the sum in the *)
(* test of a word or a short may wrap, the index of a byte is compared     *)
(* with its sign.                                                          *)

Fresh9x == [Fresh(Undefined) EXCEPT !.A = 0, !.X = 0]

VxdOut(k, n, len) == IF n = 1 THEN Signed(k) >= len ELSE (k + n) % Word > len

VxdOneBuffer(r, ins, pkt) ==
  LET k == LoadAt(r, ins)
  IN IF VxdOut(k, ins.n, Len(pkt)) THEN Ends(r, 0)
     ELSE IF Signed(k) \in 0..(Len(pkt) - ins.n)
          THEN Loaded(r, ins, Extract(SubSeq(pkt, k + 1, k + ins.n)))
          ELSE Ends(r, Undefined)

(* A word or a short is taken from the lookahead buffer in the end, even   *)
(* when it has just been taken from the header buffer.                     *)
VxdTwoBuffers(r, ins, pkt, h) ==
  LET k == LoadAt(r, ins)
      first == IF ins.n = 1 THEN 0 ELSE h
  IN IF VxdOut(k, ins.n, Len(pkt)) THEN Ends(r, 0)
     ELSE IF Signed(k) \in first..(Len(pkt) - ins.n)
          THEN Loaded(r, ins, Extract(SubSeq(pkt, k + 1, k + ins.n)))
          ELSE Ends(r, Undefined)

VxdFilter(r, ins, pkt) ==
  CASE ins = UnknownInsn -> Ends(r, 0)
    [] IsLoad(ins) /\ ~NoCase(ins) -> VxdOneBuffer(r, ins, pkt)
    [] ins.op = "mem" -> LET value == r.mem[ins.k]
                         IN IF ins.class \in {"ld", "ldx"} THEN Uses(r, value, Moves(r, ins, Len(pkt)))
                            ELSE Moves(r, ins, Len(pkt))
    [] OTHER -> bpf_filter(r, ins, pkt)

VxdFilterWith2Buffers(r, ins, pkt, h) ==
  IF IsLoad(ins) /\ ~NoCase(ins) THEN VxdTwoBuffers(r, ins, pkt, h) ELSE VxdFilter(r, ins, pkt)

-----------------------------------------------------------------------------
(* A packet, the bytes of it in the header buffer, and the filters ready.  *)
Filtering(pkt, h) ==
  [pkt |-> pkt, h |-> h, one |-> Fresh(0), two |-> Fresh(0), jit |-> Fresh(Undefined),
   one9x |-> Fresh9x, two9x |-> Fresh9x]

NoFiltering ==
  [Filtering(<< >>, 0) EXCEPT !.one.res = 0, !.two.res = 0, !.jit.res = 0,
                              !.one9x.res = 0, !.two9x.res = 0]

Advance(r, then) == IF r.res = Running THEN then ELSE r

(* The next instruction, in each filter that is still on its way.          *)
BPFStep ==
  /\ bpf.one.res = Running
  /\ \E ins \in valid_instructions \cup {UnknownInsn} :
       /\ VxdValidate(ins, bpf.one.pc, ProgramLength)
       /\ LET InDriver(r, then) ==
                IF bpf_validate(ins, bpf.one.pc, ProgramLength) THEN Advance(r, then)
                                                                ELSE Ends(r, Refused)
          IN bpf' = [bpf EXCEPT
               !.one = InDriver(@, bpf_filter(@, ins, bpf.pkt)),
               !.two = InDriver(@, bpf_filter_with_2_buffers(@, ins, bpf.pkt, bpf.h)),
               !.jit = InDriver(@, BPFtoX86(@, ins, bpf.pkt)),
               !.one9x = Advance(@, VxdFilter(@, ins, bpf.pkt)),
               !.two9x = Advance(@, VxdFilterWith2Buffers(@, ins, bpf.pkt, bpf.h))]

(* A validated program ends inside itself, and the answer for a packet     *)
(* does not depend on the filter, as long as the filter uses no value that *)
(* nothing defines: a register or memory word that it did not set, a byte  *)
(* before a buffer that an index refers to which is negative as int, or    *)
(* that a load of a filter with two buffers refers to.                     *)
Agrees(r) == r.res # Undefined => r.res = bpf.one.res /\ r.pc = bpf.one.pc

FiltersAgree ==
  /\ bpf.one.res = Running => bpf.one.pc < ProgramLength
  /\ bpf.one.res # Refused => Agrees(bpf.two) /\ Agrees(bpf.one9x) /\ Agrees(bpf.two9x)
  /\ bpf.jit.res # Refused => Agrees(bpf.jit)
=============================================================================
