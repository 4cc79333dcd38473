------------------------------ MODULE Fetch386 ------------------------------
(***************************************************************************)
(* Instruction fetch of the 80386 core, as pure operators: how an address  *)
(* reaches a byte of RAM, what the bytes at CS:EIP decode to, and what a   *)
(* store changes.                                                          *)
(*                                                                         *)
(* Data abstraction: a byte is a member of Byte; how long an instruction   *)
(* is depends on its first byte and on the decode context (CS.D, CR0.PE,   *)
(* EFLAGS.VM, `extensions`), and its decode products are those bytes       *)
(* together with that context, the finest abstraction a decoder can have.  *)
(* Paging is off here: linear and physical addresses coincide.             *)
(***************************************************************************)
EXTENDS Integers

CONSTANTS
    PageSize,     \* bytes per page (4096)
    PhysPages,    \* pages of the physical address space (2^20)
    RamPages,     \* pages behind the bus; LinearMemory wraps (4096 pages)
    Byte,         \* byte values
    Ctx,          \* decode contexts (icache_ctx)
    MaxInsnLen,   \* longest instruction
    InsnLen,      \* length of the instruction that starts with a byte
    Hot,          \* first bytes of the hot (decoupled-decode) subset
    Widths,       \* widths of a guest store, in bytes (1, 2, 4)
    CodeSegment   \* the CS base, limit and decode context far transfers load

PhysSize == PageSize * PhysPages
RamSize == PageSize * RamPages
Phys == 0 .. PhysSize - 1
RamAddr == 0 .. RamSize - 1

ASSUME SizeAssumption ==
    /\ PageSize \in Nat \ {0}
    /\ PhysPages \in Nat \ {0}
    /\ RamPages \in Nat \ {0}
ASSUME CodeAssumption ==
    /\ Byte # {}
    /\ Ctx # {}
    /\ MaxInsnLen \in Nat \ {0}
    /\ InsnLen \in [Byte \X Ctx -> 1 .. MaxInsnLen]
    /\ Hot \subseteq Byte
ASSUME SegmentAssumption ==
    /\ Widths \subseteq 1 .. PageSize
    /\ CodeSegment \subseteq [base : Phys, limit : Phys, ctx : Ctx]

-----------------------------------------------------------------------------
\* Bus for LinearMemory: the 16 MiB RAM wraps under the 32-bit address.
RamIndex(phys) == phys % RamSize

\* wrapping_add on the address width.
Wrap(a) == a % PhysSize

\* The linear (here: physical) address of the byte at CS:off.
CodeAddr(c, off) == Wrap(c.base + off)

\* The i-th byte of the instruction at CS:off, fetched through the bus.
CodeByte(m, c, off, i) == m[RamIndex(CodeAddr(c, Wrap(off + i)))]

LengthAt(m, c, off) == InsnLen[<<CodeByte(m, c, off, 0), c.ctx>>]

\* fetch_check on each of the n bytes from off.
InLimit(c, off, n) == \A i \in 0 .. n - 1 : Wrap(off + i) <= c.limit

\* The decode products of the instruction at CS:off.
Decode(m, c, off) ==
    LET n == LengthAt(m, c, off) IN
    [ctx |-> c.ctx, len |-> n,
     bytes |-> [i \in 0 .. n - 1 |-> CodeByte(m, c, off, i)]]

GP == [vector |-> 13]

\* No byte of the instruction at CS:off lies beyond the CS limit.
FetchOk(m, c, off) == InLimit(c, off, 1) /\ InLimit(c, off, LengthAt(m, c, off))

\* What the interpreter that re-fetches every byte executes at CS:off.
FusedStep(m, c, off) ==
    IF FetchOk(m, c, off) THEN Decode(m, c, off) ELSE GP

\* What an instruction stores: `width` bytes of `val` at `addr`.
Store == [addr : Phys, width : Widths, val : Byte]

\* RAM after the bytes of st went through the bus, one by one.
StoreBytes(m, st) ==
    [x \in RamAddr |->
        IF \E i \in 0 .. st.width - 1 : x = RamIndex(Wrap(st.addr + i))
        THEN st.val ELSE m[x]]

DecodedInsn ==
    UNION {[ctx : Ctx, len : {n}, bytes : [0 .. n - 1 -> Byte]] :
              n \in 1 .. MaxInsnLen}

=============================================================================
