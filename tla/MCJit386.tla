------------------------------ MODULE MCJit386 ------------------------------
(* Small instances of Jit386: pages of three bytes, a one-byte register     *)
(* instruction, a two-byte conditional branch and an instruction that       *)
(* stores; two code segments that reach the same bytes at different EIPs.   *)
EXTENDS Jit386

MCInsnLen == [p \in Byte \X Ctx |-> IF p[1] = "jcc" THEN 2 ELSE 1]
MCKind == [b \in Byte |-> IF b \in {"body", "jcc"} THEN b ELSE "other"]
MCHot == {b \in Byte : MCKind[b] # "other"}

\* Displacement bytes: any byte can follow the branch opcode.
MCRel == [b \in Byte |-> IF b = "body" THEN PhysSize - 3 ELSE PhysSize - 2]

Flat(base, ctx) == [base |-> base, limit |-> PhysSize - 1, ctx |-> ctx]
MCFlat == {Flat(0, "d32"), Flat(1, "d32"), Flat(0, "d16")}
At(c, e) == [cs |-> c, eip |-> e]
MCPlaces == {At(Flat(0, "d32"), 0), At(Flat(1, "d32"), 0), At(Flat(0, "d16"), 0)}
MCResetPlace == At(Flat(0, "d32"), 0)

\* Straight code that runs into the second page, and there a loop of two
\* instructions that falls out to the start.
Code(s) == [a \in RamAddr |-> s[a + 1]]
MCPrograms == {Code(<<"body", "body", "body", "body", "jcc", "body">>)}

\* A store into the loop, which is not in the page of the code before it.
MCStores == {[addr |-> 3, width |-> 1, val |-> "other"]}
=============================================================================
