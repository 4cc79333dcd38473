---------------------------- MODULE MCICache386 -----------------------------
(* Small instances of ICache386: two pages of two bytes, one- and two-byte  *)
(* instructions, one cache entry, two code segments over the same bytes.    *)
EXTENDS ICache386

\* Byte 0 starts a one-byte instruction, byte 1 a two-byte one in context
\* "d32" and a one-byte one in "d16".
MCInsnLen == [p \in Byte \X Ctx |-> IF p = <<1, "d32">> THEN 2 ELSE 1]

\* The flat 32-bit segment, the same one with a shrunken limit, and a 16-bit
\* segment whose base makes one physical byte answer to two values of EIP.
MCCodeSegment ==
    {[base |-> 0, limit |-> 3, ctx |-> "d32"],
     [base |-> 0, limit |-> 0, ctx |-> "d32"],
     [base |-> 1, limit |-> 2, ctx |-> "d16"]}

MCResetSegment == [base |-> 0, limit |-> 3, ctx |-> "d32"]
=============================================================================
