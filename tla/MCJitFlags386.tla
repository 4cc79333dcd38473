--------------------------- MODULE MCJitFlags386 ----------------------------
(* JitFlags386 with the rows of the translator's tables: every sequence of   *)
(* up to three instructions out of one per kind of row, over three of the    *)
(* status flags (the flags of a row do not influence each other).            *)
EXTENDS JitFlags386, JitEffects386

MCBits == {"CF", "OF", "AF"}

MCInsns ==
    {i \in Insn :
        \/ i.op \in {"mov", "inc", "imul", "jmp"}
        \/ i.op = "alu" /\ i.sel \in {0, 2, 4}
        \/ i.op = "shift" /\ i.sel \in {0, 4, 7} /\ i.count \in {1, 2}
        \/ i.op = "jcc" /\ i.cc \in {2, 6, 12}}
MCTerms == {i \in MCInsns : i.op \in {"jcc", "jmp"}}

Restricted(e) == [x \in DOMAIN e |-> e[x] \cap Bits]
MCEffectOf == [i \in MCInsns |-> Restricted(classify_body(i))]
=============================================================================
