------------------------------ MODULE MCAlu386 -------------------------------
(* The 8-bit primitives on every single operand, every packed decimal byte   *)
(* and every comparison; pairs and divisions on the boundary values.  Shift   *)
(* counts stop at 22 so that no intermediate value passes 2^31.              *)
EXTENDS AluCheck386

Edges == {0, 1, 15, 16, 127, 128, 254, 255}
Divisors == Edges \cup {2, 3, 7, 100, 129, 200}
EdgePairs == {Pair(h, l) : h, l \in Edges}
Digits == {v \in Word : v % 16 < 10 /\ v \div 16 < 10}

\* Some primitives read CF or AF.
NoFlags == [fl \in Flag |-> FALSE]
CarryOrNot == {[NoFlags EXCEPT !["CF"] = c] : c \in BOOLEAN}

Runs(xs, ys, ns, fs, is) ==
    {[x |-> xx, y |-> yy, n |-> nn, f |-> ff, i |-> ii] :
        xx \in xs, yy \in ys, nn \in ns, ff \in fs, ii \in is}
Unused == {[op |-> "mov"]}
On(xs, ys, fs) == Runs(xs, ys, {0}, fs, Unused)

Counts == {0, 1, 2, 3, 7, 8, 9, 10, 16, 17, 18, 22, 32, 33}

InputsOf(p) ==
    CASE p \in {"add", "sub"} -> On(EdgePairs, EdgePairs, CarryOrNot)
      [] p \in {"neg", "shl", "shr", "sar"} -> On({Pair(h, l) : h \in Word, l \in Edges}, {0}, CarryOrNot)
      [] p = "cmp" -> On(Word, Word, {NoFlags})
      [] p = "incdec" -> On(Word, {0}, CarryOrNot)
      [] p \in {"shln", "shrn", "sarn", "roln", "rorn", "rcln"} ->
           Runs(Word, {0}, Counts, CarryOrNot, Unused)
      [] p \in {"mul", "imul", "imultrunc"} -> On(Word, Divisors, {NoFlags})
      [] p \in {"div", "idiv"} ->
           On({Pair(h, l) : h \in Word, l \in Edges}, Divisors, {NoFlags})
      [] p \in {"daa", "das"} -> On(Digits, Digits, CarryOrNot)
      [] p \in {"aaa", "aas"} ->
           On({Pair(h, l) : h \in {0, 5, 255}, l \in 0 .. 9}, 0 .. 9, CarryOrNot)
      [] p = "aam" -> On(Word, {0, 2, 10, 16}, {NoFlags})
      [] p = "insn" -> Runs(Edges, {1, 128, 255}, {0}, Flags, Insn)

MCInputs ==
    [p \in {"add", "sub", "neg", "shl", "shr", "sar", "cmp", "incdec",
            "shln", "shrn", "sarn", "roln", "rorn", "rcln", "mul", "imul", "imultrunc",
            "div", "idiv", "daa", "das", "aaa", "aas", "aam", "insn"} |-> InputsOf(p)]
=============================================================================
