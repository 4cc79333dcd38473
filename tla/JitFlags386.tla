----------------------------- MODULE JitFlags386 ----------------------------
(***************************************************************************)
(* The flag analysis of the 80386 JIT's translator (pass 2 of jit_plan,    *)
(* x86_32/jit/emit.rs) and what it is for: the emitted block keeps the     *)
(* guest's status flags in the host's EFLAGS and writes them to            *)
(* regs.eflags only when it is left (emit_materialize).                    *)
(*                                                                         *)
(* A run first analyses a candidate sequence, then executes the block it   *)
(* plans, with the flags of the host beside those the interpreter would    *)
(* have (`ref`).  An instruction is known by its row of the translator's   *)
(* tables; JitEffects386 checks the rows.                                  *)
(***************************************************************************)
EXTENDS Naturals, Sequences

CONSTANTS
    Bits,             \* the status flags
    Insns,            \* translatable instructions
    Terms,            \* those that end a block (Jcc, JMP)
    EffectOf,         \* instruction -> its FlagEffect
    MAX_BLOCK_INSNS   \* longest block

FlagEffect ==
    [exact : SUBSET Bits, const0 : SUBSET Bits, const1 : SUBSET Bits,
     garbage : SUBSET Bits, reads : SUBSET Bits]
FlagState ==
    [exact : SUBSET Bits, const0 : SUBSET Bits, const1 : SUBSET Bits,
     garbage : SUBSET Bits]

Touched(s) == s.exact \cup s.const0 \cup s.const1 \cup s.garbage

\* No flag is claimed twice.
Disjoint(s) ==
    /\ s.exact \cap (s.const0 \cup s.const1 \cup s.garbage) = {}
    /\ s.const0 \cap (s.const1 \cup s.garbage) = {}
    /\ s.const1 \cap s.garbage = {}

ASSUME FlagAssumption ==
    /\ Terms \subseteq Insns
    /\ EffectOf \in [Insns -> FlagEffect]
    /\ \A i \in Insns : Disjoint(EffectOf[i])
    /\ MAX_BLOCK_INSNS \in Nat \ {0}

VARIABLES
    phase,    \* "plan", "run", "none" (no block), "done" (the block was left)
    cands,    \* the candidates of pass 1
    seen,     \* how many of them pass 2 has accepted
    sims,     \* the flag state after each of them
    cut,      \* the length of the block so far
    loops,    \* the block ends in a branch to its own head
    k,        \* instructions executed in this iteration
    eflags,   \* regs.eflags
    host,     \* the host's flags
    ref       \* the flags the interpreter would have

vars == <<phase, cands, seen, sims, cut, loops, k, eflags, host, ref>>
planVars == <<cands, seen, sims, cut>>

FlagValues == [Bits -> BOOLEAN]
NoState == [exact |-> {}, const0 |-> {}, const1 |-> {}, garbage |-> {}]

\* One instruction over a flag state.
Apply(s, e) ==
    [exact   |-> (s.exact \ Touched(e)) \cup e.exact,
     const0  |-> (s.const0 \ Touched(e)) \cup e.const0,
     const1  |-> (s.const1 \ Touched(e)) \cup e.const1,
     garbage |-> (s.garbage \ Touched(e)) \cup e.garbage]

\* Mutant: a flag the block has not written yet is taken to be readable.
ReadableUnlessGarbage(e, s) == e.reads \cap s.garbage = {}

\* A consumer may only run where the flags it reads are exact.
Readable(e, s) == e.reads \subseteq s.exact

\* A block may only end where no flag is garbage.
MayEnd(s) == s.garbage = {}

-----------------------------------------------------------------------------
Init ==
    /\ phase = "plan"
    /\ cands \in UNION {[1 .. n -> Insns] : n \in 1 .. MAX_BLOCK_INSNS}
    /\ \A i \in 1 .. Len(cands) - 1 : cands[i] \notin Terms
    /\ seen = 0
    /\ sims = [i \in 0 .. MAX_BLOCK_INSNS |-> NoState]
    /\ cut = 0
    /\ loops = FALSE
    /\ k = 0
    /\ eflags = [b \in Bits |-> FALSE]
    /\ host = eflags
    /\ ref = eflags

\* The effect of the next candidate, and the state before it.
NextEffect == EffectOf[cands[seen + 1]]
Acceptable == seen < Len(cands) /\ Readable(NextEffect, sims[seen])

\* One round of the forward simulation.
Analyse ==
    /\ phase = "plan"
    /\ Acceptable
    /\ LET s == Apply(sims[seen], NextEffect)
       IN  /\ sims' = [sims EXCEPT ![seen + 1] = s]
           /\ cut' = IF MayEnd(s) THEN seen + 1 ELSE cut
    /\ seen' = seen + 1
    /\ UNCHANGED <<phase, cands, loops, k, eflags, host, ref>>

\* The simulation is over and no prefix can be a block.
GiveUp ==
    /\ phase = "plan"
    /\ ~Acceptable
    /\ cut = 0
    /\ phase' = "none"
    /\ UNCHANGED <<planVars, loops, k, eflags, host, ref>>

\* The block is emitted and, at some time, entered: the guest's flags are in
\* regs.eflags and the host's flags are whatever the prologue left.
Enter ==
    /\ phase = "plan"
    /\ ~Acceptable
    /\ cut > 0
    /\ phase' = "run"
    /\ loops' \in BOOLEAN
    /\ loops' => cands[cut] \in Terms
    /\ k' = 0
    /\ eflags' \in FlagValues
    /\ ref' = eflags'
    /\ host' \in FlagValues
    /\ UNCHANGED planVars

Agree(e) == \A b \in e.reads : host[b] = ref[b]

\* The interpreter's flags after an instruction ...
RefStep(e) ==
    /\ ref' \in FlagValues
    /\ \A b \in Bits \ Touched(e) : ref'[b] = ref[b]
    /\ \A b \in e.const0 : ~ref'[b]
    /\ \A b \in e.const1 : ref'[b]

\* ... and the host's: it computes the exact ones, from flags that agree.
HostStep(e) ==
    /\ host' \in FlagValues
    /\ \A b \in Bits \ Touched(e) : host'[b] = host[b]
    /\ Agree(e) => \A b \in e.exact : host'[b] = ref'[b]

Execute ==
    /\ phase = "run"
    /\ k < cut
    /\ k' = k + 1
    /\ RefStep(EffectOf[cands[k + 1]])
    /\ HostStep(EffectOf[cands[k + 1]])
    /\ UNCHANGED <<phase, planVars, loops, eflags>>

\* emit_backedge: `loop` and `lea` touch no flag.
BackEdge ==
    /\ phase = "run"
    /\ k = cut
    /\ loops
    /\ k' = 0
    /\ UNCHANGED <<phase, planVars, loops, eflags, host, ref>>

\* Mutant: only the flags of the host are written back.
MaterializeHost(s) == [b \in Bits |-> IF b \in s.exact THEN host[b] ELSE eflags[b]]

emit_materialize(s) ==
    [b \in Bits |-> IF b \in s.exact THEN host[b]
                    ELSE IF b \in s.const0 THEN FALSE
                    ELSE IF b \in s.const1 THEN TRUE
                    ELSE eflags[b]]

Leave ==
    /\ phase = "run"
    /\ k = cut
    /\ phase' = "done"
    /\ eflags' = emit_materialize(sims[cut])
    /\ UNCHANGED <<planVars, loops, k, host, ref>>

Next == Analyse \/ GiveUp \/ Enter \/ Execute \/ BackEdge \/ Leave

Spec == Init /\ [][Next]_vars

-----------------------------------------------------------------------------
TypeOK ==
    /\ phase \in {"plan", "run", "none", "done"}
    /\ cands \in Seq(Insns) /\ Len(cands) \in 1 .. MAX_BLOCK_INSNS
    /\ seen \in 0 .. Len(cands)
    /\ sims \in [0 .. MAX_BLOCK_INSNS -> FlagState]
    /\ cut \in 0 .. seen
    /\ loops \in BOOLEAN
    /\ k \in 0 .. cut
    /\ eflags \in FlagValues /\ host \in FlagValues /\ ref \in FlagValues

\* A flag consumer inside a block (ADC, SBB, Jcc) reads the values the
\* interpreter's flags would have, in every iteration of the block.
ReadsExact ==
    phase = "run" /\ k < cut => Agree(EffectOf[cands[k + 1]])

\* When the block is left, regs.eflags holds exactly the interpreter's flags,
\* however often it looped and wherever the plan was cut.
ExitExact == phase = "done" => eflags = ref

-----------------------------------------------------------------------------
\* The inductive invariant.  What the simulation accepted is a chain of
\* applications with every read exact, and a flag once touched stays touched.
ChainInv ==
    /\ sims[0] = NoState
    /\ \A j \in 0 .. seen : Disjoint(sims[j])
    /\ \A j \in 0 .. seen - 1 :
         /\ EffectOf[cands[j + 1]].reads \subseteq sims[j].exact
         /\ sims[j + 1] = Apply(sims[j], EffectOf[cands[j + 1]])
    /\ \A i, j \in 0 .. seen : i <= j => Touched(sims[i]) \subseteq Touched(sims[j])
    /\ sims[cut].garbage = {}

\* Inside the block the host holds what the state before the next instruction
\* says, and a flag the whole block leaves alone still has its old value.
BlockInv ==
    phase = "run" =>
      /\ \A b \in sims[k].exact : host[b] = ref[b]
      /\ \A b \in sims[k].const0 : ~ref[b]
      /\ \A b \in sims[k].const1 : ref[b]
      /\ \A b \in Bits \ Touched(sims[cut]) : ref[b] = eflags[b]

IInv == TypeOK /\ ChainInv /\ BlockInv /\ ExitExact
=============================================================================
