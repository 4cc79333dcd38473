------------------------- MODULE JitFlags386_proofs -------------------------
(***************************************************************************)
(* Proofs for JitFlags386: for every set of flags, every table of effects  *)
(* and every candidate sequence, the block reads and leaves behind exactly *)
(* the interpreter's flags.                                                *)
(***************************************************************************)
EXTENDS JitFlags386, TLAPS

-----------------------------------------------------------------------------
(* Facts about Apply.                                                      *)

\* One instruction turns a flag state into a flag state that claims no flag
\* twice, and forgets no flag that was touched before (pass 2 of jit_plan).
LEMMA ApplyFacts ==
  ASSUME NEW s \in FlagState, NEW e \in FlagEffect, Disjoint(s), Disjoint(e)
  PROVE  /\ Apply(s, e) \in FlagState
         /\ Disjoint(Apply(s, e))
         /\ Touched(s) \subseteq Touched(Apply(s, e))
         /\ Touched(e) \subseteq Touched(Apply(s, e))
<1>1. Apply(s, e) \in FlagState
  BY DEF Apply, FlagState, FlagEffect, Touched
<1>2. Disjoint(Apply(s, e))
  BY DEF Apply, Disjoint, Touched, FlagState, FlagEffect
<1>3. Touched(s) \subseteq Touched(Apply(s, e)) /\ Touched(e) \subseteq Touched(Apply(s, e))
  BY DEF Apply, Touched
<1> QED
  BY <1>1, <1>2, <1>3

\* The effect of a candidate.
LEMMA EffectFacts ==
  ASSUME TypeOK, NEW j \in 0 .. seen - 1
  PROVE  EffectOf[cands[j + 1]] \in FlagEffect /\ Disjoint(EffectOf[cands[j + 1]])
<1>1. j + 1 \in 1 .. Len(cands)
  BY DEF TypeOK
<1>2. cands[j + 1] \in Insns
  BY <1>1 DEF TypeOK
<1> QED
  BY <1>2, FlagAssumption

-----------------------------------------------------------------------------
\* Before pass 2 nothing is accepted and nothing is claimed.
LEMMA InitInv == Init => IInv
<1> SUFFICES ASSUME Init PROVE IInv
  OBVIOUS
<1>1. PICK n \in 1 .. MAX_BLOCK_INSNS : cands \in [1 .. n -> Insns]
  BY DEF Init
<1>2. n \in Nat /\ cands \in Seq(Insns) /\ Len(cands) = n
  BY <1>1, FlagAssumption
<1>3. NoState \in FlagState /\ Disjoint(NoState) /\ NoState.garbage = {}
  BY DEF NoState, FlagState, Disjoint
<1>4. sims \in [0 .. MAX_BLOCK_INSNS -> FlagState]
  BY <1>3 DEF Init
<1>5. eflags \in FlagValues /\ host \in FlagValues /\ ref \in FlagValues
  <2>1. [b \in Bits |-> FALSE] \in [Bits -> BOOLEAN]
    OBVIOUS
  <2> QED
    BY <2>1 DEF Init, FlagValues
<1>6. TypeOK
  <2>1. phase \in {"plan", "run", "none", "done"} /\ loops \in BOOLEAN
    BY DEF Init
  <2>2. seen \in 0 .. Len(cands) /\ cut \in 0 .. seen /\ k \in 0 .. cut
    BY <1>2 DEF Init
  <2>3. Len(cands) \in 1 .. MAX_BLOCK_INSNS
    BY <1>2
  <2> QED
    BY <1>2, <1>4, <1>5, <2>1, <2>2, <2>3 DEF TypeOK
<1>7. ChainInv
  BY <1>3, FlagAssumption DEF Init, ChainInv
<1> QED
  BY <1>6, <1>7 DEF IInv, Init, BlockInv, ExitExact

-----------------------------------------------------------------------------
\* The accepted chain grows by one application.
LEMMA AnalyseInv ==
  ASSUME IInv, Analyse
  PROVE  IInv'
<1> DEFINE e == NextEffect
           s == Apply(sims[seen], e)
<1>1. phase = "plan" /\ phase' = "plan" /\ seen < Len(cands) /\ seen' = seen + 1 /\ cands' = cands
  BY DEF Analyse, Acceptable
<1>2. seen \in Nat /\ seen + 1 \in 1 .. Len(cands) /\ Len(cands) \in 1 .. MAX_BLOCK_INSNS
      /\ cut \in 0 .. seen /\ MAX_BLOCK_INSNS \in Nat
  BY <1>1, FlagAssumption DEF IInv, TypeOK
<1>3. e \in FlagEffect /\ Disjoint(e) /\ e.reads \subseteq sims[seen].exact
  <2>1. cands[seen + 1] \in Insns
    BY <1>2 DEF IInv, TypeOK
  <2> QED
    BY <2>1, FlagAssumption DEF NextEffect, Analyse, Acceptable, Readable
<1>4. sims[seen] \in FlagState /\ Disjoint(sims[seen])
  BY <1>2 DEF IInv, TypeOK, ChainInv
<1>5. s \in FlagState /\ Disjoint(s) /\ Touched(sims[seen]) \subseteq Touched(s)
  BY <1>3, <1>4, ApplyFacts
<1>6. sims' = [sims EXCEPT ![seen + 1] = s]
  BY DEF Analyse
<1>7. sims \in [0 .. MAX_BLOCK_INSNS -> FlagState]
  BY DEF IInv, TypeOK
<1>8. /\ sims' \in [0 .. MAX_BLOCK_INSNS -> FlagState]
      /\ sims'[seen + 1] = s
      /\ \A j \in 0 .. seen : sims'[j] = sims[j]
  BY <1>2, <1>5, <1>6, <1>7
<1>9. cut' = IF MayEnd(s) THEN seen + 1 ELSE cut
  BY DEF Analyse
<1>10. TypeOK'
  <2>1. cut' \in 0 .. seen' /\ cut <= cut'
    BY <1>1, <1>2, <1>9
  <2>2. k' \in 0 .. cut'
    BY <2>1, <1>2 DEF IInv, TypeOK, Analyse
  <2>3. seen' \in 0 .. Len(cands')
    BY <1>1, <1>2
  <2>4. eflags' \in FlagValues /\ host' \in FlagValues /\ ref' \in FlagValues /\ loops' \in BOOLEAN
    BY DEF IInv, TypeOK, Analyse, FlagValues
  <2>5. cands' \in Seq(Insns) /\ Len(cands') \in 1 .. MAX_BLOCK_INSNS
    BY <1>1 DEF IInv, TypeOK
  <2> QED
    BY <1>1, <1>8, <2>1, <2>2, <2>3, <2>4, <2>5 DEF TypeOK
<1>11. ChainInv'
  <2>1. sims'[0] = NoState
    BY <1>2, <1>8 DEF IInv, ChainInv
  <2>2. \A j \in 0 .. seen' : Disjoint(sims'[j])
    BY <1>1, <1>2, <1>5, <1>8 DEF IInv, ChainInv
  <2>3. ASSUME NEW j \in 0 .. seen' - 1
        PROVE  /\ EffectOf[cands[j + 1]].reads \subseteq sims'[j].exact
               /\ sims'[j + 1] = Apply(sims'[j], EffectOf[cands[j + 1]])
    <3>1. CASE j = seen
      BY <3>1, <1>3, <1>8, <1>2 DEF NextEffect
    <3>2. CASE j # seen
      <4>1. j \in 0 .. seen - 1 /\ j + 1 \in 0 .. seen
        BY <3>2, <1>1, <1>2
      <4>2. sims'[j] = sims[j] /\ sims'[j + 1] = sims[j + 1]
        BY <4>1, <1>2, <1>8
      <4> QED
        BY <4>1, <4>2 DEF IInv, ChainInv
    <3> QED
      BY <3>1, <3>2
  <2>4. ASSUME NEW i \in 0 .. seen', NEW j \in 0 .. seen', i <= j
        PROVE  Touched(sims'[i]) \subseteq Touched(sims'[j])
    <3>1. CASE j # seen + 1
      <4>1. i \in 0 .. seen /\ j \in 0 .. seen
        BY <3>1, <2>4, <1>1, <1>2
      <4> QED
        BY <4>1, <2>4, <1>8 DEF IInv, ChainInv
    <3>2. CASE j = seen + 1 /\ i # seen + 1
      <4>1. i \in 0 .. seen /\ seen \in 0 .. seen /\ i <= seen
        BY <3>2, <2>4, <1>1, <1>2
      <4>2. Touched(sims[i]) \subseteq Touched(sims[seen])
        BY <4>1 DEF IInv, ChainInv
      <4> QED
        BY <4>1, <4>2, <3>2, <1>5, <1>8
    <3>3. CASE j = seen + 1 /\ i = seen + 1
      BY <3>3
    <3> QED
      BY <3>1, <3>2, <3>3
  <2>5. sims'[cut'].garbage = {}
    <3>1. CASE MayEnd(s)
      BY <3>1, <1>8, <1>9 DEF MayEnd
    <3>2. CASE ~MayEnd(s)
      BY <3>2, <1>2, <1>8, <1>9 DEF IInv, ChainInv
    <3> QED
      BY <3>1, <3>2
  <2> QED
    BY <1>1, <2>1, <2>2, <2>3, <2>4, <2>5 DEF ChainInv
<1> QED
  BY <1>1, <1>10, <1>11 DEF IInv, BlockInv, ExitExact

-----------------------------------------------------------------------------
\* Entering the block: the state before its first instruction claims nothing.
LEMMA EnterInv ==
  ASSUME IInv, Enter
  PROVE  IInv'
<1>1. phase' = "run" /\ k' = 0 /\ ref' = eflags' /\ eflags' \in FlagValues /\ host' \in FlagValues
  BY DEF Enter
<1>2. cands' = cands /\ seen' = seen /\ sims' = sims /\ cut' = cut
  BY DEF Enter, planVars
<1>3. loops' \in BOOLEAN
  BY DEF Enter
<1>4. TypeOK'
  <2>1. k' \in 0 .. cut'
    BY <1>1, <1>2 DEF IInv, TypeOK
  <2>2. /\ cands' \in Seq(Insns) /\ Len(cands') \in 1 .. MAX_BLOCK_INSNS
        /\ seen' \in 0 .. Len(cands') /\ cut' \in 0 .. seen'
        /\ sims' \in [0 .. MAX_BLOCK_INSNS -> FlagState]
    BY <1>2 DEF IInv, TypeOK
  <2> QED
    BY <1>1, <1>3, <2>1, <2>2 DEF TypeOK
<1>5. ChainInv'
  BY <1>2 DEF IInv, ChainInv
<1>6. BlockInv'
  <2>1. sims'[k'] = NoState
    BY <1>1, <1>2 DEF IInv, ChainInv
  <2> QED
    BY <1>1, <2>1 DEF BlockInv, NoState
<1> QED
  BY <1>1, <1>4, <1>5, <1>6 DEF IInv, ExitExact

\* Inside the block every flag the next instruction reads is exact.
LEMMA ReadsAgree ==
  ASSUME IInv, phase = "run", k < cut
  PROVE  Agree(EffectOf[cands[k + 1]])
<1>1. k \in 0 .. seen - 1
  BY DEF IInv, TypeOK
<1>2. EffectOf[cands[k + 1]].reads \subseteq sims[k].exact
  BY <1>1 DEF IInv, ChainInv
<1> QED
  BY <1>2 DEF IInv, BlockInv, Agree

\* One instruction of the block.
LEMMA ExecuteInv ==
  ASSUME IInv, Execute
  PROVE  IInv'
<1> DEFINE e == EffectOf[cands[k + 1]]
<1>1. phase = "run" /\ phase' = "run" /\ k < cut /\ k' = k + 1 /\ eflags' = eflags /\ loops' = loops
  BY DEF Execute
<1>2. cands' = cands /\ seen' = seen /\ sims' = sims /\ cut' = cut
  BY DEF Execute, planVars
<1>3. RefStep(e) /\ HostStep(e)
  BY DEF Execute
<1>4. k \in 0 .. seen - 1 /\ k + 1 \in 0 .. cut /\ k + 1 \in 0 .. seen /\ cut \in 0 .. seen
  BY <1>1 DEF IInv, TypeOK
<1>5. Agree(e)
  BY <1>1, ReadsAgree
<1>6. e \in FlagEffect /\ Disjoint(e)
  BY <1>4, EffectFacts DEF IInv
<1>7. sims[k] \in FlagState /\ Disjoint(sims[k]) /\ sims[k + 1] = Apply(sims[k], e)
  <2>1. k \in 0 .. MAX_BLOCK_INSNS /\ k \in 0 .. seen
    BY <1>4, FlagAssumption DEF IInv, TypeOK
  <2> QED
    BY <2>1, <1>4 DEF IInv, TypeOK, ChainInv
<1>8. TypeOK'
  <2>1. ref' \in FlagValues /\ host' \in FlagValues /\ eflags' \in FlagValues /\ loops' \in BOOLEAN
    BY <1>1, <1>3 DEF RefStep, HostStep, IInv, TypeOK
  <2>2. /\ cands' \in Seq(Insns) /\ Len(cands') \in 1 .. MAX_BLOCK_INSNS
        /\ seen' \in 0 .. Len(cands') /\ cut' \in 0 .. seen'
        /\ sims' \in [0 .. MAX_BLOCK_INSNS -> FlagState]
    BY <1>2 DEF IInv, TypeOK
  <2>3. k' \in 0 .. cut'
    BY <1>1, <1>2, <1>4
  <2> QED
    BY <1>1, <2>1, <2>2, <2>3 DEF TypeOK
<1>9. ChainInv'
  BY <1>2 DEF IInv, ChainInv
<1>10. BlockInv'
  <2>1. sims'[k'] = Apply(sims[k], e)
    BY <1>1, <1>2, <1>7
  <2>2. ASSUME NEW b \in Apply(sims[k], e).exact PROVE host'[b] = ref'[b]
    <3>1. CASE b \in e.exact
      BY <3>1, <1>3, <1>5 DEF HostStep
    <3>2. CASE b \notin e.exact
      <4>1. b \in sims[k].exact /\ b \notin Touched(e) /\ b \in Bits
        BY <3>2, <2>2, <1>7 DEF Apply, FlagState
      <4>2. host'[b] = host[b] /\ ref'[b] = ref[b]
        BY <4>1, <1>3 DEF RefStep, HostStep
      <4>3. host[b] = ref[b]
        BY <4>1, <1>1 DEF IInv, BlockInv
      <4> QED
        BY <4>2, <4>3
    <3> QED
      BY <3>1, <3>2
  <2>3. ASSUME NEW b \in Apply(sims[k], e).const0 PROVE ~ref'[b]
    <3>1. CASE b \in e.const0
      BY <3>1, <1>3 DEF RefStep
    <3>2. CASE b \notin e.const0
      <4>1. b \in sims[k].const0 /\ b \notin Touched(e) /\ b \in Bits
        BY <3>2, <2>3, <1>7 DEF Apply, FlagState
      <4>2. ref'[b] = ref[b]
        BY <4>1, <1>3 DEF RefStep
      <4>3. ~ref[b]
        BY <4>1, <1>1 DEF IInv, BlockInv
      <4> QED
        BY <4>2, <4>3
    <3> QED
      BY <3>1, <3>2
  <2>4. ASSUME NEW b \in Apply(sims[k], e).const1 PROVE ref'[b]
    <3>1. CASE b \in e.const1
      BY <3>1, <1>3 DEF RefStep
    <3>2. CASE b \notin e.const1
      <4>1. b \in sims[k].const1 /\ b \notin Touched(e) /\ b \in Bits
        BY <3>2, <2>4, <1>7 DEF Apply, FlagState
      <4>2. ref'[b] = ref[b]
        BY <4>1, <1>3 DEF RefStep
      <4>3. ref[b]
        BY <4>1, <1>1 DEF IInv, BlockInv
      <4> QED
        BY <4>2, <4>3
    <3> QED
      BY <3>1, <3>2
  <2>5. ASSUME NEW b \in Bits \ Touched(sims[cut]) PROVE ref'[b] = eflags[b]
    <3>1. Touched(e) \subseteq Touched(sims[k + 1])
      BY <1>6, <1>7, ApplyFacts
    <3>2. Touched(sims[k + 1]) \subseteq Touched(sims[cut])
      BY <1>4 DEF IInv, ChainInv
    <3>3. b \in Bits \ Touched(e)
      BY <2>5, <3>1, <3>2
    <3>4. ref'[b] = ref[b]
      BY <3>3, <1>3 DEF RefStep
    <3>5. ref[b] = eflags[b]
      BY <2>5, <1>1 DEF IInv, BlockInv
    <3> QED
      BY <3>4, <3>5
  <2> QED
    BY <1>1, <1>2, <2>1, <2>2, <2>3, <2>4, <2>5 DEF BlockInv
<1> QED
  BY <1>1, <1>8, <1>9, <1>10 DEF IInv, ExitExact

\* Another iteration starts from a state that claims nothing.
LEMMA BackEdgeInv ==
  ASSUME IInv, BackEdge
  PROVE  IInv'
<1>1. phase = "run" /\ phase' = "run" /\ k' = 0
      /\ eflags' = eflags /\ host' = host /\ ref' = ref /\ loops' = loops
  BY DEF BackEdge
<1>2. cands' = cands /\ seen' = seen /\ sims' = sims /\ cut' = cut
  BY DEF BackEdge, planVars
<1>3. TypeOK'
  <2>1. k' \in 0 .. cut'
    BY <1>1, <1>2 DEF IInv, TypeOK
  <2> QED
    BY <1>1, <1>2, <2>1 DEF IInv, TypeOK
<1>4. ChainInv'
  BY <1>2 DEF IInv, ChainInv
<1>5. BlockInv'
  <2>1. sims'[k'] = NoState
    BY <1>1, <1>2 DEF IInv, ChainInv
  <2>2. \A b \in Bits \ Touched(sims[cut]) : ref[b] = eflags[b]
    BY <1>1 DEF IInv, BlockInv
  <2> QED
    BY <1>1, <1>2, <2>1, <2>2 DEF BlockInv, NoState
<1> QED
  BY <1>1, <1>3, <1>4, <1>5 DEF IInv, ExitExact

\* Leaving the block: every flag is exact, constant or was never touched,
\* because a block is only cut where no flag is garbage.
LEMMA LeaveInv ==
  ASSUME IInv, Leave
  PROVE  IInv'
<1>1. phase = "run" /\ phase' = "done" /\ k = cut /\ k' = k
      /\ host' = host /\ ref' = ref /\ loops' = loops
      /\ eflags' = emit_materialize(sims[cut])
  BY DEF Leave
<1>2. cands' = cands /\ seen' = seen /\ sims' = sims /\ cut' = cut
  BY DEF Leave, planVars
<1>3. ASSUME NEW b \in Bits
      PROVE  emit_materialize(sims[cut])[b] = ref[b]
  <2> DEFINE s == sims[cut]
  <2>1. emit_materialize(s)[b] = IF b \in s.exact THEN host[b]
                                 ELSE IF b \in s.const0 THEN FALSE
                                 ELSE IF b \in s.const1 THEN TRUE
                                 ELSE eflags[b]
    BY DEF emit_materialize
  <2>2. s.garbage = {}
    BY DEF IInv, ChainInv
  <2>3. ref[b] \in BOOLEAN
    BY DEF IInv, TypeOK, FlagValues
  <2>4. CASE b \in s.exact
    BY <2>1, <2>4, <1>1 DEF IInv, BlockInv
  <2>5. CASE b \notin s.exact /\ b \in s.const0
    <3>1. ~ref[b]
      BY <2>5, <1>1 DEF IInv, BlockInv
    <3> QED
      BY <2>1, <2>3, <2>5, <3>1
  <2>6. CASE b \notin s.exact /\ b \notin s.const0 /\ b \in s.const1
    <3>1. ref[b]
      BY <2>6, <1>1 DEF IInv, BlockInv
    <3> QED
      BY <2>1, <2>3, <2>6, <3>1
  <2>7. CASE b \notin s.exact /\ b \notin s.const0 /\ b \notin s.const1
    <3>1. b \notin Touched(s)
      BY <2>2, <2>7 DEF Touched
    <3>2. ref[b] = eflags[b]
      BY <3>1, <1>1 DEF IInv, BlockInv
    <3> QED
      BY <2>1, <2>7, <3>2
  <2> QED
    BY <2>4, <2>5, <2>6, <2>7
<1>4. eflags' = ref
  <2>1. ref \in [Bits -> BOOLEAN]
    BY DEF IInv, TypeOK, FlagValues
  <2>2. emit_materialize(sims[cut]) = [b \in Bits |-> emit_materialize(sims[cut])[b]]
    BY DEF emit_materialize
  <2> QED
    BY <1>1, <1>3, <2>1, <2>2
<1>5. TypeOK'
  <2>1. eflags' \in FlagValues
    BY <1>4 DEF IInv, TypeOK
  <2> QED
    BY <1>1, <1>2, <2>1 DEF IInv, TypeOK
<1>6. ChainInv'
  BY <1>2 DEF IInv, ChainInv
<1> QED
  BY <1>1, <1>4, <1>5, <1>6 DEF IInv, BlockInv, ExitExact

\* Giving up changes nothing but the phase.
LEMMA GiveUpInv ==
  ASSUME IInv, GiveUp
  PROVE  IInv'
<1>1. phase' = "none" /\ loops' = loops /\ k' = k
      /\ eflags' = eflags /\ host' = host /\ ref' = ref
  BY DEF GiveUp
<1>2. cands' = cands /\ seen' = seen /\ sims' = sims /\ cut' = cut
  BY DEF GiveUp, planVars
<1>3. TypeOK'
  BY <1>1, <1>2 DEF IInv, TypeOK
<1>4. ChainInv'
  BY <1>2 DEF IInv, ChainInv
<1> QED
  BY <1>1, <1>3, <1>4 DEF IInv, BlockInv, ExitExact

\* A stuttering step.
LEMMA StutterInv ==
  ASSUME IInv, UNCHANGED vars
  PROVE  IInv'
<1>1. phase' = phase /\ loops' = loops /\ k' = k
      /\ eflags' = eflags /\ host' = host /\ ref' = ref
      /\ cands' = cands /\ seen' = seen /\ sims' = sims /\ cut' = cut
  BY DEF vars
<1>2. TypeOK'
  BY <1>1 DEF IInv, TypeOK
<1>3. ChainInv'
  BY <1>1 DEF IInv, ChainInv
<1>4. BlockInv' /\ ExitExact'
  BY <1>1 DEF IInv, BlockInv, ExitExact
<1> QED
  BY <1>2, <1>3, <1>4 DEF IInv

-----------------------------------------------------------------------------
\* The inductive invariant of the flag analysis and of the blocks it plans
\* holds in every reachable state.
THEOREM IsInvariant == Spec => []IInv
<1>1. IInv /\ [Next]_vars => IInv'
  <2> SUFFICES ASSUME IInv, [Next]_vars PROVE IInv'
    OBVIOUS
  <2>1. CASE Analyse
    BY <2>1, AnalyseInv
  <2>2. CASE GiveUp
    BY <2>2, GiveUpInv
  <2>3. CASE Enter
    BY <2>3, EnterInv
  <2>4. CASE Execute
    BY <2>4, ExecuteInv
  <2>5. CASE BackEdge
    BY <2>5, BackEdgeInv
  <2>6. CASE Leave
    BY <2>6, LeaveInv
  <2>7. CASE UNCHANGED vars
    BY <2>7, StutterInv
  <2> QED
    BY <2>1, <2>2, <2>3, <2>4, <2>5, <2>6, <2>7 DEF Next
<1> QED
  BY InitInv, <1>1, PTL DEF Spec

\* An ADC, SBB or Jcc inside a block reads the interpreter's flags, whatever
\* the tables say, as long as no row claims a flag twice.
THEOREM ReadsCorrect == Spec => []ReadsExact
<1>1. IInv => ReadsExact
  BY ReadsAgree DEF ReadsExact
<1> QED
  BY IsInvariant, <1>1, PTL

\* emit_materialize leaves exactly the interpreter's flags in regs.eflags.
THEOREM ExitCorrect == Spec => []ExitExact
<1>1. IInv => ExitExact
  BY DEF IInv
<1> QED
  BY IsInvariant, <1>1, PTL
=============================================================================
