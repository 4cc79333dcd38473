--------------------------- MODULE System64_proofs ---------------------------
(***************************************************************************)
(* No trace of a faulting instruction on the x86-64 core (FaultTransparent *)
(* of System64): the operations an instruction is built from only move the *)
(* state in ways the epilogue can take back, until nothing can fault.      *)
(*                                                                         *)
(* Moves(S, x, t) is the relation every operation is shown to keep; the    *)
(* lemmas named ...Step say so of one operation each, those named          *)
(* ...Outcome of a whole instruction.                                      *)
(*                                                                         *)
(* Then the levels (PrivilegeGuarded of System64): every operation that    *)
(* did not fault either stays at its level (Kept), leaves it outward with  *)
(* no data segment of an inner one (Outward), or enters by a gate onto the *)
(* TSS's stack (Inward, AtLstar).  The lemmas named ...Kept and            *)
(* ...Guarded say which, those named ...Done of a whole instruction.       *)
(***************************************************************************)
EXTENDS System64, TLAPS, SequenceTheorems, WellFoundedInduction

(* The registers an instruction began with, as far as a fault needs them:  *)
(* those captured before the first write to a cold register, else the      *)
(* current ones.                                                           *)
Origin(t) == IF t.cold THEN t.saved ELSE t.r

(* From t to u: what is not in S is as it was, no event was delivered, no  *)
(* trap recorded, and the registers to go back to are the same.            *)
Moves(S, t, u) ==
    /\ IsCpu(u)
    /\ u.ev = t.ev /\ u.trap = t.trap
    /\ u.r.rcx = t.r.rcx /\ u.r.r11 = t.r.r11 /\ u.r.kgs = t.r.kgs
    /\ "FL" \in S \/ u.r.fl = t.r.fl
    /\ \A i \in SegNames \ S : u.r.seg[i] = t.r.seg[i]
    /\ Origin(u).seg = Origin(t).seg /\ Origin(u).kgs = Origin(t).kgs
    /\ t.cold => u.cold
    /\ u.m64 = t.m64
    /\ Ok(u) => Ok(t)

LEMMA MovesRefl == ASSUME NEW t, IsCpu(t) PROVE Moves({}, t, t)
BY DEF Moves

LEMMA MovesTrans ==
    ASSUME NEW S, NEW t, NEW u, NEW w, NEW T, Moves(S, t, u), Moves(T, u, w)
    PROVE  Moves(S \cup T, t, w)
BY DEF Moves

LEMMA MovesMore ==
    ASSUME NEW S, NEW T, NEW t, NEW u, Moves(S, t, u), S \subseteq T
    PROVE  Moves(T, t, u)
BY DEF Moves

LEMMA NeedMoves ==
    ASSUME NEW t, IsCpu(t), NEW ok, NEW e
    PROVE  Moves({}, t, Need(t, ok, e))
BY DEF Moves, Need, Origin, Ok, IsCpu, IsRegs, CpuNames, RegNames, SegNames, DataSegs

LEMMA ColdMoves ==
    ASSUME NEW t, IsCpu(t)
    PROVE  Moves({}, t, prepare_cold_write(t)) /\ prepare_cold_write(t).cold
BY DEF Moves, prepare_cold_write, Origin, Ok, IsCpu, IsRegs, CpuNames, RegNames, SegNames, DataSegs

LEMMA WriteSeg ==
    ASSUME NEW t, IsCpu(t), t.cold, NEW i \in SegNames, NEW x
    PROVE  Moves({i}, t, [t EXCEPT !.r.seg[i] = x])
<1> DEFINE u == [t EXCEPT !.r.seg[i] = x]
<1>1. IsCpu(u)
  BY DEF IsCpu, IsRegs, CpuNames, RegNames
<1>2. /\ u.cold /\ u.saved = t.saved /\ u.ev = t.ev /\ u.trap = t.trap
      /\ u.m64 = t.m64 /\ u.err = t.err
  BY DEF IsCpu, CpuNames
<1>3. /\ u.r.rcx = t.r.rcx /\ u.r.r11 = t.r.r11 /\ u.r.kgs = t.r.kgs /\ u.r.fl = t.r.fl
      /\ \A j \in SegNames \ {i} : u.r.seg[j] = t.r.seg[j]
  BY DEF IsCpu, IsRegs, CpuNames, RegNames
<1> HIDE DEF u
<1>4. Moves({i}, t, u)
  BY <1>1, <1>2, <1>3 DEF Moves, Origin, Ok
<1> QED BY <1>4 DEF u

LEMMA WritePc ==
    ASSUME NEW t, IsCpu(t), NEW x
    PROVE  /\ Moves({}, t, [t EXCEPT !.r.rsp = x])
           /\ Moves({}, t, [t EXCEPT !.r.rip = x])
           /\ Moves({}, t, [t EXCEPT !.mem = x])
           /\ Moves({}, t, [t EXCEPT !.acc = x])
           /\ Ok(t) => Moves({}, t, [t EXCEPT !.err = x])
           /\ Moves({}, t, [t EXCEPT !.v = x])
           /\ Moves({"FL"}, t, [t EXCEPT !.r.fl = x])
<1>1. Moves({}, t, [t EXCEPT !.r.rsp = x])
  BY DEF Moves, Origin, Ok, IsCpu, IsRegs, CpuNames, RegNames
<1>2. Moves({}, t, [t EXCEPT !.r.rip = x])
  BY DEF Moves, Origin, Ok, IsCpu, IsRegs, CpuNames, RegNames
<1>3. /\ Moves({}, t, [t EXCEPT !.mem = x])
      /\ Moves({}, t, [t EXCEPT !.acc = x])
  BY DEF Moves, Origin, Ok, IsCpu, IsRegs, CpuNames, RegNames
<1>4. /\ Ok(t) => Moves({}, t, [t EXCEPT !.err = x])
      /\ Moves({}, t, [t EXCEPT !.v = x])
  BY DEF Moves, Origin, Ok, IsCpu, IsRegs, CpuNames, RegNames
<1>5. Moves({"FL"}, t, [t EXCEPT !.r.fl = x])
  BY DEF Moves, Origin, Ok, IsCpu, IsRegs, CpuNames, RegNames
<1> QED BY <1>1, <1>2, <1>3, <1>4, <1>5

LEMMA SetSegMoves ==
    ASSUME NEW t, IsCpu(t), NEW i \in SegNames, NEW sel, NEW d
    PROVE  Moves({i}, t, SetSeg(t, i, sel, d))
<1> DEFINE p == prepare_cold_write(t)
           u == [p EXCEPT !.r.seg[i] = [sel |-> sel, d |-> d]]
<1>1. Moves({}, t, p) /\ p.cold /\ IsCpu(p)
  BY ColdMoves DEF Moves
<1> HIDE DEF p
<1>2. Moves({i}, p, u)
  BY <1>1, WriteSeg
<1> HIDE DEF u
<1>3. Moves({} \cup {i}, t, u)
  BY <1>1, <1>2, MovesTrans
<1>4. Moves({i}, t, u) /\ Moves({i}, t, t)
  BY <1>3, MovesMore, MovesRefl
<1> QED BY <1>4 DEF SetSeg, p, u
-----------------------------------------------------------------------------
(* Induction over the naturals, on sets: a lemma with an operator for a    *)
(* parameter could not be applied.                                         *)

LEMMA Induction ==
    ASSUME NEW T, 0 \in T, \A n \in Nat : n \in T => n + 1 \in T
    PROVE  Nat \subseteq T
<1> DEFINE Out == Nat \ T
<1> SUFFICES ASSUME Out # {} PROVE FALSE
  OBVIOUS
<1>1. PICK m \in Out : \A k \in Out : <<k, m>> \notin OpToRel(<, Nat)
  BY NatLessThanWellFounded, WFMin
<1>2. m \in Nat /\ m # 0 /\ m - 1 \in Nat /\ m - 1 < m
  OBVIOUS
<1>3. m - 1 \in T
  BY <1>1, <1>2 DEF OpToRel
<1> QED BY <1>2, <1>3

(* A function defined along 0 .. k by pushing is what its definition says. *)
LEMMA PushAllDef ==
    ASSUME NEW t, NEW n, NEW vs, Len(vs) \in Nat
    PROVE  \E g : /\ g = [i \in 0 .. Len(vs) |-> IF i = 0 THEN t ELSE push(g[i - 1], n, vs[i])]
                  /\ PushAll(t, n, vs) = g[Len(vs)]
<1> DEFINE T == {k \in Nat : \E g : g = [i \in 0 .. k |-> IF i = 0 THEN t ELSE push(g[i - 1], n, vs[i])]}
<1>1. 0 \in T
  <2> DEFINE g == [i \in 0 .. 0 |-> t]
  <2>1. g = [i \in 0 .. 0 |-> IF i = 0 THEN t ELSE push(g[i - 1], n, vs[i])]
    OBVIOUS
  <2> QED BY <2>1
<1>2. ASSUME NEW k \in Nat, k \in T PROVE k + 1 \in T
  <2>1. PICK g : g = [i \in 0 .. k |-> IF i = 0 THEN t ELSE push(g[i - 1], n, vs[i])]
    BY <1>2
  <2> DEFINE h == [i \in 0 .. k + 1 |-> IF i = k + 1 THEN push(g[k], n, vs[k + 1]) ELSE g[i]]
  <2>2. \A i \in 0 .. k + 1 : h[i] = IF i = 0 THEN t ELSE push(h[i - 1], n, vs[i])
    BY <2>1
  <2>3. h = [i \in 0 .. k + 1 |-> h[i]]
    OBVIOUS
  <2> HIDE DEF h
  <2>4. h = [i \in 0 .. k + 1 |-> IF i = 0 THEN t ELSE push(h[i - 1], n, vs[i])]
    BY <2>2, <2>3
  <2> QED BY <2>4
<1>3. PICK g : g = [i \in 0 .. Len(vs) |-> IF i = 0 THEN t ELSE push(g[i - 1], n, vs[i])]
  BY <1>1, <1>2, Induction
<1> DEFINE f == CHOOSE f : f = [i \in 0 .. Len(vs) |-> IF i = 0 THEN t ELSE push(f[i - 1], n, vs[i])]
<1>4. f = [i \in 0 .. Len(vs) |-> IF i = 0 THEN t ELSE push(f[i - 1], n, vs[i])]
  BY <1>3
<1>5. PushAll(t, n, vs) = f[Len(vs)]
  BY DEF PushAll
<1> QED BY <1>4, <1>5

-----------------------------------------------------------------------------
(* The operations, each as a continuation of what began in x.              *)

LEMMA Then ==
    ASSUME NEW S, NEW x, NEW t, NEW u, Moves(S, x, t), IsCpu(t) => Moves({}, t, u)
    PROVE  Moves(S, x, u)
BY DEF Moves

LEMMA MovesCpu ==
    ASSUME NEW S, NEW x, NEW t, Moves(S, x, t)
    PROVE  IsCpu(t)
BY DEF Moves

LEMMA FieldStep ==
    ASSUME NEW S, NEW x, NEW t, NEW v, Moves(S, x, t)
    PROVE  /\ Moves(S, x, [t EXCEPT !.r.rsp = v])
           /\ Moves(S, x, [t EXCEPT !.r.rip = v])
           /\ Moves(S, x, [t EXCEPT !.mem = v])
           /\ Moves(S, x, [t EXCEPT !.acc = v])
           /\ Ok(t) => Moves(S, x, [t EXCEPT !.err = v])
           /\ Moves(S, x, [t EXCEPT !.v = v])
<1>1. IsCpu(t)
  BY MovesCpu
<1>2. /\ Moves({}, t, [t EXCEPT !.r.rsp = v]) /\ Moves({}, t, [t EXCEPT !.r.rip = v])
      /\ Moves({}, t, [t EXCEPT !.mem = v]) /\ Moves({}, t, [t EXCEPT !.acc = v])
      /\ Ok(t) => Moves({}, t, [t EXCEPT !.err = v])
      /\ Moves({}, t, [t EXCEPT !.v = v])
  BY <1>1, WritePc
<1> QED BY <1>2, Then, Zenon

LEMMA NeedStep ==
    ASSUME NEW S, NEW x, NEW t, NEW ok, NEW e, Moves(S, x, t)
    PROVE  Moves(S, x, Need(t, ok, e))
BY Then, NeedMoves

LEMMA ColdStep ==
    ASSUME NEW S, NEW x, NEW t, Moves(S, x, t)
    PROVE  Moves(S, x, prepare_cold_write(t))
BY Then, ColdMoves

LEMMA SetSegStep ==
    ASSUME NEW S, NEW x, NEW t, NEW i \in SegNames, NEW sel, NEW d, Moves(S, x, t), i \in S
    PROVE  Moves(S, x, SetSeg(t, i, sel, d))
<1>1. Moves({i}, t, SetSeg(t, i, sel, d))
  BY SetSegMoves DEF Moves
<1>2. Moves(S \cup {i}, x, SetSeg(t, i, sel, d))
  BY <1>1, MovesTrans
<1> QED BY <1>2, MovesMore

LEMMA CommitStep ==
    ASSUME NEW S, NEW x, NEW t, NEW i \in SegNames, NEW sel, NEW d, Moves(S, x, t), i \in S
    PROVE  Moves(S, x, commit_seg(t, i, sel, d))
<1> DEFINE p == prepare_cold_write(t)
           q == [p EXCEPT !.r.seg[i] = [sel |-> sel, d |-> [d EXCEPT !.p = TRUE]]]
           u == [q EXCEPT !.acc = @ \cup {Code(sel)}]
<1>1. Moves(S, x, p) /\ p.cold /\ IsCpu(p)
  BY ColdStep, ColdMoves DEF Moves
<1>2. commit_seg(t, i, sel, d) = IF Ok(t) THEN u ELSE t
  BY DEF commit_seg
<1> HIDE DEF p
<1>3. Moves({i}, p, q)
  BY <1>1, WriteSeg
<1> HIDE DEF q
<1>4. Moves({}, q, u)
  BY <1>3, MovesCpu, WritePc, Zenon
<1> HIDE DEF u
<1>5. Moves({i} \cup {}, p, u)
  BY <1>3, <1>4, MovesTrans
<1>6. Moves(S \cup ({i} \cup {}), x, u)
  BY <1>1, <1>5, MovesTrans
<1>7. Moves(S, x, u)
  BY <1>6, MovesMore
<1> QED BY <1>2, <1>7

LEMMA SetRipStep ==
    ASSUME NEW S, NEW x, NEW t, NEW v, Moves(S, x, t)
    PROVE  Moves(S, x, SetRip(t, v))
BY FieldStep DEF SetRip

LEMMA SetFlagsStep ==
    ASSUME NEW S, NEW x, NEW t, NEW fl, Moves(S, x, t), "FL" \in S
    PROVE  Moves(S, x, SetFlags(t, fl))
<1>1. Moves({"FL"}, t, [t EXCEPT !.r.fl = fl])
  BY MovesCpu, WritePc, Zenon
<1>2. Moves(S \cup {"FL"}, x, [t EXCEPT !.r.fl = fl])
  BY <1>1, MovesTrans
<1>3. Moves(S, x, [t EXCEPT !.r.fl = fl])
  BY <1>2, MovesMore
<1> QED BY <1>3 DEF SetFlags

LEMMA EnterStep ==
    ASSUME NEW S, NEW x, NEW t, NEW sel, NEW d, NEW level, NEW off, Moves(S, x, t), "CS" \in S
    PROVE  /\ Moves(S, x, load_cs(t, sel, d, level))
           /\ Moves(S, x, Enter(t, sel, d, level, off))
BY CommitStep, SetRipStep DEF load_cs, Enter, SegNames

LEMMA WriteStep ==
    ASSUME NEW S, NEW x, NEW t, NEW a, NEW n, NEW v, Moves(S, x, t)
    PROVE  Moves(S, x, lin_write(t, a, n, v))
<1>1. \/ lin_write(t, a, n, v) = t
      \/ Ok(t) /\ lin_write(t, a, n, v) = [t EXCEPT !.err = <<14, 2>>]
      \/ \E m : lin_write(t, a, n, v) = [t EXCEPT !.mem = m]
  BY DEF lin_write
<1>2. \A m : Moves(S, x, [t EXCEPT !.mem = m]) /\ (Ok(t) => Moves(S, x, [t EXCEPT !.err = m]))
  BY FieldStep
<1> QED BY <1>1, <1>2

LEMMA AdjustStep ==
    ASSUME NEW S, NEW x, NEW t, NEW delta, Moves(S, x, t)
    PROVE  Moves(S, x, adjust_sp(t, delta))
<1>1. \/ adjust_sp(t, delta) = t
      \/ \E v : adjust_sp(t, delta) = [t EXCEPT !.r.rsp = v]
  BY DEF adjust_sp
<1>2. \A v : Moves(S, x, [t EXCEPT !.r.rsp = v])
  BY FieldStep
<1> QED BY <1>1, <1>2

LEMMA PushStep ==
    ASSUME NEW S, NEW x, NEW t, NEW n, NEW v, Moves(S, x, t)
    PROVE  Moves(S, x, push(t, n, v))
BY NeedStep, WriteStep, AdjustStep DEF push

LEMMA PopStep ==
    ASSUME NEW S, NEW x, NEW t, NEW n, Moves(S, x, t)
    PROVE  Moves(S, x, pop(t, n))
<1> DEFINE u == Need(t, StackLegal(t, stack_ptr(t), n, FALSE), Ss(0))
           w == adjust_sp(u, n)
<1>1. Moves(S, x, u) /\ Moves(S, x, w)
  BY NeedStep, AdjustStep
<1>2. \/ pop(t, n) = u
      \/ Ok(u) /\ pop(t, n) = [u EXCEPT !.err = <<14, 0>>]
      \/ \E v : pop(t, n) = [w EXCEPT !.v = v]
  BY DEF pop
<1> HIDE DEF u, w
<1>3. \A v : (Ok(u) => Moves(S, x, [u EXCEPT !.err = v])) /\ Moves(S, x, [w EXCEPT !.v = v])
  BY <1>1, FieldStep
<1> QED BY <1>1, <1>2, <1>3

LEMMA PushAllStep ==
    ASSUME NEW S, NEW x, NEW t, NEW n, NEW vs, Len(vs) \in Nat, Moves(S, x, t)
    PROVE  Moves(S, x, PushAll(t, n, vs))
<1>1. PICK g : /\ g = [i \in 0 .. Len(vs) |-> IF i = 0 THEN t ELSE push(g[i - 1], n, vs[i])]
               /\ PushAll(t, n, vs) = g[Len(vs)]
  BY PushAllDef
<1> DEFINE T == {k \in Nat : k <= Len(vs) => Moves(S, x, g[k])}
<1>2. 0 \in T
  BY <1>1
<1>3. ASSUME NEW k \in Nat, k \in T PROVE k + 1 \in T
  <2> SUFFICES ASSUME k + 1 <= Len(vs) PROVE Moves(S, x, g[k + 1])
    OBVIOUS
  <2>1. g[k + 1] = push(g[k], n, vs[k + 1])
    BY <1>1
  <2> QED BY <1>3, <2>1, PushStep
<1>4. Len(vs) \in T
  BY <1>2, <1>3, Induction
<1> QED BY <1>1, <1>4

LEMMA PopAllDef ==
    ASSUME NEW t, NEW n, NEW m \in Nat
    PROVE  \E g : /\ g = [i \in 0 .. m |-> IF i = 0 THEN [t EXCEPT !.v = <<>>] ELSE pop(g[i - 1], n)]
                  /\ PopAll(t, n, m) = g[m]
<1> DEFINE b == [t EXCEPT !.v = <<>>]
<1> HIDE DEF b
<1> DEFINE T == {k \in Nat : \E g : g = [i \in 0 .. k |-> IF i = 0 THEN b ELSE pop(g[i - 1], n)]}
<1>1. 0 \in T
  <2> DEFINE g == [i \in 0 .. 0 |-> b]
  <2>1. g = [i \in 0 .. 0 |-> IF i = 0 THEN b ELSE pop(g[i - 1], n)]
    OBVIOUS
  <2> QED BY <2>1
<1>2. ASSUME NEW k \in Nat, k \in T PROVE k + 1 \in T
  <2>1. PICK g : g = [i \in 0 .. k |-> IF i = 0 THEN b ELSE pop(g[i - 1], n)]
    BY <1>2
  <2> DEFINE h == [i \in 0 .. k + 1 |-> IF i = k + 1 THEN pop(g[k], n) ELSE g[i]]
  <2>2. \A i \in 0 .. k + 1 : h[i] = IF i = 0 THEN b ELSE pop(h[i - 1], n)
    BY <2>1
  <2>3. h = [i \in 0 .. k + 1 |-> h[i]]
    OBVIOUS
  <2> HIDE DEF h
  <2>4. h = [i \in 0 .. k + 1 |-> IF i = 0 THEN b ELSE pop(h[i - 1], n)]
    BY <2>2, <2>3
  <2> QED BY <2>4
<1>3. PICK g : g = [i \in 0 .. m |-> IF i = 0 THEN b ELSE pop(g[i - 1], n)]
  BY <1>1, <1>2, Induction
<1> DEFINE f == CHOOSE f : f = [i \in 0 .. m |-> IF i = 0 THEN b ELSE pop(f[i - 1], n)]
<1>4. f = [i \in 0 .. m |-> IF i = 0 THEN b ELSE pop(f[i - 1], n)]
  BY <1>3
<1>5. PopAll(t, n, m) = f[m]
  BY DEF PopAll, b
<1> QED BY <1>4, <1>5 DEF b

LEMMA PopAllStep ==
    ASSUME NEW S, NEW x, NEW t, NEW n, NEW m \in Nat, Moves(S, x, t)
    PROVE  Moves(S, x, PopAll(t, n, m))
<1>1. PICK g : /\ g = [i \in 0 .. m |-> IF i = 0 THEN [t EXCEPT !.v = <<>>] ELSE pop(g[i - 1], n)]
               /\ PopAll(t, n, m) = g[m]
  BY PopAllDef
<1> DEFINE T == {k \in Nat : k <= m => Moves(S, x, g[k])}
<1>2. 0 \in T
  BY <1>1, FieldStep
<1>3. ASSUME NEW k \in Nat, k \in T PROVE k + 1 \in T
  <2> SUFFICES ASSUME k + 1 <= m PROVE Moves(S, x, g[k + 1])
    OBVIOUS
  <2>1. g[k + 1] = pop(g[k], n)
    BY <1>1
  <2> QED BY <1>3, <2>1, PopStep
<1>4. m \in T
  BY <1>2, <1>3, Induction
<1> QED BY <1>1, <1>4

LEMMA FlatWriteStep ==
    ASSUME NEW S, NEW x, NEW t, NEW a, NEW v, Moves(S, x, t)
    PROVE  Moves(S, x, FlatWrite(t, a, v))
BY NeedStep, WriteStep DEF FlatWrite

LEMMA Push64Step ==
    ASSUME NEW S, NEW x, NEW t, NEW rsp, NEW vs, Len(vs) \in Nat, Moves(S, x, t)
    PROVE  Moves(S, x, push64_at(t, rsp, vs))
<1> DEFINE T == {k \in Nat :
                   \E g : g = [i \in 0 .. k |-> IF i = 0 THEN t ELSE FlatWrite(g[i - 1], FlatSlot(rsp, i), vs[i])]}
<1>1. 0 \in T
  <2> DEFINE g == [i \in 0 .. 0 |-> t]
  <2>1. g = [i \in 0 .. 0 |-> IF i = 0 THEN t ELSE FlatWrite(g[i - 1], FlatSlot(rsp, i), vs[i])]
    OBVIOUS
  <2> QED BY <2>1
<1>2. ASSUME NEW k \in Nat, k \in T PROVE k + 1 \in T
  <2>1. PICK g : g = [i \in 0 .. k |-> IF i = 0 THEN t ELSE FlatWrite(g[i - 1], FlatSlot(rsp, i), vs[i])]
    BY <1>2
  <2> DEFINE h == [i \in 0 .. k + 1 |->
                     IF i = k + 1 THEN FlatWrite(g[k], FlatSlot(rsp, k + 1), vs[k + 1]) ELSE g[i]]
  <2>2. \A i \in 0 .. k + 1 : h[i] = IF i = 0 THEN t ELSE FlatWrite(h[i - 1], FlatSlot(rsp, i), vs[i])
    BY <2>1
  <2>3. h = [i \in 0 .. k + 1 |-> h[i]]
    OBVIOUS
  <2> HIDE DEF h
  <2>4. h = [i \in 0 .. k + 1 |-> IF i = 0 THEN t ELSE FlatWrite(h[i - 1], FlatSlot(rsp, i), vs[i])]
    BY <2>2, <2>3
  <2> QED BY <2>4
<1>3. PICK g : g = [i \in 0 .. Len(vs) |-> IF i = 0 THEN t ELSE FlatWrite(g[i - 1], FlatSlot(rsp, i), vs[i])]
  BY <1>1, <1>2, Induction
<1> DEFINE f == CHOOSE f : f = [i \in 0 .. Len(vs) |->
                                  IF i = 0 THEN t ELSE FlatWrite(f[i - 1], FlatSlot(rsp, i), vs[i])]
<1>4. f = [i \in 0 .. Len(vs) |-> IF i = 0 THEN t ELSE FlatWrite(f[i - 1], FlatSlot(rsp, i), vs[i])]
  BY <1>3
<1>5. push64_at(t, rsp, vs) = IF Ok(f[Len(vs)]) THEN [f[Len(vs)] EXCEPT !.r.rsp = FlatSlot(rsp, Len(vs))]
                              ELSE f[Len(vs)]
  BY DEF push64_at
<1>6. \A i \in 0 .. Len(vs) : f[i] = IF i = 0 THEN t ELSE FlatWrite(f[i - 1], FlatSlot(rsp, i), vs[i])
  BY <1>4
<1> HIDE DEF f
<1> DEFINE U == {k \in Nat : k <= Len(vs) => Moves(S, x, f[k])}
<1>7. 0 \in U
  BY <1>6
<1>8. ASSUME NEW k \in Nat, k \in U PROVE k + 1 \in U
  <2> SUFFICES ASSUME k + 1 <= Len(vs) PROVE Moves(S, x, f[k + 1])
    OBVIOUS
  <2>1. f[k + 1] = FlatWrite(f[k], FlatSlot(rsp, k + 1), vs[k + 1])
    BY <1>6
  <2> QED BY <1>8, <2>1, FlatWriteStep
<1>9. Len(vs) \in U
  BY <1>7, <1>8, Induction
<1>10. Moves(S, x, f[Len(vs)])
  BY <1>9
<1>11. Moves(S, x, [f[Len(vs)] EXCEPT !.r.rsp = FlatSlot(rsp, Len(vs))])
  BY <1>10, FieldStep
<1> QED BY <1>5, <1>10, <1>11

LEMMA ReadParamsDef ==
    ASSUME NEW t, NEW d, d.params \in Nat
    PROVE  \E g : /\ g = [i \in 0 .. d.params |->
                            IF i = 0 THEN t ELSE ReadParam(t, Params(t, d)[i], GateWidth(d), g[i - 1])]
                  /\ ReadParams(t, d) = g[d.params]
<1> DEFINE R(i, u) == ReadParam(t, Params(t, d)[i], GateWidth(d), u)
<1> HIDE DEF R
<1> DEFINE T == {k \in Nat : \E g : g = [i \in 0 .. k |-> IF i = 0 THEN t ELSE R(i, g[i - 1])]}
<1>1. 0 \in T
  <2> DEFINE g == [i \in 0 .. 0 |-> t]
  <2>1. g = [i \in 0 .. 0 |-> IF i = 0 THEN t ELSE R(i, g[i - 1])]
    OBVIOUS
  <2> QED BY <2>1
<1>2. ASSUME NEW k \in Nat, k \in T PROVE k + 1 \in T
  <2>1. PICK g : g = [i \in 0 .. k |-> IF i = 0 THEN t ELSE R(i, g[i - 1])]
    BY <1>2
  <2> DEFINE h == [i \in 0 .. k + 1 |-> IF i = k + 1 THEN R(k + 1, g[k]) ELSE g[i]]
  <2>2. \A i \in 0 .. k + 1 : h[i] = IF i = 0 THEN t ELSE R(i, h[i - 1])
    BY <2>1
  <2>3. h = [i \in 0 .. k + 1 |-> h[i]]
    OBVIOUS
  <2> HIDE DEF h
  <2>4. h = [i \in 0 .. k + 1 |-> IF i = 0 THEN t ELSE R(i, h[i - 1])]
    BY <2>2, <2>3
  <2> QED BY <2>4
<1>3. PICK g : g = [i \in 0 .. d.params |-> IF i = 0 THEN t ELSE R(i, g[i - 1])]
  BY <1>1, <1>2, Induction
<1> DEFINE f == CHOOSE f : f = [i \in 0 .. d.params |-> IF i = 0 THEN t ELSE R(i, f[i - 1])]
<1>4. f = [i \in 0 .. d.params |-> IF i = 0 THEN t ELSE R(i, f[i - 1])]
  BY <1>3
<1>5. ReadParams(t, d) = f[d.params]
  BY DEF ReadParams, R
<1> HIDE DEF f
<1> QED BY <1>4, <1>5 DEF R

LEMMA ReadParamStep ==
    ASSUME NEW S, NEW x, NEW t, NEW s0, NEW off, NEW n, Moves(S, x, t)
    PROVE  Moves(S, x, ReadParam(s0, off, n, t))
<1>1. Moves(S, x, Need(t, StackLegal(s0, off, n, FALSE), Ss(0)))
  BY NeedStep
<1> QED BY <1>1, NeedStep DEF ReadParam

LEMMA ReadParamsStep ==
    ASSUME NEW S, NEW x, NEW t, NEW d, d.params \in Nat, Moves(S, x, t)
    PROVE  Moves(S, x, ReadParams(t, d))
<1>1. PICK g : /\ g = [i \in 0 .. d.params |->
                         IF i = 0 THEN t ELSE ReadParam(t, Params(t, d)[i], GateWidth(d), g[i - 1])]
               /\ ReadParams(t, d) = g[d.params]
  BY ReadParamsDef
<1> DEFINE T == {k \in Nat : k <= d.params => Moves(S, x, g[k])}
<1>2. 0 \in T
  BY <1>1
<1>3. ASSUME NEW k \in Nat, k \in T PROVE k + 1 \in T
  <2> SUFFICES ASSUME k + 1 <= d.params PROVE Moves(S, x, g[k + 1])
    OBVIOUS
  <2>1. g[k + 1] = ReadParam(t, Params(t, d)[k + 1], GateWidth(d), g[k])
    BY <1>1
  <2> QED BY <1>3, <2>1, ReadParamStep
<1>4. d.params \in T
  BY <1>2, <1>3, Induction
<1> QED BY <1>1, <1>4

-----------------------------------------------------------------------------
(* Frames are sequences, whatever they hold.                               *)

IsSeq(q) == \E V : q \in Seq(V)

LEMMA SeqLen == ASSUME NEW q, IsSeq(q) PROVE Len(q) \in Nat
BY DEF IsSeq

LEMMA ConcatSeq ==
    ASSUME NEW a, NEW b, IsSeq(a), IsSeq(b)
    PROVE  IsSeq(a \o b)
<1>1. PICK A : a \in Seq(A)
  BY DEF IsSeq
<1>2. PICK D : b \in Seq(D)
  BY DEF IsSeq
<1>3. a \in Seq(A \cup D) /\ b \in Seq(A \cup D)
  BY <1>1, <1>2
<1>4. a \o b \in Seq(A \cup D)
  BY <1>3
<1> QED BY <1>4 DEF IsSeq

LEMMA ReverseSeq ==
    ASSUME NEW n \in Nat, NEW q, DOMAIN q = 1 .. n, q = [i \in 1 .. n |-> q[i]]
    PROVE  IsSeq(Reverse(q))
<1> DEFINE V == {q[i] : i \in 1 .. n}
<1>1. q \in Seq(V) /\ Len(q) = n
  OBVIOUS
<1>2. Reverse(q) = [i \in 1 .. n |-> q[(n - i) + 1]]
  BY <1>1 DEF Reverse
<1>3. \A i \in 1 .. n : q[(n - i) + 1] \in V
  OBVIOUS
<1>4. Reverse(q) \in [1 .. n -> V]
  BY <1>2, <1>3
<1> HIDE DEF V
<1>5. Reverse(q) \in Seq(V)
  BY <1>4, SeqDef
<1> QED BY <1>5 DEF IsSeq

LEMMA TupleSeq ==
    /\ IsSeq(<<>>)
    /\ \A a : IsSeq(<<a>>)
    /\ \A a, b : IsSeq(<<a, b>>)
    /\ \A a, b, d : IsSeq(<<a, b, d>>)
    /\ \A a, b, d, e : IsSeq(<<a, b, d, e>>)
    /\ \A a, b, d, e, f : IsSeq(<<a, b, d, e, f>>)
<1>1. IsSeq(<<>>)
  <2>1. <<>> \in Seq({})
    OBVIOUS
  <2> QED BY <2>1 DEF IsSeq
<1>2. ASSUME NEW a PROVE IsSeq(<<a>>)
  <2>1. <<a>> \in Seq({a})
    OBVIOUS
  <2> QED BY <2>1 DEF IsSeq
<1>3. ASSUME NEW a, NEW b PROVE IsSeq(<<a, b>>)
  <2>1. <<a, b>> \in Seq({a, b})
    OBVIOUS
  <2> QED BY <2>1 DEF IsSeq
<1>4. ASSUME NEW a, NEW b, NEW d PROVE IsSeq(<<a, b, d>>)
  <2>1. <<a, b, d>> \in Seq({a, b, d})
    OBVIOUS
  <2> QED BY <2>1 DEF IsSeq
<1>5. ASSUME NEW a, NEW b, NEW d, NEW e PROVE IsSeq(<<a, b, d, e>>)
  <2>1. <<a, b, d, e>> \in Seq({a, b, d, e})
    OBVIOUS
  <2> QED BY <2>1 DEF IsSeq
<1>6. ASSUME NEW a, NEW b, NEW d, NEW e, NEW f PROVE IsSeq(<<a, b, d, e, f>>)
  <2>1. <<a, b, d, e, f>> \in Seq({a, b, d, e, f})
    OBVIOUS
  <2> QED BY <2>1 DEF IsSeq
<1> QED BY <1>1, <1>2, <1>3, <1>4, <1>5, <1>6

-----------------------------------------------------------------------------
(* Tables, stacks and segment loads.                                       *)

LEMMA TableStep ==
    ASSUME NEW S, NEW x, NEW t, NEW k, Moves(S, x, t)
    PROVE  /\ Moves(S, x, read_descriptor(t, k))
           /\ Moves(S, x, tss_stack(t, k)) /\ Moves(S, x, tss_rsp(t, k)) /\ Moves(S, x, tss_ist(t, k))
<1>1. Moves(S, x, read_descriptor(t, k))
  BY NeedStep DEF read_descriptor
<1>2. Moves(S, x, tss_stack(t, k))
  BY NeedStep DEF tss_stack
<1>3. Moves(S, x, tss_rsp(t, k))
  BY NeedStep DEF tss_rsp
<1>4. Moves(S, x, tss_ist(t, k))
  BY NeedStep DEF tss_ist
<1> QED BY <1>1, <1>2, <1>3, <1>4

LEMMA SetSpStep ==
    ASSUME NEW S, NEW x, NEW t, NEW d, NEW sp, Moves(S, x, t)
    PROVE  Moves(S, x, SetSp(t, d, sp))
<1>1. \/ SetSp(t, d, sp) = t
      \/ \E v : SetSp(t, d, sp) = [t EXCEPT !.r.rsp = v]
  BY DEF SetSp
<1>2. \A v : Moves(S, x, [t EXCEPT !.r.rsp = v])
  BY FieldStep
<1> QED BY <1>1, <1>2

LEMMA NullSsStep ==
    ASSUME NEW S, NEW x, NEW t, NEW rpl, Moves(S, x, t), "SS" \in S
    PROVE  Moves(S, x, set_null_ss(t, rpl))
BY SetSegStep DEF set_null_ss, SegNames

LEMMA SwitchStep ==
    ASSUME NEW S, NEW x, NEW t, NEW ss, NEW sp, NEW level, Moves(S, x, t), "SS" \in S
    PROVE  Moves(S, x, switch_stack(t, ss, sp, level))
<1> DEFINE s1 == Need(Need(t, ~IsNull(ss), Ts(0)), Rpl(ss) = level, Ts(Code(ss)))
           s2 == Need(s1, Known(ss), Ts(Code(ss)))
           s3 == Need(s2, WritableData(Desc(ss)) /\ Desc(ss).dpl = level, Ts(Code(ss)))
           s4 == Need(s3, Desc(ss).p, Ss(Code(ss)))
           s5 == commit_seg(s4, "SS", ss, Desc(ss))
<1>1. Moves(S, x, s1)
  BY NeedStep
<1>2. Moves(S, x, s4)
  <2> HIDE DEF s1
  <2>1. Moves(S, x, s2)
    BY <1>1, NeedStep
  <2> HIDE DEF s2
  <2>2. Moves(S, x, s3)
    BY <2>1, NeedStep
  <2> HIDE DEF s3
  <2> QED BY <2>2, NeedStep
<1>3. switch_stack(t, ss, sp, level) = IF Ok(s4) THEN SetSp(s5, Desc(ss), sp) ELSE s4
  BY DEF switch_stack
<1> HIDE DEF s4
<1>4. Moves(S, x, s5)
  BY <1>2, CommitStep DEF SegNames
<1> HIDE DEF s5
<1> QED BY <1>2, <1>3, <1>4, SetSpStep

-----------------------------------------------------------------------------
(* Delivery of an event.                                                   *)

LEMMA IntGateStep ==
    ASSUME NEW S, NEW x, NEW t, NEW e, NEW class, Moves(S, x, t)
    PROVE  Moves(S, x, IntGate(t, e, class))
<1> DEFINE k == Ext(class)
           idt == e.vector * 8 + 2 + k
           g == c.idt[e.vector]
           gd == Desc(g.gsel)
           s1 == Need(t, e.vector \in DOMAIN c.idt, Gp(idt))
           s2 == Need(s1, g.kind \in {"int", "trap"} /\ (c.long => g.wide), Gp(idt))
           s3 == Need(s2, class = "SoftInt" => g.dpl >= cpl(t.r), Gp(idt))
           s4 == Need(Need(s3, g.p, Np(idt)), ~IsNull(g.gsel), Gp(k))
           s5 == read_descriptor(s4, g.gsel)
           s6 == Need(s5, gd.kind = "code" /\ gd.dpl <= cpl(t.r), Gp(Code(g.gsel) + k))
           s7 == Need(s6, gd.p, Np(Code(g.gsel) + k))
           s8 == Need(s7, c.long => gd.l /\ ~gd.db, Gp(Code(g.gsel) + k))
           s9 == Need(s8, IF c.long THEN canonical(gate_off(g)) ELSE gate_off(g) <= gd.limit, Gp(k))
<1>0. IntGate(t, e, class) = s9
  BY Zenon DEF IntGate
<1>1. Moves(S, x, s1)
  BY NeedStep
<1> HIDE DEF s1, k, idt, g, gd
<1>2. Moves(S, x, s2)
  BY <1>1, NeedStep
<1> HIDE DEF s2
<1>3. Moves(S, x, s3)
  BY <1>2, NeedStep
<1> HIDE DEF s3
<1>4. Moves(S, x, s4)
  BY <1>3, NeedStep
<1> HIDE DEF s4
<1>5. Moves(S, x, s5)
  BY <1>4, TableStep
<1> HIDE DEF s5
<1>6. Moves(S, x, s6)
  BY <1>5, NeedStep
<1> HIDE DEF s6
<1>7. Moves(S, x, s7)
  BY <1>6, NeedStep
<1> HIDE DEF s7
<1>8. Moves(S, x, s8)
  BY <1>7, NeedStep
<1> HIDE DEF s8
<1> QED BY <1>0, <1>8, NeedStep

LEMMA LongStep ==
    ASSUME NEW S, NEW x, NEW t, NEW e, NEW class, Moves(S, x, t), {"CS", "SS", "FL"} \subseteq S,
           IsSeq(e.code)
    PROVE  Moves(S, x, interrupt_long(t, e, class))
<1> DEFINE g == c.idt[e.vector]
           gd == Desc(g.gsel)
           level == IF gd.conf THEN cpl(t.r) ELSE gd.dpl
           change == level < cpl(t.r)
           rsp == IF g.ist # 0 THEN c.tss.ist[g.ist] ELSE IF change THEN c.tss.sp[level] ELSE stack_ptr(t)
           vs == <<Sel(t.r, "SS"), stack_ptr(t), Image(t.r.fl), Sel(t.r, "CS"), t.r.rip>> \o e.code
           a == IntGate(t, e, class)
           b == IF g.ist # 0 THEN tss_ist(a, g.ist) ELSE IF change THEN tss_rsp(a, level) ELSE a
           n == IF change THEN set_null_ss(b, level) ELSE b
           f == push64_at(n, rsp - (rsp % 8), vs)
           w == Enter(f, g.gsel, gd, level, gate_off(g))
           z == SetFlags(w, HandlerFlags(t.r.fl, g))
<1>1. interrupt_long(t, e, class) = IF ~Ok(a) THEN a ELSE z
  BY Zenon DEF interrupt_long
<1>2. Moves(S, x, a)
  BY IntGateStep
<1>3. Len(vs) \in Nat
  BY TupleSeq, ConcatSeq, SeqLen
<1> HIDE DEF a, g, gd, level, change, rsp, vs
<1>4. Moves(S, x, b)
  BY <1>2, TableStep
<1> HIDE DEF b
<1>5. Moves(S, x, n)
  BY <1>4, NullSsStep
<1> HIDE DEF n
<1>6. Moves(S, x, f)
  BY <1>3, <1>5, Push64Step
<1> HIDE DEF f
<1>7. Moves(S, x, w)
  BY <1>6, EnterStep
<1> HIDE DEF w
<1>8. Moves(S, x, z)
  BY <1>7, SetFlagsStep
<1> QED BY <1>1, <1>2, <1>8

LEMMA FrameStep ==
    ASSUME NEW S, NEW x, NEW t, NEW g, NEW outer, NEW code, Moves(S, x, t), IsSeq(outer), IsSeq(code)
    PROVE  Moves(S, x, push_int_frame(t, g, outer, code))
<1>1. Len(outer \o <<Image(t.r.fl), Sel(t.r, "CS"), t.r.rip>> \o code) \in Nat
  BY TupleSeq, ConcatSeq, SeqLen
<1> QED BY <1>1, PushAllStep DEF push_int_frame

LEMMA V86FrameStep ==
    ASSUME NEW S, NEW x, NEW t, NEW g, NEW old, NEW osp, NEW code, Moves(S, x, t), IsSeq(code)
    PROVE  Moves(S, x, push_v86_frame(t, g, old, osp, code))
<1> DEFINE p == <<Sel(old, "GS"), Sel(old, "FS"), Sel(old, "DS"), Sel(old, "ES"), Sel(old, "SS"), osp,
                  Image(old.fl), Sel(old, "CS"), old.rip>>
<1>1. IsSeq(p)
  <2> DEFINE V == {Sel(old, "GS"), Sel(old, "FS"), Sel(old, "DS"), Sel(old, "ES"), Sel(old, "SS"), osp,
                   Image(old.fl), Sel(old, "CS"), old.rip}
  <2>1. p \in Seq(V)
    OBVIOUS
  <2> QED BY <2>1 DEF IsSeq
<1>2. push_v86_frame(t, g, old, osp, code) = PushAll(t, GateWidth(g), p \o code)
  BY DEF push_v86_frame
<1> HIDE DEF p
<1>3. Len(p \o code) \in Nat
  BY <1>1, ConcatSeq, SeqLen
<1> QED BY <1>2, <1>3, PushAllStep

LEMMA DataNullStep ==
    ASSUME NEW S, NEW x, NEW t, Moves(S, x, t), DataSegs \subseteq S, t.cold
    PROVE  Moves(S, x, [t EXCEPT !.r.seg = [i \in DOMAIN @ |->
                           IF i \in DataSegs THEN [sel |-> 0, d |-> NullD] ELSE @[i]]])
<1> DEFINE nd == [sel |-> 0, d |-> NullD]
<1> HIDE DEF nd
<1> DEFINE u == [t EXCEPT !.r.seg = [i \in DOMAIN @ |-> IF i \in DataSegs THEN nd ELSE @[i]]]
<1>1. IsCpu(t)
  BY MovesCpu
<1>2. IsCpu(u)
  BY <1>1 DEF IsCpu, IsRegs, CpuNames, RegNames
<1>3. /\ u.cold /\ u.saved = t.saved /\ u.ev = t.ev /\ u.trap = t.trap
      /\ u.m64 = t.m64 /\ u.err = t.err
  BY <1>1 DEF IsCpu, CpuNames
<1>4. /\ u.r.rcx = t.r.rcx /\ u.r.r11 = t.r.r11 /\ u.r.kgs = t.r.kgs /\ u.r.fl = t.r.fl
      /\ \A j \in SegNames \ DataSegs : u.r.seg[j] = t.r.seg[j]
  BY <1>1 DEF IsCpu, IsRegs, CpuNames, RegNames
<1>5. u.r.rip = t.r.rip
  BY <1>1 DEF IsCpu, IsRegs, CpuNames, RegNames
<1> HIDE DEF u
<1>6. Moves(DataSegs, t, u)
  BY <1>2, <1>3, <1>4 DEF Moves, Origin, Ok
<1>7. Moves(S \cup DataSegs, x, u)
  BY <1>6, MovesTrans
<1>8. Moves(S, x, u)
  BY <1>7, MovesMore
<1> QED BY <1>8 DEF u, nd

LEMMA V86Step ==
    ASSUME NEW S, NEW x, NEW t, NEW e, NEW g, NEW gd, NEW class, Moves(S, x, t),
           {"CS", "SS", "FL"} \cup DataSegs \subseteq S, IsSeq(e.code)
    PROVE  Moves(S, x, v86_interrupt(t, e, g, gd, class))
<1> DEFINE a == Need(t, gd.dpl = 0 /\ ~gd.conf, Gp(Code(g.gsel) + Ext(class)))
           p == prepare_cold_write(a)
           b == SetFlags(tss_stack(p, 0), HandlerFlags(t.r.fl, g) \ {"VM"})
           w == switch_stack(b, c.tss.ss[0], InnerSp(0), 0)
           f == push_v86_frame(w, g, t.r, stack_ptr(t), e.code)
           n == [f EXCEPT !.r.seg = [i \in DOMAIN @ |->
                        IF i \in DataSegs THEN [sel |-> 0, d |-> NullD] ELSE @[i]]]
           k == commit_seg(n, "CS", Code(g.gsel), gd)
           z == SetRip(k, gate_off(g))
<1>1. v86_interrupt(t, e, g, gd, class) = IF ~Ok(a) THEN a ELSE IF Ok(f) THEN z ELSE f
  BY Zenon DEF v86_interrupt
<1>2. Moves(S, x, a)
  BY NeedStep
<1> HIDE DEF a
<1>3. Moves(S, x, p) /\ p.cold /\ IsCpu(p)
  BY <1>2, ColdStep, ColdMoves, MovesCpu
<1> HIDE DEF p
<1>4. Moves(S, p, p)
  BY <1>3, MovesRefl, MovesMore
<1>5. Moves(S, p, tss_stack(p, 0))
  BY <1>4, TableStep
<1>6. Moves(S, p, b)
  BY <1>5, SetFlagsStep
<1> HIDE DEF b
<1>7. Moves(S, p, w)
  BY <1>6, SwitchStep
<1> HIDE DEF w
<1>8. Moves(S, p, f)
  BY <1>7, V86FrameStep
<1> HIDE DEF f
<1>9. f.cold
  BY <1>3, <1>8 DEF Moves
<1>10. Moves(S, p, n)
  BY <1>8, <1>9, DataNullStep
<1> HIDE DEF n
<1>11. Moves(S, p, k)
  BY <1>10, CommitStep DEF SegNames
<1> HIDE DEF k
<1>12. Moves(S, p, z)
  BY <1>11, SetRipStep
<1> HIDE DEF z
<1>13. Moves(S \cup S, x, z) /\ Moves(S \cup S, x, f)
  BY <1>3, <1>8, <1>12, MovesTrans
<1>14. Moves(S, x, z) /\ Moves(S, x, f)
  BY <1>13, MovesMore
<1> QED BY <1>1, <1>2, <1>14

LEMMA LegacyStep ==
    ASSUME NEW S, NEW x, NEW t, NEW e, NEW class, Moves(S, x, t), {"CS", "SS", "FL"} \subseteq S,
           "VM" \in t.r.fl => DataSegs \subseteq S, IsSeq(e.code)
    PROVE  Moves(S, x, interrupt_legacy(t, e, class))
<1> DEFINE g == c.idt[e.vector]
           gd == Desc(g.gsel)
           a == IntGate(t, e, class)
           b == switch_stack(tss_stack(a, gd.dpl), c.tss.ss[gd.dpl], InnerSp(gd.dpl), gd.dpl)
           i == push_int_frame(b, g, <<Sel(t.r, "SS"), stack_ptr(t)>>, e.code)
           j == push_int_frame(a, g, <<>>, e.code)
           f == IF Inner(gd, cpl(t.r)) THEN Enter(i, g.gsel, gd, gd.dpl, gate_off(g))
                ELSE Enter(j, g.gsel, gd, cpl(t.r), gate_off(g))
           v == v86_interrupt(a, e, g, gd, class)
           z == SetFlags(f, HandlerFlags(t.r.fl, g))
<1>1. interrupt_legacy(t, e, class) = IF ~Ok(a) THEN a ELSE IF "VM" \in t.r.fl THEN v ELSE z
  BY Zenon DEF interrupt_legacy
<1>2. Moves(S, x, a)
  BY IntGateStep
<1> HIDE DEF a, g, gd
<1>3. "VM" \in t.r.fl => Moves(S, x, v)
  BY <1>2, V86Step
<1> HIDE DEF v
<1>4. Moves(S, x, b)
  BY <1>2, TableStep, SwitchStep
<1> HIDE DEF b
<1>5. Moves(S, x, i) /\ Moves(S, x, j)
  BY <1>2, <1>4, FrameStep, TupleSeq
<1> HIDE DEF i, j
<1>6. Moves(S, x, f)
  BY <1>5, EnterStep
<1> HIDE DEF f
<1>7. Moves(S, x, z)
  BY <1>6, SetFlagsStep
<1> QED BY <1>1, <1>2, <1>3, <1>7

LEMMA RealStep ==
    ASSUME NEW S, NEW x, NEW t, NEW vector, NEW class, Moves(S, x, t), {"CS", "FL"} \subseteq S
    PROVE  Moves(S, x, interrupt_real(t, vector, class))
<1> DEFINE g == c.idt[vector]
           p == prepare_cold_write(t)
           a == Need(p, vector \in DOMAIN c.idt, Gp(vector * 8 + 2 + Ext(class)))
           b == PushAll(a, 1, <<Image(t.r.fl), Sel(t.r, "CS"), t.r.rip>>)
           z == [b EXCEPT !.r.fl = @ \ {"IF", "TF"}, !.r.rip = g.goff,
                          !.r.seg["CS"] = RealSelector(@, g.gsel)]
<1>1. interrupt_real(t, vector, class) = IF ~Ok(b) THEN b ELSE z
  BY Zenon DEF interrupt_real
<1>2. Moves(S, x, p) /\ p.cold /\ IsCpu(p)
  BY ColdStep, ColdMoves, MovesCpu
<1> HIDE DEF p, g
<1>3. Moves(S, p, p)
  BY <1>2, MovesRefl, MovesMore
<1>4. Moves(S, p, a)
  BY <1>3, NeedStep
<1> HIDE DEF a
<1>5. Len(<<Image(t.r.fl), Sel(t.r, "CS"), t.r.rip>>) \in Nat
  BY TupleSeq, SeqLen
<1>6. Moves(S, p, b)
  BY <1>4, <1>5, PushAllStep
<1> HIDE DEF b
<1>7. b.cold /\ IsCpu(b)
  BY <1>2, <1>6 DEF Moves
<1>8. Moves({"CS", "FL"}, b, z)
  <2>1. IsCpu(z)
    <3>0. z.cold = b.cold /\ z.saved = b.saved
      BY <1>7 DEF IsCpu, CpuNames
    <3>1. z = [y \in CpuNames |-> z[y]]
      <4>1. DOMAIN b = CpuNames
        BY <1>7 DEF IsCpu
      <4>2. z = [y \in DOMAIN b |-> z[y]]
        OBVIOUS
      <4> QED BY <4>1, <4>2, Zenon
    <3>2. z.r = [y \in RegNames |-> z.r[y]]
      BY <1>7 DEF IsCpu, IsRegs, CpuNames, RegNames
    <3>3. z.r.seg = [i \in SegNames |-> z.r.seg[i]]
      BY <1>7 DEF IsCpu, IsRegs, CpuNames, RegNames
    <3> HIDE DEF z
    <3> QED BY <1>7, <3>0, <3>1, <3>2, <3>3 DEF IsCpu, IsRegs
  <2>2. /\ z.cold /\ z.saved = b.saved /\ z.ev = b.ev /\ z.trap = b.trap
        /\ z.m64 = b.m64 /\ z.err = b.err
    BY <1>7 DEF IsCpu, CpuNames
  <2>3. /\ z.r.rcx = b.r.rcx /\ z.r.r11 = b.r.r11 /\ z.r.kgs = b.r.kgs
        /\ \A j \in SegNames \ {"CS"} : z.r.seg[j] = b.r.seg[j]
    BY <1>7 DEF IsCpu, IsRegs, CpuNames, RegNames
  <2> HIDE DEF z
  <2> QED BY <1>7, <2>1, <2>2, <2>3 DEF Moves, Origin, Ok
<1> HIDE DEF z
<1>9. Moves(S \cup {"CS", "FL"}, p, z)
  BY <1>6, <1>8, MovesTrans
<1>10. Moves(S \cup (S \cup {"CS", "FL"}), x, z) /\ Moves(S \cup S, x, b)
  BY <1>2, <1>6, <1>9, MovesTrans
<1>11. Moves(S, x, z) /\ Moves(S, x, b)
  BY <1>10, MovesMore
<1> QED BY <1>1, <1>11

(* A delivery that succeeded: what the frame does not hold is as it was.   *)
Preserved(t, u) ==
    /\ u.r.rcx = t.r.rcx /\ u.r.r11 = t.r.r11 /\ u.r.kgs = t.r.kgs
    /\ "VM" \notin t.r.fl => \A i \in DataSegs : u.r.seg[i] = t.r.seg[i]

Touched(t) == {"CS", "SS", "FL"} \cup (IF "VM" \in t.r.fl THEN DataSegs ELSE {})

LEMMA AttemptedStep ==
    ASSUME NEW t, IsCpu(t), NEW e, IsSeq(e.code), NEW class
    PROVE  Moves(Touched(t), t, Attempted(t, e, class))
<1>1. Moves(Touched(t), t, t)
  BY MovesRefl, MovesMore
<1>2. /\ {"CS", "SS", "FL"} \subseteq Touched(t) /\ {"CS", "FL"} \subseteq Touched(t)
      /\ "VM" \in t.r.fl => DataSegs \subseteq Touched(t)
  BY DEF Touched
<1>3. Moves(Touched(t), t, interrupt_long(t, e, class))
  BY <1>1, <1>2, LongStep
<1>4. Moves(Touched(t), t, interrupt_legacy(t, e, class))
  BY <1>1, <1>2, LegacyStep
<1>5. Moves(Touched(t), t, interrupt_real(t, e.vector, class))
  BY <1>1, <1>2, RealStep
<1> QED BY <1>3, <1>4, <1>5 DEF Attempted, interrupt_protected

LEMMA RaiseStep ==
    ASSUME NEW t, IsCpu(t), NEW e, IsSeq(e.code), NEW class
    PROVE  /\ IsCpu(raise(t, e, class))
           /\ raise(t, e, class).trap = t.trap /\ raise(t, e, class).m64 = t.m64
           /\ Ok(raise(t, e, class)) => /\ raise(t, e, class).ev = [vector |-> e.vector, code |-> e.code, class |-> class]
                                        /\ Preserved(t, raise(t, e, class))
           /\ ~Ok(raise(t, e, class)) => /\ Moves({}, t, raise(t, e, class))
                                         /\ raise(t, e, class).r = t.r
<1> DEFINE a == Attempted(t, e, class)
           ev == [vector |-> e.vector, code |-> e.code, class |-> class]
           d == [a EXCEPT !.ev = ev]
           f == [a EXCEPT !.r = t.r]
<1>1. Moves(Touched(t), t, a) /\ IsCpu(a)
  BY AttemptedStep, MovesCpu
<1>2. raise(t, e, class) = IF Ok(a) THEN d ELSE f
  BY DEF raise, Delivered
<1> HIDE DEF a, ev
<1>3. IsCpu(d) /\ d.r = a.r /\ d.trap = a.trap /\ d.ev = ev /\ d.err = a.err /\ d.m64 = a.m64
  BY <1>1 DEF IsCpu, IsRegs, CpuNames
<1>4. /\ f.r = t.r /\ f.trap = a.trap /\ f.ev = a.ev /\ f.err = a.err
      /\ f.cold = a.cold /\ f.saved = a.saved /\ f.m64 = a.m64
  BY <1>1 DEF IsCpu, IsRegs, CpuNames
<1>5. IsCpu(f)
  BY <1>1 DEF IsCpu, IsRegs, CpuNames
<1> HIDE DEF d, f
<1>6. Preserved(t, d)
  BY <1>1, <1>3 DEF Moves, Touched, Preserved, SegNames, DataSegs
<1>7. Moves({}, t, f)
  <2>1. f.cold => a.cold /\ f.saved = a.saved /\ Origin(a) = a.saved /\ Origin(f) = a.saved
    BY <1>4 DEF Origin
  <2>2. ~f.cold => ~t.cold /\ Origin(f) = t.r /\ Origin(t) = t.r
    BY <1>1, <1>4 DEF Origin, Moves
  <2>3. Origin(f).seg = Origin(t).seg /\ Origin(f).kgs = Origin(t).kgs
    BY <1>1, <2>1, <2>2 DEF Moves
  <2> QED BY <1>1, <1>4, <1>5, <2>3 DEF Moves, Ok
<1>8. Ok(a) = Ok(d) /\ Ok(a) = Ok(f)
  BY <1>3, <1>4 DEF Ok
<1> QED BY <1>1, <1>2, <1>3, <1>4, <1>5, <1>6, <1>7, <1>8 DEF Moves, ev

(* A delivery in progress that began in t.                                 *)
Delivering(t, y) ==
    /\ y = [n \in {"s", "e", "class", "df", "over"} |-> y[n]]
    /\ IsCpu(y.s) /\ Ok(y.s) /\ y.s.trap = t.trap /\ IsSeq(y.e.code) /\ y.class # "none"
    /\ Preserved(t, y.s)
    /\ y.s.ev = NoEvent => y.s.r = t.r

LEMMA ExceptionSeq == ASSUME NEW err PROVE IsSeq(Exception(err).code)
<1>1. IsSeq(<<err[2]>>) /\ IsSeq(<<>>)
  BY TupleSeq
<1> QED BY <1>1 DEF Exception

LEMMA AttemptStep ==
    ASSUME NEW t, NEW y, Delivering(t, y)
    PROVE  Delivering(t, Attempt(y))
<1> SUFFICES ASSUME ~y.over, y.s.ev = NoEvent PROVE Delivering(t, Raised(y, raise(y.s, y.e, y.class)))
  BY DEF Attempt
<1> DEFINE u == raise(y.s, y.e, y.class)
<1>1. /\ IsCpu(u) /\ u.trap = t.trap
      /\ Ok(u) => u.ev = [vector |-> y.e.vector, code |-> y.e.code, class |-> y.class] /\ Preserved(y.s, u)
      /\ ~Ok(u) => u.r = t.r
  BY RaiseStep DEF Delivering
<1>2. y.s.r = t.r
  BY DEF Delivering
<1> HIDE DEF u
<1>3. ASSUME Ok(u) PROVE Delivering(t, Raised(y, u))
  <2> DEFINE z == [y EXCEPT !.s = u]
  <2>1. Raised(y, u) = z
    BY <1>3 DEF Raised
  <2>2. z.s = u /\ z.e = y.e /\ z.class = y.class /\ z = [n \in {"s", "e", "class", "df", "over"} |-> z[n]]
    BY DEF Delivering
  <2>3. Preserved(t, u)
    BY <1>1, <1>2, <1>3 DEF Preserved
  <2>4. u.ev.class = y.class /\ NoEvent.class = "none"
    BY <1>1, <1>3 DEF NoEvent
  <2>5. u.ev # NoEvent
    BY <2>4 DEF Delivering
  <2> HIDE DEF z
  <2> QED BY <1>1, <1>3, <2>1, <2>2, <2>3, <2>5 DEF Delivering
<1>4. ASSUME ~Ok(u) PROVE Delivering(t, Raised(y, u))
  <2> DEFINE w == [u EXCEPT !.err = NoErr]
             df == is_double_fault(y.e.vector, y.class, u.err[1])
             e == IF df THEN [vector |-> 8, code |-> <<0>>] ELSE Exception(u.err)
             z == [s |-> w, class |-> "Fault", df |-> df, over |-> y.df, e |-> e]
  <2>1. Raised(y, u) = z
    BY <1>4, Zenon DEF Raised, Second
  <2>2. IsCpu(w) /\ w.r = t.r /\ w.trap = t.trap /\ Ok(w)
    BY <1>1, <1>4 DEF IsCpu, IsRegs, CpuNames, Ok
  <2>3. IsSeq(e.code)
    <3>1. IsSeq(<<0>>) /\ IsSeq(Exception(u.err).code)
      BY TupleSeq, ExceptionSeq
    <3> QED BY <3>1
  <2> HIDE DEF w, df, e
  <2>4. /\ z.s = w /\ z.e = e /\ z.class = "Fault"
        /\ z = [n \in {"s", "e", "class", "df", "over"} |-> z[n]]
    OBVIOUS
  <2> HIDE DEF z
  <2>5. Preserved(t, w)
    BY <2>2 DEF Preserved
  <2> QED BY <2>1, <2>2, <2>3, <2>4, <2>5 DEF Delivering
<1> QED BY <1>3, <1>4 DEF u

LEMMA DeliverStep ==
    ASSUME NEW t, IsCpu(t), Ok(t), NEW e, IsSeq(e.code), NEW class, class # "none", t.ev = NoEvent
    PROVE  /\ IsCpu(deliver(t, e, class)) /\ Ok(deliver(t, e, class))
           /\ deliver(t, e, class).trap = t.trap
           /\ Preserved(t, deliver(t, e, class))
<1> DEFINE b == [s |-> t, e |-> e, class |-> class, df |-> FALSE, over |-> FALSE]
<1>1. Delivering(t, b)
  <2>1. /\ b.s = t /\ b.e = e /\ b.class = class
        /\ b = [n \in {"s", "e", "class", "df", "over"} |-> b[n]]
    OBVIOUS
  <2> HIDE DEF b
  <2> QED BY <2>1 DEF Delivering, Preserved
<1> HIDE DEF b
<1> DEFINE a1 == Attempt(b)
           a2 == Attempt(a1)
           a3 == Attempt(a2)
           a4 == Attempt(a3)
           h == [k \in 0 .. 4 |-> IF k = 0 THEN b ELSE IF k = 1 THEN a1 ELSE IF k = 2 THEN a2
                                  ELSE IF k = 3 THEN a3 ELSE a4]
           f == CHOOSE f : f = [k \in 0 .. 4 |-> IF k = 0 THEN b ELSE Attempt(f[k - 1])]
<1>2. h = [k \in 0 .. 4 |-> IF k = 0 THEN b ELSE Attempt(h[k - 1])]
  OBVIOUS
<1>3. f = [k \in 0 .. 4 |-> IF k = 0 THEN b ELSE Attempt(f[k - 1])]
  BY <1>2
<1>4. deliver(t, e, class) = IF f[4].s.ev # NoEvent THEN f[4].s ELSE [f[4].s EXCEPT !.shutdown = TRUE]
  BY DEF deliver, b
<1> HIDE DEF f, h, a1, a2, a3, a4
<1>5. f[0] = b /\ f[1] = Attempt(f[0]) /\ f[2] = Attempt(f[1]) /\ f[3] = Attempt(f[2]) /\ f[4] = Attempt(f[3])
  BY <1>3
<1>6. Delivering(t, f[4])
  BY <1>1, <1>5, AttemptStep
<1> DEFINE u == f[4].s
           w == [u EXCEPT !.shutdown = TRUE]
<1>7. IsCpu(u) /\ Ok(u) /\ u.trap = t.trap /\ Preserved(t, u)
  BY <1>6 DEF Delivering
<1> HIDE DEF u
<1>8. IsCpu(w) /\ w.err = u.err /\ w.trap = u.trap /\ w.r = u.r
  BY <1>7 DEF IsCpu, IsRegs, CpuNames
<1> HIDE DEF w
<1>9. Ok(w) /\ Preserved(t, w)
  BY <1>7, <1>8 DEF Ok, Preserved
<1> QED BY <1>4, <1>7, <1>8, <1>9 DEF u, w

-----------------------------------------------------------------------------
(* Far transfers, returns and segment loads.                               *)

LEMMA NeedOk ==
    ASSUME NEW t, IsCpu(t), NEW ok \in BOOLEAN, NEW a, NEW b, Ok(Need(t, ok, <<a, b>>))
    PROVE  ok /\ Ok(t) /\ Need(t, ok, <<a, b>>) = t
BY DEF Need, Ok, IsCpu, CpuNames, NoErr

LEMMA FarRealStep ==
    ASSUME NEW S, NEW x, NEW t, NEW sel, NEW off, Moves(S, x, t), "CS" \in S
    PROVE  Moves(S, x, far_real(t, sel, off))
<1> DEFINE p == prepare_cold_write(t)
           a == Need(p, off <= t.r.seg["CS"].d.limit, Gp(0))
           v == RealSelector(a.r.seg["CS"], sel)
           q == [a EXCEPT !.r.seg["CS"] = v]
           z == [q EXCEPT !.r.rip = off]
<1>1. Moves(S, x, p) /\ p.cold /\ IsCpu(p)
  BY SMTT(30), ColdStep, ColdMoves, MovesCpu
<1>2. Moves(S, x, a) /\ a.cold /\ IsCpu(a)
  BY SMTT(60), <1>1, NeedStep, NeedMoves DEF Moves
<1>3. far_real(t, sel, off) = IF ~Ok(t) THEN t ELSE IF Ok(a) THEN z ELSE a
  <2>1. z = [a EXCEPT !.r.seg["CS"] = RealSelector(@, sel), !.r.rip = off]
    <3> HIDE DEF a
    <3> QED BY <1>2 DEF IsCpu, IsRegs, CpuNames, RegNames, SegNames
  <2> HIDE DEF z
  <2> QED BY <2>1, Zenon DEF far_real
<1> HIDE DEF a, v
<1>4. Moves({"CS"}, a, q)
  BY <1>2, WriteSeg DEF SegNames
<1> HIDE DEF q
<1>5. Moves(S \cup {"CS"}, x, q)
  BY <1>2, <1>4, MovesTrans
<1>6. Moves(S, x, q)
  BY <1>5, MovesMore
<1>7. Moves(S, x, z)
  BY <1>6, FieldStep
<1> QED BY <1>2, <1>3, <1>7

LEMMA CodeTargetStep ==
    ASSUME NEW S, NEW x, NEW t, NEW d, NEW sel, NEW off, Moves(S, x, t)
    PROVE  Moves(S, x, check_code_target(t, d, sel, off))
<1>1. Moves(S, x, Need(t, ~d.db, Gp(Code(sel))))
  BY NeedStep
<1>2. Moves(S, x, Need(Need(t, ~d.db, Gp(Code(sel))), canonical(off), Gp(0)))
  BY <1>1, NeedStep
<1>3. Moves(S, x, Need(t, off <= d.limit, Gp(0)))
  BY NeedStep
<1> QED BY <1>2, <1>3 DEF check_code_target

LEMMA ReachableStep ==
    ASSUME NEW S, NEW x, NEW t, NEW sel, NEW d, Moves(S, x, t)
    PROVE  Moves(S, x, check_code_reachable(t, sel, d))
BY NeedStep DEF check_code_reachable

LEMMA GateStep ==
    ASSUME NEW S, NEW x, NEW t, NEW sel, NEW d, Moves(S, x, t)
    PROVE  Moves(S, x, check_gate(t, sel, d))
<1>1. Moves(S, x, Need(t, d.dpl >= cpl(t.r) /\ d.dpl >= Rpl(sel), Gp(Code(sel))))
  BY NeedStep
<1> QED BY <1>1, NeedStep DEF check_gate

LEMMA GateTargetStep ==
    ASSUME NEW S, NEW x, NEW t, NEW gsel, Moves(S, x, t)
    PROVE  Moves(S, x, check_gate_target(t, gsel))
<1> DEFINE gd == Desc(gsel)
           s1 == Need(read_descriptor(t, gsel), ~IsNull(gsel), Gp(0))
           s2 == Need(s1, gd.kind = "code" /\ gd.dpl <= cpl(t.r), Gp(Code(gsel)))
           s3 == Need(s2, gd.p, Np(Code(gsel)))
           s4 == Need(s3, c.long => gd.l /\ ~gd.db, Gp(Code(gsel)))
<1>0. check_gate_target(t, gsel) = s4
  BY Zenon DEF check_gate_target
<1>1. Moves(S, x, s1)
  BY NeedStep, TableStep
<1> HIDE DEF s1, gd
<1>2. Moves(S, x, s2)
  BY <1>1, NeedStep
<1> HIDE DEF s2
<1>3. Moves(S, x, s3)
  BY <1>2, NeedStep
<1> HIDE DEF s3
<1> QED BY <1>0, <1>3, NeedStep

LEMMA DirectStep ==
    ASSUME NEW S, NEW x, NEW t, NEW sel, NEW off, Moves(S, x, t)
    PROVE  Moves(S, x, DirectTarget(t, sel, off))
<1>1. Moves(S, x, check_code_reachable(t, sel, Desc(sel)))
  BY ReachableStep
<1>2. Moves(S, x, Need(check_code_reachable(t, sel, Desc(sel)), Desc(sel).p, Np(Code(sel))))
  BY <1>1, NeedStep
<1> QED BY <1>2, CodeTargetStep DEF DirectTarget

LEMMA JumpGateStep ==
    ASSUME NEW S, NEW x, NEW t, NEW sel, NEW d, Moves(S, x, t), "CS" \in S
    PROVE  Moves(S, x, JumpGate(t, sel, d))
<1> DEFINE gd == Desc(d.gsel)
           s1 == check_gate_target(check_gate(t, sel, d), d.gsel)
           s2 == Need(s1, gd.conf \/ gd.dpl = cpl(t.r), Gp(Code(d.gsel)))
           s3 == check_code_target(s2, gd, d.gsel, gate_off(d))
           z == Enter(s3, d.gsel, gd, cpl(t.r), gate_off(d))
<1>0. JumpGate(t, sel, d) = IF Ok(s3) THEN z ELSE s3
  BY Zenon DEF JumpGate
<1>1. Moves(S, x, s1)
  BY GateStep, GateTargetStep
<1> HIDE DEF s1, gd
<1>2. Moves(S, x, s2)
  BY <1>1, NeedStep
<1> HIDE DEF s2
<1>3. Moves(S, x, s3)
  BY <1>2, CodeTargetStep
<1> HIDE DEF s3
<1>4. Moves(S, x, z)
  BY <1>3, EnterStep
<1> QED BY <1>0, <1>3, <1>4

LEMMA JumpFarStep ==
    ASSUME NEW S, NEW x, NEW t, NEW sel, NEW off, Moves(S, x, t), "CS" \in S
    PROVE  Moves(S, x, jump_far(t, sel, off))
<1> DEFINE d == Desc(sel)
           a == read_descriptor(Need(t, ~IsNull(sel), Gp(0)), sel)
           y1 == Enter(DirectTarget(a, sel, off), sel, d, cpl(t.r), off)
           y2 == JumpGate(a, sel, d)
           y3 == Need(a, FALSE, Gp(Code(sel)))
           y4 == far_real(t, sel, off)
<1>0. jump_far(t, sel, off) \in {y1, y2, y3, y4, a}
  BY DEF jump_far
<1>1. Moves(S, x, a)
  BY NeedStep, TableStep
<1> HIDE DEF a, d
<1>2. Moves(S, x, y1)
  BY <1>1, DirectStep, EnterStep
<1>3. Moves(S, x, y2)
  BY <1>1, JumpGateStep
<1>4. Moves(S, x, y3)
  BY <1>1, NeedStep
<1>5. Moves(S, x, y4)
  BY FarRealStep
<1> HIDE DEF y1, y2, y3, y4
<1> QED BY <1>0, <1>1, <1>2, <1>3, <1>4, <1>5

LEMMA GateFrameStep ==
    ASSUME NEW S, NEW x, NEW t, NEW d, NEW ss, NEW sp, NEW args, Moves(S, x, t), IsSeq(Reverse(args))
    PROVE  Moves(S, x, push_gate_frame(t, d, ss, sp, args))
<1>1. Len(<<ss, sp>> \o Reverse(args) \o <<Sel(t.r, "CS"), t.r.rip>>) \in Nat
  BY TupleSeq, ConcatSeq, SeqLen
<1> QED BY <1>1, PushAllStep DEF push_gate_frame

LEMMA CallLegacyStep ==
    ASSUME NEW S, NEW x, NEW t, NEW sel, NEW d, Moves(S, x, t), {"CS", "SS"} \subseteq S, d.params \in Nat
    PROVE  Moves(S, x, call_gate_legacy(t, sel, d))
<1> DEFINE gd == Desc(d.gsel)
           level == gd.dpl
           args == [i \in 1 .. d.params |-> Fetch(t, StackAt(t, Params(t, d)[i]), GateWidth(d))]
           here == <<Sel(t.r, "CS"), t.r.rip>>
           a == check_gate_target(check_gate(t, sel, d), d.gsel)
           p == ReadParams(tss_stack(a, level), d)
           b == switch_stack(p, c.tss.ss[level], InnerSp(level), level)
           f == push_gate_frame(b, d, Sel(t.r, "SS"), stack_ptr(t), args)
           h == PushAll(a, GateWidth(d), here)
           y1 == Enter(f, d.gsel, gd, level, gate_off(d))
           y2 == Enter(h, d.gsel, gd, cpl(t.r), gate_off(d))
<1>0. call_gate_legacy(t, sel, d) = IF ~Ok(a) THEN a ELSE IF Inner(gd, cpl(t.r)) THEN y1 ELSE y2
  BY Zenon DEF call_gate_legacy
<1>1. Moves(S, x, a)
  BY GateStep, GateTargetStep
<1>2. IsSeq(Reverse(args))
  <2>1. DOMAIN args = 1 .. d.params /\ args = [i \in 1 .. d.params |-> args[i]]
    BY Zenon
  <2> HIDE DEF args
  <2> QED BY <2>1, ReverseSeq
<1>3. Len(here) \in Nat
  BY TupleSeq, SeqLen
<1> HIDE DEF a, gd, level, args, here
<1>4. Moves(S, x, p)
  BY <1>1, TableStep, ReadParamsStep
<1> HIDE DEF p
<1>5. Moves(S, x, b)
  BY <1>4, SwitchStep
<1> HIDE DEF b
<1>6. Moves(S, x, f)
  BY <1>2, <1>5, GateFrameStep
<1> HIDE DEF f
<1>7. Moves(S, x, h)
  BY <1>1, <1>3, PushAllStep
<1> HIDE DEF h
<1>8. Moves(S, x, y1) /\ Moves(S, x, y2)
  BY <1>6, <1>7, EnterStep
<1> HIDE DEF y1, y2
<1> QED BY <1>0, <1>1, <1>8

LEMMA CallLongStep ==
    ASSUME NEW S, NEW x, NEW t, NEW sel, NEW d, Moves(S, x, t), {"CS", "SS"} \subseteq S
    PROVE  Moves(S, x, call_gate_long(t, sel, d))
<1> DEFINE gd == Desc(d.gsel)
           outer == <<Sel(t.r, "SS"), stack_ptr(t), Sel(t.r, "CS"), t.r.rip>>
           here == <<Sel(t.r, "CS"), t.r.rip>>
           a == Need(check_gate_target(check_gate(t, sel, d), d.gsel), canonical(gate_off(d)), Gp(0))
           n == set_null_ss(tss_rsp(a, gd.dpl), gd.dpl)
           f == push64_at(n, c.tss.sp[gd.dpl], outer)
           h == PushAll(a, 4, here)
           y1 == Enter(f, d.gsel, gd, gd.dpl, gate_off(d))
           y2 == Enter(h, d.gsel, gd, cpl(t.r), gate_off(d))
<1>0. call_gate_long(t, sel, d) = IF ~Ok(a) THEN a ELSE IF Inner(gd, cpl(t.r)) THEN y1 ELSE y2
  BY Zenon DEF call_gate_long
<1>1. Moves(S, x, a)
  BY GateStep, GateTargetStep, NeedStep
<1>2. Len(here) \in Nat /\ Len(outer) \in Nat
  BY TupleSeq, SeqLen
<1> HIDE DEF a, gd, outer, here
<1>3. Moves(S, x, n)
  BY <1>1, TableStep, NullSsStep
<1> HIDE DEF n
<1>4. Moves(S, x, f)
  BY <1>2, <1>3, Push64Step
<1> HIDE DEF f
<1>5. Moves(S, x, h)
  BY <1>1, <1>2, PushAllStep
<1> HIDE DEF h
<1>6. Moves(S, x, y1) /\ Moves(S, x, y2)
  BY <1>4, <1>5, EnterStep
<1> HIDE DEF y1, y2
<1> QED BY <1>0, <1>1, <1>6

(* A descriptor that was found is one of the tables'.                      *)
LEMMA Found ==
    ASSUME IsMachine(c), NEW t, IsCpu(t), NEW sel, Ok(read_descriptor(t, sel)), CallGate(Desc(sel))
    PROVE  Desc(sel).params \in Nat
<1>1. Known(sel)
  <2>1. Known(sel) \in BOOLEAN
    BY DEF Known
  <2> QED BY <2>1, NeedOk DEF read_descriptor, Gp
<1> QED BY <1>1 DEF Known, Desc, Table, IsMachine, IsTable, CallGate

LEMMA CallFarStep ==
    ASSUME IsMachine(c), NEW S, NEW x, NEW t, NEW sel, NEW off, Moves(S, x, t), {"CS", "SS"} \subseteq S
    PROVE  Moves(S, x, call_far(t, sel, off))
<1> DEFINE d == Desc(sel)
           here == <<Sel(t.r, "CS"), t.r.rip>>
           n == Need(t, ~IsNull(sel), Gp(0))
           a == read_descriptor(n, sel)
           h == PushAll(DirectTarget(a, sel, off), t.osize, here)
           y1 == Enter(h, sel, d, cpl(t.r), off)
           y2 == call_gate_long(a, sel, d)
           y3 == call_gate_legacy(a, sel, d)
           y4 == Need(a, FALSE, Gp(Code(sel)))
           y5 == far_real(PushAll(t, t.osize, here), sel, off)
<1>0. \/ call_far(t, sel, off) \in {y1, y2, y4, y5, a}
      \/ call_far(t, sel, off) = y3 /\ Ok(a) /\ CallGate(d)
  <2>1. call_far(t, sel, off) =
          IF ~protected_mode(t.r) THEN y5
          ELSE IF Ok(a) THEN CASE d.kind = "code" -> y1
                               [] CallGate(d) /\ c.long -> y2
                               [] CallGate(d) /\ ~c.long -> y3
                               [] OTHER -> y4
          ELSE a
    BY Zenon DEF call_far
  <2> HIDE DEF a, d, y1, y2, y3, y4, y5
  <2> QED BY <2>1
<1>1. Moves(S, x, n)
  BY NeedStep
<1> HIDE DEF n
<1>2. Moves(S, x, a)
  BY <1>1, TableStep
<1>3. Ok(a) /\ CallGate(d) => d.params \in Nat
  BY <1>1, Found, MovesCpu
<1>4. Len(here) \in Nat
  BY TupleSeq, SeqLen
<1> HIDE DEF a, d, here
<1>5. Moves(S, x, h)
  BY <1>2, <1>4, DirectStep, PushAllStep
<1> HIDE DEF h
<1>6. Moves(S, x, y1)
  BY <1>5, EnterStep
<1>7. Moves(S, x, y2)
  BY <1>2, CallLongStep
<1>8. Ok(a) /\ CallGate(d) => Moves(S, x, y3)
  BY <1>2, <1>3, CallLegacyStep
<1>9. Moves(S, x, y4)
  BY <1>2, NeedStep
<1>10. Moves(S, x, y5)
  BY <1>4, PushAllStep, FarRealStep
<1> HIDE DEF y1, y2, y3, y4, y5
<1> QED BY <1>0, <1>2, <1>6, <1>7, <1>8, <1>9, <1>10

LEMMA OuterSsStep ==
    ASSUME NEW S, NEW x, NEW t, NEW ss, NEW sp, NEW rpl, Moves(S, x, t), "SS" \in S
    PROVE  Moves(S, x, load_outer_ss(t, ss, sp, rpl))
<1> DEFINE d == Desc(ss)
           s1 == read_descriptor(Need(t, Rpl(ss) = rpl, Gp(Code(ss))), ss)
           s2 == Need(s1, WritableData(d) /\ d.dpl = rpl, Gp(Code(ss)))
           s3 == Need(s2, d.p, Ss(Code(ss)))
           n == Need(t, c.long /\ rpl # 3 /\ Rpl(ss) = rpl, Gp(0))
           m == set_null_ss(n, rpl)
           k == commit_seg(s3, "SS", ss, d)
           y1 == [m EXCEPT !.r.rsp = sp]
           y2 == [k EXCEPT !.r.rsp = sp]
           y3 == SetSp(k, d, sp)
<1>0. load_outer_ss(t, ss, sp, rpl) =
        IF ~Ok(t) THEN t
        ELSE IF IsNull(ss) THEN IF Ok(n) THEN y1 ELSE n
        ELSE IF Ok(s3) THEN IF c.long /\ t.r.seg["CS"].d.l THEN y2 ELSE y3 ELSE s3
  BY Zenon DEF load_outer_ss
<1>1. Moves(S, x, s1)
  BY NeedStep, TableStep
<1> HIDE DEF s1, d
<1>2. Moves(S, x, s2)
  BY <1>1, NeedStep
<1> HIDE DEF s2
<1>3. Moves(S, x, s3) /\ Moves(S, x, n)
  BY <1>2, NeedStep
<1> HIDE DEF s3, n
<1>4. Moves(S, x, k) /\ Moves(S, x, m)
  BY <1>3, CommitStep, NullSsStep DEF SegNames
<1> HIDE DEF k, m
<1>5. Moves(S, x, y1) /\ Moves(S, x, y2) /\ Moves(S, x, y3)
  BY <1>4, FieldStep, SetSpStep
<1> HIDE DEF y1, y2, y3
<1> QED BY <1>0, <1>3, <1>5

LEMMA ValidateStep ==
    ASSUME NEW S, NEW x, NEW t, NEW level, Moves(S, x, t), DataSegs \subseteq S
    PROVE  /\ Moves(S, x, validate_data_segs(t, level))
           /\ Ok(t) => Ok(validate_data_segs(t, level))
<1> DEFINE Inside(i, y) == i \in DataSegs /\ (y.d.p /\ ~Conforming(y.d) /\ y.d.dpl < level)
           nd == [sel |-> 0, d |-> NullD]
           p == prepare_cold_write(t)
           u == [p EXCEPT !.r.seg = [i \in DOMAIN @ |-> IF Inside(i, @[i]) THEN nd ELSE @[i]]]
<1>0. validate_data_segs(t, level) = IF ~Ok(t) THEN t ELSE u
  BY Zenon DEF validate_data_segs
<1>1. Moves(S, x, p) /\ p.cold /\ IsCpu(p) /\ p.err = t.err
  <2>1. IsCpu(t)
    BY MovesCpu
  <2>2. p.err = t.err
    BY <2>1 DEF prepare_cold_write, IsCpu, CpuNames
  <2> HIDE DEF p
  <2> QED BY <2>1, <2>2, ColdStep, ColdMoves DEF Moves, p
<1> HIDE DEF p, nd
<1>2. \A i, y : Inside(i, y) => i \in DataSegs
  OBVIOUS
<1> HIDE DEF Inside
<1>3. IsCpu(u)
  BY <1>1 DEF IsCpu, IsRegs, CpuNames, RegNames
<1>4. /\ u.cold /\ u.saved = p.saved /\ u.ev = p.ev /\ u.trap = p.trap /\ u.err = p.err
      /\ u.m64 = p.m64
  BY <1>1 DEF IsCpu, CpuNames
<1>5. /\ u.r.rcx = p.r.rcx /\ u.r.r11 = p.r.r11 /\ u.r.kgs = p.r.kgs /\ u.r.fl = p.r.fl
      /\ \A j \in SegNames \ DataSegs : u.r.seg[j] = p.r.seg[j]
  BY <1>1, <1>2 DEF IsCpu, IsRegs, CpuNames, RegNames
<1> HIDE DEF u
<1>6. Moves(DataSegs, p, u)
  BY <1>1, <1>3, <1>4, <1>5 DEF Moves, Origin, Ok
<1>7. Moves(S \cup DataSegs, x, u)
  BY <1>1, <1>6, MovesTrans
<1>8. Moves(S, x, u)
  BY <1>7, MovesMore
<1> QED BY <1>0, <1>1, <1>4, <1>8 DEF Ok

LEMMA ReturnTargetStep ==
    ASSUME NEW S, NEW x, NEW t, NEW sel, NEW ip, Moves(S, x, t)
    PROVE  Moves(S, x, ReturnTarget(t, sel, ip))
<1> DEFINE d == Desc(sel)
           s0 == Need(t, ~IsNull(sel), Gp(0))
           s1 == Need(s0, Rpl(sel) >= cpl(t.r), Gp(Code(sel)))
           s2 == Need(read_descriptor(s1, sel), d.kind = "code", Gp(Code(sel)))
           s3 == Need(s2, IF d.conf THEN d.dpl <= Rpl(sel) ELSE d.dpl = Rpl(sel), Gp(Code(sel)))
           z == check_code_target(Need(s3, d.p, Np(Code(sel))), d, sel, ip)
<1>0. ReturnTarget(t, sel, ip) = IF Ok(s3) THEN z ELSE s3
  BY Zenon DEF ReturnTarget
<1>1. Moves(S, x, s0)
  BY NeedStep
<1> HIDE DEF s0, d
<1>2. Moves(S, x, s1)
  BY <1>1, NeedStep
<1> HIDE DEF s1
<1>3. Moves(S, x, s2)
  BY <1>2, TableStep, NeedStep
<1> HIDE DEF s2
<1>4. Moves(S, x, s3)
  BY <1>3, NeedStep
<1> HIDE DEF s3
<1>5. Moves(S, x, z)
  BY <1>4, NeedStep, CodeTargetStep
<1> QED BY <1>0, <1>4, <1>5

LEMMA RetfStep ==
    ASSUME NEW S, NEW x, NEW t, NEW n, Moves(S, x, t), SegNames \subseteq S
    PROVE  Moves(S, x, retf(t, n))
<1> DEFINE p == PopAll(t, t.osize, 2)
           sel == p.v[2] % W16
           ip == p.v[1]
           a == adjust_sp(ReturnTarget(p, sel, ip), n)
           q == PopAll(a, t.osize, 2)
           b == Enter(q, sel, Desc(sel), Rpl(sel), ip)
           k == load_outer_ss(b, q.v[2] % W16, q.v[1], Rpl(sel))
           y1 == far_real(adjust_sp(p, n), sel, ip)
           y2 == Enter(a, sel, Desc(sel), Rpl(sel), ip)
           y3 == validate_data_segs(adjust_sp(k, n), Rpl(sel))
<1>0. retf(t, n) = IF ~Ok(p) THEN p
                   ELSE IF protected_mode(t.r)
                   THEN IF ~Ok(a) THEN a
                        ELSE IF Rpl(sel) = cpl(t.r) THEN y2
                        ELSE IF ~Ok(q) THEN q ELSE y3
                   ELSE y1
  BY Zenon DEF retf
<1>1. Moves(S, x, p)
  BY PopAllStep
<1> HIDE DEF p, sel, ip
<1>2. Moves(S, x, a)
  BY <1>1, ReturnTargetStep, AdjustStep
<1> HIDE DEF a
<1>3. Moves(S, x, q)
  BY <1>2, PopAllStep
<1> HIDE DEF q
<1>4. "CS" \in S /\ "SS" \in S /\ DataSegs \subseteq S
  BY DEF SegNames
<1>5. Moves(S, x, b)
  BY <1>3, <1>4, EnterStep
<1> HIDE DEF b
<1>6. Moves(S, x, k)
  BY <1>4, <1>5, OuterSsStep
<1> HIDE DEF k
<1>7. Moves(S, x, y1) /\ Moves(S, x, y2)
  BY <1>1, <1>2, <1>4, AdjustStep, FarRealStep, EnterStep
<1>8. Moves(S, x, y3)
  BY <1>4, <1>6, AdjustStep, ValidateStep
<1> HIDE DEF y1, y2, y3
<1> QED BY <1>0, <1>1, <1>2, <1>3, <1>7, <1>8

-----------------------------------------------------------------------------
(* An instruction that began in x and came to u.  Until it faults nothing  *)
(* is lost: the flags are as they were, and what a fault has to give back  *)
(* of the segments and KernelGSBase is in Origin(u).                       *)
Outcome(x, u) ==
    /\ IsCpu(u) /\ u.m64 = x.m64
    /\ ~Ok(u) => Moves(SegNames, x, u)
    /\ Ok(u) => u.trap # "Exception" /\ (u.ev = NoEvent \/ u.ev.class = "SoftInt")

Begun(x) == IsCpu(x) /\ x.ev = NoEvent /\ x.trap = "none"

LEMMA BegunMoves == ASSUME NEW x, Begun(x) PROVE Moves(SegNames, x, x)
BY MovesRefl, MovesMore DEF Begun

LEMMA MovesOutcome ==
    ASSUME NEW x, Begun(x), NEW t, Moves(SegNames, x, t)
    PROVE  Outcome(x, t) /\ t.ev = NoEvent
BY DEF Outcome, Moves, Begun

(* Once nothing can fault any more the flags may go too.                   *)
LEMMA LastOutcome ==
    ASSUME NEW x, Begun(x), NEW S, NEW t, Moves(S, x, t), Ok(t)
    PROVE  Outcome(x, t) /\ t.ev = NoEvent
BY DEF Outcome, Moves, Begun

LEMMA FlagsOutcome ==
    ASSUME NEW x, Begun(x), NEW t, Moves(SegNames, x, t), NEW fl
    PROVE  /\ Outcome(x, SetFlags(t, fl)) /\ SetFlags(t, fl).ev = NoEvent
           /\ Moves(SegNames \cup {"FL"}, x, SetFlags(t, fl))
           /\ Ok(t) => Ok(SetFlags(t, fl))
           /\ ~Ok(t) => SetFlags(t, fl) = t
<1>1. Moves(SegNames \cup {"FL"}, x, t)
  BY MovesMore
<1>2. Moves(SegNames \cup {"FL"}, x, SetFlags(t, fl))
  BY <1>1, SetFlagsStep
<1>3. Ok(t) => Ok(SetFlags(t, fl))
  BY MovesCpu DEF Ok, SetFlags, IsCpu, CpuNames
<1>4. ~Ok(t) => SetFlags(t, fl) = t
  BY DEF SetFlags
<1>5. Outcome(x, SetFlags(t, fl)) /\ SetFlags(t, fl).ev = NoEvent
  BY <1>2, <1>3, <1>4, LastOutcome, MovesOutcome
<1> QED BY <1>2, <1>3, <1>4, <1>5

LEMMA V86Outcome ==
    ASSUME NEW x, Begun(x), NEW t, NEW ip, NEW cs, NEW fl, Moves(SegNames, x, t)
    PROVE  Outcome(x, iret_to_v86(t, ip, cs, fl)) /\ iret_to_v86(t, ip, cs, fl).ev = NoEvent
<1> DEFINE Seg(y) == [sel |-> y % W16, d |-> V86Seg(y % W16)]
           q == PopAll(prepare_cold_write(t), 2, 6)
           f == FromImage(fl)
           g == [CS |-> Seg(cs), SS |-> Seg(q.v[2]), ES |-> Seg(q.v[3]),
                 DS |-> Seg(q.v[4]), FS |-> Seg(q.v[5]), GS |-> Seg(q.v[6])]
           rr == [q.r EXCEPT !.fl = f, !.rip = ip % W16, !.rsp = q.v[1], !.seg = g]
           z == [q EXCEPT !.r = rr]
<1>0. iret_to_v86(t, ip, cs, fl) = IF ~Ok(q) THEN q ELSE z
  BY Zenon DEF iret_to_v86
<1>1. Moves(SegNames, x, q) /\ IsCpu(q)
  BY ColdStep, PopAllStep, MovesCpu
<1> HIDE DEF q, f, Seg
<1>2. g = [i \in SegNames |-> g[i]]
  BY DEF SegNames, DataSegs
<1> HIDE DEF g
<1>3. rr = [y \in RegNames |-> rr[y]] /\ rr.seg = g
  BY <1>1 DEF IsCpu, IsRegs, RegNames
<1> HIDE DEF rr
<1>4. IsCpu(z) /\ z.ev = q.ev /\ z.trap = q.trap /\ z.err = q.err /\ z.m64 = q.m64
  BY <1>1, <1>2, <1>3 DEF IsCpu, IsRegs, CpuNames
<1> HIDE DEF z
<1>5. Outcome(x, q) /\ q.ev = NoEvent
  BY <1>1, MovesOutcome
<1>6. Ok(q) => Outcome(x, z) /\ z.ev = NoEvent
  BY <1>4, <1>5 DEF Outcome, Ok
<1> QED BY <1>0, <1>5, <1>6

LEMMA IretRealOutcome ==
    ASSUME NEW x, Begun(x), NEW t, Moves(SegNames, x, t)
    PROVE  Outcome(x, IretReal(t)) /\ IretReal(t).ev = NoEvent
<1> DEFINE mask == IF c.pe THEN popf_mask(t) \ {"IOPL", "VM"} ELSE popf_mask(t)
           p == PopAll(t, t.osize, 3)
           a == far_real(p, p.v[2] % W16, p.v[1])
           z == SetFlags(a, LoadFlags(t.r.fl, p.v[3], mask))
<1>0. IretReal(t) = IF ~Ok(p) THEN p ELSE z
  BY Zenon DEF IretReal
<1>1. Moves(SegNames, x, p)
  BY PopAllStep
<1> HIDE DEF p, mask
<1>2. Moves(SegNames, x, a)
  BY <1>1, FarRealStep DEF SegNames
<1> HIDE DEF a
<1>3. Outcome(x, z) /\ z.ev = NoEvent
  BY <1>2, FlagsOutcome
<1> HIDE DEF z
<1> QED BY <1>0, <1>1, <1>3, MovesOutcome

LEMMA IretProtectedOutcome ==
    ASSUME NEW x, Begun(x), NEW t, Moves(SegNames, x, t)
    PROVE  Outcome(x, IretProtected(t)) /\ IretProtected(t).ev = NoEvent
<1> DEFINE level == cpl(t.r)
           k == IF t.m64 THEN 3 ELSE 0
           n == IF t.m64 THEN 5 ELSE 3
           p == PopAll(t, t.osize, n)
           sel == p.v[2] % W16
           ip == p.v[1]
           outer == Rpl(sel) > level
           a == ReturnTarget(p, sel, ip)
           q == IF outer /\ ~t.m64 THEN PopAll(a, t.osize, 2) ELSE a
           b == load_cs(q, sel, Desc(sel), Rpl(sel))
           l == IF outer \/ t.m64 THEN load_outer_ss(b, q.v[k + 2] % W16, q.v[k + 1], Rpl(sel)) ELSE b
           w == SetRip(l, ip)
           f == SetFlags(w, LoadFlags(t.r.fl, p.v[3], iret_flag_mask(t, level)))
           z == IF outer THEN validate_data_segs(f, Rpl(sel)) ELSE f
<1>0. IretProtected(t) = IF ~Ok(p) THEN p ELSE IF ~Ok(a) THEN a ELSE IF Ok(q) THEN z ELSE q
  BY ZenonT(60) DEF IretProtected
<1>1. Moves(SegNames, x, p)
  BY PopAllStep
<1>2. "CS" \in SegNames /\ "SS" \in SegNames /\ DataSegs \subseteq SegNames \cup {"FL"}
  BY DEF SegNames
<1> HIDE DEF p, sel, ip, level, n, k, outer
<1>3. Moves(SegNames, x, a)
  BY <1>1, ReturnTargetStep
<1> HIDE DEF a
<1>4. Moves(SegNames, x, q)
  BY <1>3, PopAllStep
<1> HIDE DEF q
<1>5. Moves(SegNames, x, b)
  BY <1>2, <1>4, EnterStep
<1> HIDE DEF b
<1>6. Moves(SegNames, x, l)
  BY <1>2, <1>5, OuterSsStep
<1> HIDE DEF l
<1>7. Moves(SegNames, x, w)
  BY <1>6, SetRipStep
<1> HIDE DEF w
<1>8. /\ Outcome(x, f) /\ f.ev = NoEvent /\ Moves(SegNames \cup {"FL"}, x, f)
      /\ Ok(w) => Ok(f)
      /\ ~Ok(w) => f = w
  BY <1>7, FlagsOutcome
<1> HIDE DEF f
<1>9. ASSUME Ok(f) PROVE Outcome(x, z) /\ z.ev = NoEvent
  <2>1. /\ Moves(SegNames \cup {"FL"}, x, validate_data_segs(f, Rpl(sel)))
        /\ Ok(validate_data_segs(f, Rpl(sel)))
    BY <1>2, <1>8, <1>9, ValidateStep
  <2>2. Outcome(x, validate_data_segs(f, Rpl(sel))) /\ validate_data_segs(f, Rpl(sel)).ev = NoEvent
    BY <2>1, LastOutcome
  <2> QED BY <1>8, <2>2
<1>10. ASSUME ~Ok(f) PROVE Outcome(x, z) /\ z.ev = NoEvent
  BY <1>8, <1>10 DEF validate_data_segs
<1> HIDE DEF z
<1> QED BY <1>0, <1>1, <1>3, <1>4, <1>9, <1>10, MovesOutcome

LEMMA IretOutcome ==
    ASSUME NEW x, Begun(x)
    PROVE  Outcome(x, iret(x)) /\ iret(x).ev = NoEvent
<1> DEFINE p == PopAll(x, x.osize, 3)
           y1 == iret_to_v86(p, p.v[1], p.v[2], p.v[3])
           y2 == IretProtected(x)
           y3 == IretReal(x)
           y4 == Need(x, FALSE, Gp(0))
<1>0. iret(x) \in {p, y1, y2, y3, y4}
  BY DEF iret
<1>1. Moves(SegNames, x, x)
  BY BegunMoves
<1>2. Moves(SegNames, x, p)
  BY <1>1, PopAllStep
<1> HIDE DEF p
<1>3. /\ Outcome(x, y1) /\ Outcome(x, y2) /\ Outcome(x, y3)
      /\ y1.ev = NoEvent /\ y2.ev = NoEvent /\ y3.ev = NoEvent
  BY <1>1, <1>2, V86Outcome, IretProtectedOutcome, IretRealOutcome
<1>4. Outcome(x, p) /\ Outcome(x, y4) /\ p.ev = NoEvent /\ y4.ev = NoEvent
  BY <1>1, <1>2, NeedStep, MovesOutcome
<1> HIDE DEF y1, y2, y3, y4
<1> QED BY <1>0, <1>3, <1>4

-----------------------------------------------------------------------------
(* Segment loads, software interrupts, system calls.                       *)

LEMMA LoadSsStep ==
    ASSUME NEW S, NEW x, NEW t, NEW sel, Moves(S, x, t), "SS" \in S
    PROVE  Moves(S, x, load_ss(t, sel))
<1> DEFINE level == cpl(t.r)
           d == Desc(sel)
           s1 == read_descriptor(Need(t, Rpl(sel) = level, Gp(Code(sel))), sel)
           s2 == Need(s1, WritableData(d) /\ d.dpl = level, Gp(Code(sel)))
           s3 == Need(s2, d.p, Ss(Code(sel)))
           y1 == SetSeg(t, "SS", sel, NullD)
           y2 == Need(t, FALSE, Gp(0))
           y3 == commit_seg(s3, "SS", sel, d)
<1>0. load_ss(t, sel) = IF IsNull(sel)
                        THEN IF mode64(t.r) /\ level # 3 /\ Rpl(sel) = level THEN y1 ELSE y2
                        ELSE IF Ok(s3) THEN y3 ELSE s3
  BY Zenon DEF load_ss
<1>1. Moves(S, x, s1)
  BY NeedStep, TableStep
<1> HIDE DEF s1, d, level
<1>2. Moves(S, x, s2)
  BY <1>1, NeedStep
<1> HIDE DEF s2
<1>3. Moves(S, x, s3) /\ Moves(S, x, y2)
  BY <1>2, NeedStep
<1> HIDE DEF s3
<1>4. Moves(S, x, y1) /\ Moves(S, x, y3)
  BY <1>3, SetSegStep, CommitStep DEF SegNames
<1> HIDE DEF y1, y2, y3
<1> QED BY <1>0, <1>3, <1>4

LEMMA LoadSegStep ==
    ASSUME NEW S, NEW x, NEW t, NEW i \in SegNames, NEW sel, Moves(S, x, t), SegNames \subseteq S
    PROVE  Moves(S, x, load_seg(t, i, sel))
<1> DEFINE d == Desc(sel)
           s1 == Need(read_descriptor(t, sel), IsCodeData(d) /\ ~(d.kind = "code" /\ ~d.rw),
                      Gp(Code(sel)))
           s2 == Need(s1, Conforming(d) \/ (d.dpl >= cpl(t.r) /\ d.dpl >= Rpl(sel)), Gp(Code(sel)))
           s3 == Need(s2, d.p, Np(Code(sel)))
           nd == [NullD EXCEPT !.base = IF i \in {"FS", "GS"} THEN t.r.seg[i].d.base ELSE 0]
           rd == [t.r.seg[i].d EXCEPT !.base = sel * 8]
           y1 == load_ss(t, sel)
           y2 == SetSeg(t, i, sel, nd)
           y3 == commit_seg(s3, i, sel, d)
           y4 == SetSeg(t, i, sel, rd)
           y5 == SetSeg(t, i, sel, V86Seg(sel))
<1>0. load_seg(t, i, sel) = IF ~c.pe THEN y4
                            ELSE IF "VM" \in t.r.fl THEN y5
                            ELSE IF i = "SS" THEN y1
                            ELSE IF IsNull(sel) THEN y2
                            ELSE IF Ok(s3) THEN y3 ELSE s3
  BY Zenon DEF load_seg, load_seg_protected
<1>1. Moves(S, x, s1)
  BY NeedStep, TableStep
<1> HIDE DEF s1, d, nd, rd
<1>2. Moves(S, x, s2)
  BY <1>1, NeedStep
<1> HIDE DEF s2
<1>3. Moves(S, x, s3)
  BY <1>2, NeedStep
<1> HIDE DEF s3
<1>4. i \in S /\ "SS" \in S
  BY DEF SegNames
<1>5. Moves(S, x, y1)
  BY <1>4, LoadSsStep
<1>6. Moves(S, x, y2) /\ Moves(S, x, y4) /\ Moves(S, x, y5)
  BY <1>4, SetSegStep
<1>7. Moves(S, x, y3)
  BY <1>3, <1>4, CommitStep
<1> HIDE DEF y1, y2, y3, y4, y5
<1> QED BY <1>0, <1>3, <1>5, <1>6, <1>7

LEMMA MovSegOutcome ==
    ASSUME NEW x, Begun(x), NEW i \in SegNames, NEW sel
    PROVE  Outcome(x, HoldOff(load_seg(x, i, sel), i))
<1> DEFINE a == load_seg(x, i, sel)
           z == [a EXCEPT !.inhibit = TRUE]
<1>1. Moves(SegNames, x, a) /\ IsCpu(a)
  BY BegunMoves, LoadSegStep, MovesCpu
<1>2. HoldOff(a, i) = IF Ok(a) /\ i = "SS" THEN z ELSE a
  BY DEF HoldOff
<1> HIDE DEF a
<1>3. Outcome(x, a)
  BY <1>1, MovesOutcome
<1>4. IsCpu(z) /\ z.err = a.err /\ z.ev = a.ev /\ z.trap = a.trap /\ z.m64 = a.m64
  BY <1>1 DEF IsCpu, IsRegs, CpuNames
<1> HIDE DEF z
<1>5. Ok(a) => Outcome(x, z)
  BY <1>3, <1>4 DEF Outcome, Ok
<1> QED BY <1>2, <1>3, <1>5 DEF a

LEMMA HostOutcome ==
    ASSUME NEW x, Begun(x), NEW t, Outcome(x, t), Ok(t)
    PROVE  Outcome(x, HostTrap(t, "Syscall"))
<1> DEFINE z == [t EXCEPT !.trap = "Syscall"]
<1>1. IsCpu(z) /\ z.err = t.err /\ z.ev = t.ev /\ z.trap = "Syscall" /\ z.m64 = t.m64
  BY DEF IsCpu, IsRegs, CpuNames, Outcome
<1> HIDE DEF z
<1>2. Outcome(x, z)
  BY <1>1 DEF Outcome, Ok
<1> QED BY <1>2 DEF HostTrap, z

LEMMA SoftwareIntOutcome ==
    ASSUME NEW x, Begun(x), Ok(x), NEW vector
    PROVE  Outcome(x, software_int(x, vector))
<1> DEFINE e == [vector |-> vector, code |-> <<>>]
           u == raise(x, e, "SoftInt")
<1>1. IsSeq(e.code)
  BY TupleSeq
<1> HIDE DEF e
<1>2. /\ IsCpu(u) /\ u.trap = x.trap /\ u.m64 = x.m64
      /\ Ok(u) => u.ev = [vector |-> e.vector, code |-> e.code, class |-> "SoftInt"]
      /\ ~Ok(u) => Moves({}, x, u)
  BY <1>1, RaiseStep DEF Begun
<1> HIDE DEF u
<1>3. Ok(u) => u.ev.class = "SoftInt"
  BY <1>2
<1>4. ~Ok(u) => Moves(SegNames, x, u)
  BY <1>2, MovesMore
<1>5. Outcome(x, u)
  BY <1>2, <1>3, <1>4 DEF Outcome, Begun
<1>6. Outcome(x, HostTrap(x, "Syscall"))
  BY BegunMoves, MovesOutcome, HostOutcome
<1> QED BY <1>5, <1>6 DEF software_int, u, e

LEMMA IntOutcome ==
    ASSUME NEW x, Begun(x), Ok(x), NEW vector
    PROVE  Outcome(x, int_n(x, vector))
<1> DEFINE a == Need(x, "VM" \in x.r.fl => Iopl(x.r.fl) = 3, Gp(0))
<1>1. Moves(SegNames, x, a)
  BY BegunMoves, NeedStep
<1>2. Ok(a) => a = x
  BY DEF Need, Ok, Begun, IsCpu, CpuNames, Gp, NoErr
<1>3. int_n(x, vector) = IF Ok(a) THEN software_int(a, vector) ELSE a
  BY Zenon DEF int_n
<1> HIDE DEF a
<1> QED BY <1>1, <1>2, <1>3, SoftwareIntOutcome, MovesOutcome

LEMMA IoOutcome ==
    ASSUME NEW x, Begun(x), NEW port, NEW size
    PROVE  Outcome(x, io_check(x, port, size))
BY BegunMoves, NeedStep, MovesOutcome DEF io_check

LEMMA MovSpOutcome ==
    ASSUME NEW x, Begun(x), NEW v
    PROVE  Outcome(x, [x EXCEPT !.r.rsp = v])
BY BegunMoves, FieldStep, MovesOutcome

(* The last writes of an instruction: nothing can fault after them.        *)
LEMMA FinalOutcome ==
    ASSUME NEW x, Begun(x), NEW t, IsCpu(t), Ok(t), t.ev = NoEvent, t.trap = "none",
           t.m64 = x.m64, NEW z,
           z = [y \in CpuNames |-> z[y]], IsRegs(z.r), z.m64 = t.m64, z.cold = t.cold,
           z.saved = t.saved, z.err = t.err, z.ev = t.ev, z.trap = t.trap
    PROVE  Outcome(x, z)
BY DEF Outcome, IsCpu, Ok, NoEvent

LEMMA ColdKeeps ==
    ASSUME NEW t, IsCpu(t)
    PROVE  /\ IsCpu(prepare_cold_write(t)) /\ prepare_cold_write(t).r = t.r
           /\ prepare_cold_write(t).err = t.err /\ prepare_cold_write(t).ev = t.ev
           /\ prepare_cold_write(t).trap = t.trap /\ prepare_cold_write(t).m64 = t.m64
<1>1. IsCpu(prepare_cold_write(t))
  BY ColdMoves, MovesCpu
<1> QED BY <1>1 DEF prepare_cold_write, IsCpu, CpuNames

LEMMA SyscallOutcome ==
    ASSUME NEW x, Begun(x), Ok(x)
    PROVE  Outcome(x, syscall(x))
<1> DEFINE a == Need(x, x.m64 /\ c.sce, Ud)
           ra == Image(x.r.fl \ {"RF"})
           b == [a EXCEPT !.r.rcx = x.r.rip, !.r.r11 = ra]
           sel == Code(c.star.kernel)
           p == prepare_cold_write(b)
           cs == Flat(sel, "code", 0, TRUE, FALSE)
           ss == Flat(sel + 8, "data", 0, FALSE, TRUE)
           m == c.sfmask \cup {"RF"}
           z == [p EXCEPT !.r.seg["CS"] = cs, !.r.seg["SS"] = ss, !.r.fl = @ \ m, !.r.rip = c.lstar]
<1>0. syscall(x) = IF ~Ok(a) THEN a ELSE IF c.trap_syscall THEN HostTrap(b, "Syscall") ELSE z
  BY Zenon DEF syscall
<1>1. Moves(SegNames, x, a) /\ IsCpu(a)
  BY BegunMoves, NeedStep, MovesCpu
<1>2. a.ev = NoEvent /\ a.trap = "none" /\ a.m64 = x.m64
  BY <1>1 DEF Moves, Begun
<1> HIDE DEF a, sel, cs, ss, m, ra
<1>3. IsCpu(b) /\ b.err = a.err /\ b.ev = a.ev /\ b.trap = a.trap /\ b.m64 = a.m64
  BY <1>1 DEF IsCpu, IsRegs, CpuNames, RegNames
<1> HIDE DEF b
<1>4. Ok(a) => Ok(b) /\ Outcome(x, b)
  BY <1>2, <1>3 DEF Outcome, Ok
<1>5. IsCpu(p) /\ p.err = b.err /\ p.ev = b.ev /\ p.trap = b.trap /\ p.m64 = b.m64
  BY <1>3, ColdKeeps
<1> HIDE DEF p
<1>6. z = [y \in CpuNames |-> z[y]]
  <2>1. DOMAIN p = CpuNames
    BY <1>5 DEF IsCpu
  <2>2. z = [y \in DOMAIN p |-> z[y]]
    OBVIOUS
  <2> QED BY <2>1, <2>2, Zenon
<1>7. IsRegs(z.r)
  <2>1. z.r = [y \in RegNames |-> z.r[y]]
    BY <1>5 DEF IsCpu, IsRegs, CpuNames, RegNames
  <2>2. z.r.seg = [i \in SegNames |-> z.r.seg[i]]
    BY <1>5 DEF IsCpu, IsRegs, CpuNames, RegNames
  <2> QED BY <2>1, <2>2 DEF IsRegs
<1>8. /\ z.cold = p.cold /\ z.saved = p.saved /\ z.err = p.err /\ z.ev = p.ev /\ z.trap = p.trap
      /\ z.m64 = p.m64
  BY <1>5 DEF IsCpu, CpuNames
<1> HIDE DEF z
<1>9. Ok(a) => Outcome(x, z) /\ z.ev = NoEvent
  BY <1>2, <1>3, <1>4, <1>5, <1>6, <1>7, <1>8, FinalOutcome DEF Ok
<1>10. Ok(a) => Outcome(x, HostTrap(b, "Syscall"))
  BY <1>4, HostOutcome
<1> QED BY <1>0, <1>1, <1>9, <1>10, MovesOutcome

LEMMA SysretOutcome ==
    ASSUME NEW x, Begun(x)
    PROVE  Outcome(x, sysret(x))
<1> DEFINE base == c.star.user
           wide == x.osize = 4
           s1 == Need(x, x.m64 /\ c.sce, Ud)
           s2 == Need(s1, cpl(x.r) = 0, Gp(0))
           a == Need(s2, wide => canonical(x.r.rcx), Gp(0))
           cs == IF wide THEN Flat(User(base + 16), "code", 3, TRUE, FALSE)
                 ELSE Flat(User(base), "code", 3, FALSE, TRUE)
           ss == Flat(User(base + 8), "data", 3, FALSE, TRUE)
           f == FromImage(x.r.r11) \ {"RF", "VM"}
           ip == IF wide THEN x.r.rcx ELSE x.r.rcx % W32
           p == prepare_cold_write(a)
           z == [p EXCEPT !.r.seg["CS"] = cs, !.r.seg["SS"] = ss, !.r.fl = f, !.r.rip = ip]
<1>0. sysret(x) = IF ~Ok(a) THEN a ELSE z
  BY Zenon DEF sysret
<1>1. Moves(SegNames, x, s1)
  BY BegunMoves, NeedStep
<1> HIDE DEF s1, base, wide, cs, ss, f, ip
<1>2. Moves(SegNames, x, s2)
  BY <1>1, NeedStep
<1> HIDE DEF s2
<1>3. Moves(SegNames, x, a) /\ IsCpu(a)
  BY <1>2, NeedStep, MovesCpu
<1> HIDE DEF a
<1>4. IsCpu(p) /\ p.err = a.err /\ p.ev = NoEvent /\ p.trap = "none" /\ p.m64 = x.m64
  BY <1>3, ColdKeeps DEF Moves, Begun
<1> HIDE DEF p
<1>6. z = [y \in CpuNames |-> z[y]]
  <2>1. DOMAIN p = CpuNames
    BY <1>4 DEF IsCpu
  <2>2. z = [y \in DOMAIN p |-> z[y]]
    OBVIOUS
  <2> QED BY <2>1, <2>2, Zenon
<1>7. IsRegs(z.r)
  <2>1. z.r = [y \in RegNames |-> z.r[y]]
    BY <1>4 DEF IsCpu, IsRegs, CpuNames, RegNames
  <2>2. z.r.seg = [i \in SegNames |-> z.r.seg[i]]
    BY <1>4 DEF IsCpu, IsRegs, CpuNames, RegNames
  <2> QED BY <2>1, <2>2 DEF IsRegs
<1>8. /\ z.cold = p.cold /\ z.saved = p.saved /\ z.err = p.err /\ z.ev = p.ev /\ z.trap = p.trap
      /\ z.m64 = p.m64
  BY <1>4 DEF IsCpu, CpuNames
<1> HIDE DEF z
<1>9. Ok(a) => Outcome(x, z) /\ z.ev = NoEvent
  BY <1>4, <1>6, <1>7, <1>8, FinalOutcome DEF Ok
<1> QED BY <1>0, <1>3, <1>9, MovesOutcome

LEMMA SwapgsOutcome ==
    ASSUME NEW x, Begun(x)
    PROVE  Outcome(x, swapgs(x)) /\ swapgs(x).ev = NoEvent
<1> DEFINE s1 == Need(x, x.m64, Ud)
           a == Need(s1, cpl(x.r) = 0, Gp(0))
           p == prepare_cold_write(a)
           k == x.r.seg["GS"].d.base
           z == [p EXCEPT !.r.seg["GS"].d.base = x.r.kgs, !.r.kgs = k]
<1>0. swapgs(x) = IF ~Ok(a) THEN a ELSE z
  BY Zenon DEF swapgs
<1>1. Moves(SegNames, x, s1)
  BY BegunMoves, NeedStep
<1> HIDE DEF s1, k
<1>2. Moves(SegNames, x, a) /\ IsCpu(a)
  BY <1>1, NeedStep, MovesCpu
<1> HIDE DEF a
<1>4. IsCpu(p) /\ p.err = a.err /\ p.ev = NoEvent /\ p.trap = "none" /\ p.m64 = x.m64
  BY <1>2, ColdKeeps DEF Moves, Begun
<1> HIDE DEF p
<1>6. z = [y \in CpuNames |-> z[y]]
  <2>1. DOMAIN p = CpuNames
    BY <1>4 DEF IsCpu
  <2>2. z = [y \in DOMAIN p |-> z[y]]
    OBVIOUS
  <2> QED BY <2>1, <2>2, Zenon
<1>7. IsRegs(z.r)
  <2>1. z.r = [y \in RegNames |-> z.r[y]]
    BY <1>4 DEF IsCpu, IsRegs, CpuNames, RegNames
  <2>2. z.r.seg = [i \in SegNames |-> z.r.seg[i]]
    BY <1>4 DEF IsCpu, IsRegs, CpuNames, RegNames
  <2> QED BY <2>1, <2>2 DEF IsRegs
<1>8. /\ z.cold = p.cold /\ z.saved = p.saved /\ z.err = p.err /\ z.ev = p.ev /\ z.trap = p.trap
      /\ z.m64 = p.m64
  BY <1>4 DEF IsCpu, CpuNames
<1> HIDE DEF z
<1>9. Ok(a) => Outcome(x, z) /\ z.ev = NoEvent
  BY <1>4, <1>6, <1>7, <1>8, FinalOutcome DEF Ok
<1> QED BY <1>0, <1>2, <1>9, MovesOutcome

-----------------------------------------------------------------------------
(* An instruction from its start to the epilogue.                          *)

(* z is t at the start of an instruction: nothing a fault has to give back *)
(* was written.                                                            *)
Starting(t, z) ==
    /\ Begun(z)
    /\ z.r.seg = t.r.seg /\ (z.m64 => c.long)
    /\ Origin(z).seg = t.r.seg /\ Origin(z).kgs = t.r.kgs /\ z.r.fl = t.r.fl

LEMMA ExecOne ==
    ASSUME NEW t, IsCpu(t), t.trap = "none", NEW p
    PROVE  Starting(t, exec_one(t, p))
<1> DEFINE m == mode64(t.r)
           n == scan_prefixes(m, t.r.seg["CS"].d.db, p)
           a == [t EXCEPT !.m64 = m, !.cold = FALSE, !.inhibit = FALSE,
                          !.v = <<>>, !.ev = NoEvent, !.osize = n]
           b == fetch_check(a)
           z == SetRip(b, t.r.rip + 1)
<1>0. exec_one(t, p) = z
  BY Zenon DEF exec_one
<1>m. m => c.long
  BY DEF mode64
<1> HIDE DEF m, n
<1>1. /\ IsCpu(a) /\ a.ev = NoEvent /\ a.trap = "none" /\ a.r = t.r /\ a.cold = FALSE
      /\ a.m64 = m
  BY DEF IsCpu, IsRegs, CpuNames
<1> HIDE DEF a
<1>2. Moves({}, a, b)
  BY <1>1, NeedMoves DEF fetch_check
<1> HIDE DEF b
<1>3. Moves({}, a, z)
  BY <1>2, SetRipStep
<1> HIDE DEF z
<1>4. Origin(a) = t.r
  BY <1>1 DEF Origin
<1>5. z.r.seg = a.r.seg
  BY <1>1, <1>3 DEF Moves, IsCpu, IsRegs
<1> QED BY <1>0, <1>m, <1>1, <1>3, <1>4, <1>5 DEF Starting, Begun, Moves

(* The rewind gives back every register; the fault is then the host's or   *)
(* is delivered.                                                           *)
LEMMA Rewound ==
    ASSUME NEW t, IsCpu(t), NEW z, Starting(t, z), NEW u, Outcome(z, u), ~Ok(u)
    PROVE  \E w : /\ IsCpu(w) /\ Ok(w) /\ w.r = t.r /\ w.ev = NoEvent /\ w.trap = "none"
                  /\ w.m64 = u.m64
                  /\ fault_epilogue(t, u) = IF c.trap_faults THEN [w EXCEPT !.trap = "Exception"]
                                            ELSE deliver(w, Exception(u.err), "Fault")
<1> DEFINE q == IF u.cold THEN [u.saved EXCEPT !.fl = u.r.fl] ELSE u.r
           back == [q EXCEPT !.rsp = t.r.rsp, !.rcx = t.r.rcx, !.r11 = t.r.r11, !.rip = t.r.rip]
           w == [u EXCEPT !.r = back, !.err = NoErr]
           h == [w EXCEPT !.trap = "Exception"]
           y == deliver(w, Exception(u.err), "Fault")
<1>1. IsCpu(u) /\ Moves(SegNames, z, u)
  BY DEF Outcome
<1>2. /\ Origin(u).seg = t.r.seg /\ Origin(u).kgs = t.r.kgs /\ u.r.fl = t.r.fl
      /\ u.ev = NoEvent /\ u.trap = "none"
  BY <1>1 DEF Moves, Starting, Begun, SegNames, DataSegs
<1>3. q = [n \in RegNames |-> q[n]] /\ q.fl = t.r.fl /\ q.seg = Origin(u).seg /\ q.kgs = Origin(u).kgs
  BY <1>1, <1>2 DEF IsCpu, IsRegs, RegNames, Origin
<1> HIDE DEF q
<1>4. back = t.r
  <2>1. back = [n \in RegNames |-> back[n]] /\ t.r = [n \in RegNames |-> t.r[n]]
    BY <1>3 DEF IsCpu, IsRegs
  <2>2. \A n \in RegNames : back[n] = t.r[n]
    BY <1>2, <1>3 DEF RegNames
  <2> HIDE DEF back
  <2> QED BY <2>1, <2>2
<1> HIDE DEF back
<1>5. /\ IsCpu(w) /\ w.r = t.r /\ w.err = NoErr /\ w.ev = NoEvent /\ w.trap = "none"
      /\ w.m64 = u.m64
  BY <1>1, <1>2, <1>4 DEF IsCpu, IsRegs, CpuNames
<1>6. fault_epilogue(t, u) = IF c.trap_faults THEN h ELSE y
  <2>1. Ok(w)
    BY <1>5 DEF Ok
  <2> QED BY <2>1, Zenon DEF fault_epilogue, HostTrap, w, back, q
<1> HIDE DEF w
<1>7. Ok(w)
  BY <1>5 DEF Ok
<1> QED BY <1>5, <1>6, <1>7

LEMMA Rewinds ==
    ASSUME NEW t, IsCpu(t), NEW z, Starting(t, z), NEW u, Outcome(z, u), ~Ok(u)
    PROVE  /\ IsCpu(fault_epilogue(t, u)) /\ Ok(fault_epilogue(t, u))
           /\ c.trap_faults => fault_epilogue(t, u).r = t.r
           /\ ~c.trap_faults => /\ Preserved(t, fault_epilogue(t, u))
                                /\ fault_epilogue(t, u).trap = "none"
<1>1. PICK w : /\ IsCpu(w) /\ Ok(w) /\ w.r = t.r /\ w.ev = NoEvent /\ w.trap = "none"
               /\ fault_epilogue(t, u) = IF c.trap_faults THEN [w EXCEPT !.trap = "Exception"]
                                         ELSE deliver(w, Exception(u.err), "Fault")
  BY Rewound
<1> DEFINE h == [w EXCEPT !.trap = "Exception"]
           y == deliver(w, Exception(u.err), "Fault")
<1>2. IsCpu(h) /\ h.r = t.r /\ Ok(h)
  BY <1>1 DEF IsCpu, IsRegs, CpuNames, Ok
<1>3. IsSeq(Exception(u.err).code)
  BY ExceptionSeq
<1>4. IsCpu(y) /\ Ok(y) /\ y.trap = "none" /\ Preserved(w, y)
  BY <1>1, <1>3, DeliverStep
<1> HIDE DEF h, y
<1>5. Preserved(t, y)
  BY <1>1, <1>4 DEF Preserved
<1>6. fault_epilogue(t, u) = IF c.trap_faults THEN h ELSE y
  BY <1>1 DEF h, y
<1> QED BY <1>2, <1>4, <1>5, <1>6

LEMMA SettledKeeps ==
    ASSUME NEW y, IsCpu(y), Ok(y)
    PROVE  /\ IsCpu(Settled(y)) /\ Ok(Settled(y))
           /\ Settled(y).r = y.r /\ Settled(y).ev = y.ev
BY DEF Settled, IsCpu, IsRegs, CpuNames, Ok

LEMMA EndOfInstruction ==
    ASSUME TypeOK, NEW z, Starting(s, z), NEW u, Outcome(z, u),
           NEW call, call.kind \notin {"hosted", "event"}, step_fast(u, call)
    PROVE  TypeOK' /\ LeavesNoTrace
<1> DEFINE y == IF Ok(u) THEN u ELSE fault_epilogue(s, u)
<1>1. s' = Settled(y) /\ last' = Transfer(s, y, call) /\ c' = c
  BY DEF step_fast
<1>2. IsCpu(y) /\ Ok(y)
  BY Rewinds DEF TypeOK, Outcome
<1>3. \/ y.trap # "Exception" /\ (y.ev = NoEvent \/ y.ev.class = "SoftInt")
      \/ y.r = s.r
      \/ y.trap = "none" /\ Preserved(s, y)
  BY Rewinds DEF TypeOK, Outcome
<1> HIDE DEF y
<1>4. IsCpu(s') /\ Ok(s') /\ s'.r = y.r /\ s'.ev = y.ev
  BY <1>1, <1>2, SettledKeeps
<1>5. TypeOK'
  BY <1>1, <1>4 DEF TypeOK, IsMachine, IsTable, IsCpu, Ok
<1>6. y.trap # "Exception" => last'.kind # "hosted"
  BY <1>1 DEF Transfer
<1>7. y.ev = NoEvent /\ y.trap # "Exception" => last'.kind # "event"
  BY <1>1 DEF Transfer
<1>8. LeavesNoTrace
  BY <1>3, <1>4, <1>6, <1>7 DEF LeavesNoTrace, Preserved
<1> QED BY <1>5, <1>8

LEMMA Instruction ==
    ASSUME TypeOK, Ready, NEW p, NEW u,
           Begun(exec_one(s, p)) /\ Ok(exec_one(s, p)) => Outcome(exec_one(s, p), u),
           NEW call, call.kind \notin {"hosted", "event"},
           step_fast(IF Ok(exec_one(s, p)) THEN u ELSE exec_one(s, p), call)
    PROVE  TypeOK' /\ LeavesNoTrace
<1> DEFINE z == exec_one(s, p)
           t == IF Ok(z) THEN u ELSE z
<1>1. Starting(s, z)
  BY ExecOne DEF TypeOK, Ready
<1> HIDE DEF z
<1>2. Outcome(z, t)
  BY <1>1, BegunMoves, MovesOutcome DEF Starting, z
<1>3. step_fast(t, call)
  BY DEF z
<1> HIDE DEF t
<1> QED BY <1>1, <1>2, <1>3, EndOfInstruction

LEMMA EventBetween ==
    ASSUME TypeOK, NEW e, IsSeq(e.code), Boundary(e)
    PROVE  TypeOK' /\ LeavesNoTrace
<1> DEFINE t == [s EXCEPT !.ev = NoEvent]
           y == deliver(t, e, "External")
           w == Settled(y)
           q == [w EXCEPT !.inhibit = FALSE]
<1>1. s' = q /\ c' = c /\ last'.kind # "hosted"
  BY DEF Boundary, NoTransfer
<1>2. IsCpu(t) /\ Ok(t) /\ t.ev = NoEvent /\ t.r = s.r
  BY DEF TypeOK, IsCpu, IsRegs, CpuNames, Ok
<1> HIDE DEF t
<1>3. IsCpu(y) /\ Ok(y) /\ Preserved(t, y)
  BY <1>2, DeliverStep
<1> HIDE DEF y
<1>4. IsCpu(w) /\ Ok(w) /\ w.r = y.r
  BY <1>3, SettledKeeps
<1> HIDE DEF w
<1>5. IsCpu(q) /\ Ok(q) /\ q.r = w.r
  BY <1>4 DEF IsCpu, IsRegs, CpuNames, Ok
<1> HIDE DEF q
<1>6. TypeOK'
  BY <1>1, <1>5 DEF TypeOK, IsMachine, IsTable, IsCpu, Ok
<1>7. LeavesNoTrace
  BY <1>1, <1>2, <1>3, <1>4, <1>5 DEF LeavesNoTrace, Preserved
<1> QED BY <1>6, <1>7

-----------------------------------------------------------------------------
(* Every action of the core.                                               *)

LEMMA NextStep ==
    ASSUME TypeOK, Next
    PROVE  TypeOK' /\ LeavesNoTrace
<1> DEFINE Goal == TypeOK' /\ LeavesNoTrace
<1>n. NoTransfer.kind \notin {"hosted", "event"}
  BY DEF NoTransfer
<1>a. \A x : Begun(x) => Moves(SegNames, x, x)
  BY BegunMoves
<1>b. "CS" \in SegNames /\ "SS" \in SegNames /\ {"CS", "SS"} \subseteq SegNames
  BY DEF SegNames
<1>m. IsMachine(c)
  BY DEF TypeOK
<1> HIDE DEF Goal
<1>1. CASE JumpFar
  <2>1. PICK x \in c.prog.far, p \in c.prog.prefixes :
          Execute(p, LAMBDA z : jump_far(z, x.sel, x.off % Width(z.osize)), NoTransfer)
    BY <1>1 DEF JumpFar
  <2> DEFINE z == exec_one(s, p)
             u == jump_far(z, x.sel, x.off % Width(z.osize))
  <2>2. Ready /\ step_fast(IF Ok(z) THEN u ELSE z, NoTransfer)
    BY <2>1 DEF Execute
  <2>3. Begun(z) => Outcome(z, u)
    BY <1>a, <1>b, JumpFarStep, MovesOutcome
  <2> HIDE DEF u
  <2> QED BY <1>n, <2>2, <2>3, Instruction DEF Goal
<1>2. CASE CallFar
  <2>1. PICK x \in c.prog.far, p \in c.prog.prefixes : \E n, args :
          Execute(p, LAMBDA z : call_far(z, x.sel, x.off % Width(z.osize)),
                  [kind |-> "call", n |-> n, args |-> args, pre |-> Past(s.r), by |-> s.r])
    BY <1>2, Zenon DEF CallFar
  <2>a. PICK n, args :
          Execute(p, LAMBDA z : call_far(z, x.sel, x.off % Width(z.osize)),
                  [kind |-> "call", n |-> n, args |-> args, pre |-> Past(s.r), by |-> s.r])
    BY <2>1
  <2> DEFINE z == exec_one(s, p)
             u == call_far(z, x.sel, x.off % Width(z.osize))
             call == [kind |-> "call", n |-> n, args |-> args, pre |-> Past(s.r), by |-> s.r]
  <2>2. Ready /\ step_fast(IF Ok(z) THEN u ELSE z, call)
    BY <2>a DEF Execute
  <2>3. Begun(z) => Outcome(z, u)
    BY <1>a, <1>b, <1>m, CallFarStep, MovesOutcome
  <2>4. call.kind \notin {"hosted", "event"}
    OBVIOUS
  <2> HIDE DEF u, call
  <2> QED BY <2>2, <2>3, <2>4, Instruction DEF Goal
<1>3. CASE Retf
  <2>1. PICK n \in c.prog.release, p \in c.prog.prefixes : Execute(p, LAMBDA z : retf(z, n), NoTransfer)
    BY <1>3 DEF Retf
  <2> DEFINE z == exec_one(s, p)
             u == retf(z, n)
  <2>2. Ready /\ step_fast(IF Ok(z) THEN u ELSE z, NoTransfer)
    BY <2>1 DEF Execute
  <2>3. Begun(z) => Outcome(z, u)
    BY <1>a, RetfStep, MovesOutcome
  <2> HIDE DEF u
  <2> QED BY <1>n, <2>2, <2>3, Instruction DEF Goal
<1>4. CASE Iret
  <2>1. PICK p \in c.prog.prefixes : Execute(p, iret, NoTransfer)
    BY <1>4 DEF Iret
  <2> DEFINE z == exec_one(s, p)
             u == iret(z)
  <2>2. Ready /\ step_fast(IF Ok(z) THEN u ELSE z, NoTransfer)
    BY <2>1 DEF Execute
  <2>3. Begun(z) => Outcome(z, u)
    BY IretOutcome
  <2> HIDE DEF u
  <2> QED BY <1>n, <2>2, <2>3, Instruction DEF Goal
<1>5. CASE SoftInt
  <2>1. PICK v \in c.prog.ints : Execute("", LAMBDA z : int_n(z, v), NoTransfer)
    BY <1>5 DEF SoftInt
  <2> DEFINE z == exec_one(s, "")
             u == int_n(z, v)
  <2>2. Ready /\ step_fast(IF Ok(z) THEN u ELSE z, NoTransfer)
    BY <2>1 DEF Execute
  <2>3. Begun(z) /\ Ok(z) => Outcome(z, u)
    BY IntOutcome
  <2> HIDE DEF u
  <2> QED BY <1>n, <2>2, <2>3, Instruction DEF Goal
<1>6. CASE Int3
  <2> DEFINE z == exec_one(s, "")
             u == software_int(z, 3)
  <2>2. Ready /\ step_fast(IF Ok(z) THEN u ELSE z, NoTransfer)
    BY <1>6 DEF Int3, Execute
  <2>3. Begun(z) /\ Ok(z) => Outcome(z, u)
    BY SoftwareIntOutcome
  <2> HIDE DEF u
  <2> QED BY <1>n, <2>2, <2>3, Instruction DEF Goal
<1>7. CASE Syscall
  <2> DEFINE z == exec_one(s, "")
             u == syscall(z)
             call == [kind |-> "syscall", pre |-> Past(s.r), by |-> s.r]
  <2>2. Ready /\ step_fast(IF Ok(z) THEN u ELSE z, call)
    BY <1>7 DEF Syscall, Execute
  <2>3. Begun(z) /\ Ok(z) => Outcome(z, u)
    BY SyscallOutcome
  <2>4. call.kind \notin {"hosted", "event"}
    OBVIOUS
  <2> HIDE DEF u, call
  <2> QED BY <2>2, <2>3, <2>4, Instruction DEF Goal
<1>8. CASE Sysret
  <2>1. PICK p \in c.prog.prefixes : Execute(p, sysret, [kind |-> "sysret"])
    BY <1>8 DEF Sysret
  <2> DEFINE z == exec_one(s, p)
             u == sysret(z)
             call == [kind |-> "sysret"]
  <2>2. Ready /\ step_fast(IF Ok(z) THEN u ELSE z, call)
    BY <2>1 DEF Execute
  <2>3. Begun(z) => Outcome(z, u)
    BY SysretOutcome
  <2>4. call.kind \notin {"hosted", "event"}
    OBVIOUS
  <2> HIDE DEF u, call
  <2> QED BY <2>2, <2>3, <2>4, Instruction DEF Goal
<1>9. CASE Swapgs
  <2> DEFINE z == exec_one(s, "")
             u == swapgs(z)
  <2>2. Ready /\ step_fast(IF Ok(z) THEN u ELSE z, NoTransfer)
    BY <1>9 DEF Swapgs, Execute
  <2>3. Begun(z) => Outcome(z, u)
    BY SwapgsOutcome
  <2> HIDE DEF u
  <2> QED BY <1>n, <2>2, <2>3, Instruction DEF Goal
<1>10. CASE MovSeg
  <2>1. PICK i \in c.prog.segs, sel \in c.prog.sels :
          Execute("", LAMBDA z : HoldOff(load_seg(z, i, sel), i), NoTransfer)
    BY <1>10 DEF MovSeg
  <2> DEFINE z == exec_one(s, "")
             u == HoldOff(load_seg(z, i, sel), i)
  <2>2. Ready /\ step_fast(IF Ok(z) THEN u ELSE z, NoTransfer)
    BY <2>1 DEF Execute
  <2>3. Begun(z) => Outcome(z, u)
    BY <1>m, MovSegOutcome DEF IsMachine
  <2> HIDE DEF u
  <2> QED BY <1>n, <2>2, <2>3, Instruction DEF Goal
<1>11. CASE MovSp
  <2>1. PICK v \in c.prog.sps : \E p, w :
          step_fast(IF Ok(exec_one(s, p)) THEN [exec_one(s, p) EXCEPT !.r.rsp = w] ELSE exec_one(s, p),
                    NoTransfer)
    BY ZenonT(60), <1>11 DEF MovSp, Execute
  <2>a. PICK p, w :
          step_fast(IF Ok(exec_one(s, p)) THEN [exec_one(s, p) EXCEPT !.r.rsp = w] ELSE exec_one(s, p),
                    NoTransfer)
    BY <2>1
  <2> DEFINE z == exec_one(s, p)
             u == [z EXCEPT !.r.rsp = w]
  <2>2. Ready /\ step_fast(IF Ok(z) THEN u ELSE z, NoTransfer)
    BY <1>11, <2>a DEF MovSp, Execute
  <2>3. Begun(z) => Outcome(z, u)
    BY MovSpOutcome
  <2> HIDE DEF u
  <2> QED BY <1>n, <2>2, <2>3, Instruction DEF Goal
<1>12. CASE InOut
  <2>1. PICK port \in c.prog.ports : Execute("", LAMBDA z : io_check(z, port, 2), NoTransfer)
    BY <1>12 DEF InOut
  <2> DEFINE z == exec_one(s, "")
             u == io_check(z, port, 2)
  <2>2. Ready /\ step_fast(IF Ok(z) THEN u ELSE z, NoTransfer)
    BY <2>1 DEF Execute
  <2>3. Begun(z) => Outcome(z, u)
    BY IoOutcome
  <2> HIDE DEF u
  <2> QED BY <1>n, <2>2, <2>3, Instruction DEF Goal
<1>13. CASE Nmi \/ Intr
  <2>1. PICK v : Boundary([vector |-> v, code |-> <<>>])
    BY <1>13 DEF Nmi, Intr
  <2> DEFINE e == [vector |-> v, code |-> <<>>]
  <2>2. IsSeq(e.code)
    BY TupleSeq
  <2> HIDE DEF e
  <2> QED BY <2>1, <2>2, EventBetween DEF Goal, e
<1> QED
  BY <1>1, <1>2, <1>3, <1>4, <1>5, <1>6, <1>7, <1>8, <1>9, <1>10, <1>11, <1>12, <1>13 DEF Next, Goal

(* Between instructions the CPU state keeps its shape and no fault is      *)
(* pending, whatever the program and the interrupts: every fault has been  *)
(* delivered, given to the host or become a shutdown by then.              *)
THEOREM TypeCorrect == Spec => []TypeOK
<1>1. Init => TypeOK
  BY StartAssumption DEF Init, TypeOK
<1>2. TypeOK /\ UNCHANGED vars => TypeOK'
  BY DEF TypeOK, vars, IsMachine, IsTable, IsCpu, IsRegs, Ok
<1>3. TypeOK /\ [Next]_vars => TypeOK'
  BY <1>2, NextStep
<1> QED BY <1>1, <1>3, PTL DEF Spec

(* The rewind of every faulting far transfer, return, segment load,        *)
(* software interrupt and system call is exact: a host that takes faults   *)
(* sees all registers as before the instruction, a delivered fault has     *)
(* changed no register its frame does not hold.                            *)
THEOREM FaultsTransparent == Spec => FaultTransparent
<1>1. TypeOK /\ [Next]_vars => [LeavesNoTrace]_vars
  BY NextStep
<1> QED BY <1>1, TypeCorrect, PTL DEF Spec, FaultTransparent

-----------------------------------------------------------------------------
(* Arithmetic modulo the width of a stack pointer.                         *)

LEMMA MulLe ==
    ASSUME NEW n \in Nat \ {0}, NEW a \in Int, NEW b \in Int, a < b
    PROVE  n * a + n <= n * b
<1>1. b - a - 1 \in Nat
  OBVIOUS
<1>2. n * (b - a - 1) \in Nat
  BY <1>1
<1>3. n * (b - a - 1) = n * b - n * a - n
  OBVIOUS
<1> QED BY <1>2, <1>3

(* Numbers that differ by a multiple of m are the same modulo m.           *)
LEMMA SameMod ==
    ASSUME NEW m \in Nat \ {0}, NEW a \in Int, NEW k \in Int
    PROVE  (a + m * k) % m = a % m
<1> DEFINE b == a + m * k
           qa == a \div m
           ra == a % m
           qb == b \div m
           rb == b % m
<1>1. m * k \in Int /\ b \in Int
  OBVIOUS
<1>2. qa \in Int /\ ra \in 0 .. m - 1 /\ a = m * qa + ra
  OBVIOUS
<1>b. \A y \in Int : y \div m \in Int /\ y % m \in 0 .. m - 1 /\ y = m * (y \div m) + (y % m)
  OBVIOUS
<1> HIDE DEF b
<1>3. qb \in Int /\ rb \in 0 .. m - 1 /\ b = m * qb + rb
  BY <1>1, <1>b
<1> HIDE DEF qa, ra, qb, rb
<1> DEFINE q == qa + k
<1>4. q \in Int /\ m * q = m * qa + m * k /\ m * q \in Int /\ m * qb \in Int
  <2>1. \A x, y \in Int : m * (x + y) = m * x + m * y
    OBVIOUS
  <2> QED BY <1>2, <1>3, <2>1
<1>5. b = m * q + ra
  BY <1>1, <1>2, <1>4 DEF b
<1> HIDE DEF q
<1>6. ~(q < qb)
  <2> SUFFICES ASSUME q < qb PROVE FALSE
    OBVIOUS
  <2>1. m * q + m <= m * qb
    BY <1>3, <1>4, MulLe
  <2> QED BY <1>2, <1>3, <1>4, <1>5, <2>1
<1>7. ~(qb < q)
  <2> SUFFICES ASSUME qb < q PROVE FALSE
    OBVIOUS
  <2>1. m * qb + m <= m * q
    BY <1>3, <1>4, MulLe
  <2> QED BY <1>2, <1>3, <1>4, <1>5, <2>1
<1>8. q = qb
  BY <1>3, <1>4, <1>6, <1>7
<1>9. ra = rb
  BY <1>2, <1>3, <1>4, <1>5, <1>8
<1> QED BY <1>9 DEF b, ra, rb

LEMMA ModAdd ==
    ASSUME NEW m \in Nat \ {0}, NEW a \in Int, NEW b \in Int
    PROVE  /\ a % m \in Int /\ (a % m) % m = a % m
           /\ ((a % m) + b) % m = (a + b) % m
<1> DEFINE q == a \div m
           r == a % m
<1>1. q \in Int /\ r \in 0 .. m - 1 /\ a = m * q + r /\ m * q \in Int
  OBVIOUS
<1> HIDE DEF q, r
<1>2. a = r + m * q /\ a + b = (r + b) + m * q /\ r \in Int /\ r + b \in Int
  BY <1>1
<1>3. (r + m * q) % m = r % m /\ ((r + b) + m * q) % m = (r + b) % m
  BY <1>1, <1>2, SameMod
<1>4. r % m = a % m /\ (r + b) % m = (a + b) % m
  BY <1>2, <1>3
<1> QED BY <1>2, <1>3, <1>4 DEF r

LEMMA Widths ==
    /\ W16 \in Nat \ {0} /\ W32 \in Nat \ {0} /\ W64 \in Nat \ {0}
    /\ W32 # W16
<1> DEFINE d == B * B
<1>1. B \in Nat /\ B >= 2
  BY WordAssumption
<1>2. B * B >= 2 * B /\ B * B \in Nat
  BY <1>1
<1>3. d \in Nat \ {0} /\ d # B
  BY <1>1, <1>2
<1> HIDE DEF d
<1>4. d * d \in Nat /\ d * d # 0
  BY <1>3
<1>5. W64 = d * d
  BY <1>1 DEF W64, d
<1> QED BY <1>1, <1>3, <1>4, <1>5 DEF W16, W32, d

-----------------------------------------------------------------------------
(* The guard of the levels: what LevelsOk says of the registers, and what  *)
(* an instruction or an event may make of them.                            *)

SegsOk(r) == \A i \in SegNames : {"sel", "d"} \subseteq DOMAIN r.seg[i] /\ IsSegment(r.seg[i].d)
StackSegOk(r) ==
    c.pe /\ "VM" \notin r.fl =>
        IF r.seg["SS"].d.p THEN r.seg["SS"].d.dpl = r.seg["CS"].d.dpl
        ELSE c.long /\ r.seg["CS"].d.dpl # 3
RegsOk(r) == SegsOk(r) /\ StackSegOk(r)

LEMMA LevelsAreRegs ==
    ASSUME NEW t
    PROVE  LevelsOk(c, t) <=> RegsOk(t.r) /\ (t.m64 => c.long)
BY DEF LevelsOk, RegsOk, SegsOk, StackSegOk

LEMMA CplRange ==
    ASSUME NEW r, SegsOk(r)
    PROVE  cpl(r) \in 0 .. 3
BY DEF SegsOk, IsSegment, cpl, SegNames

LEMMA QuietRegs ==
    ASSUME NEW t, IsCpu(t), NEW u, Moves({}, t, u)
    PROVE  u.r.seg = t.r.seg /\ u.r.fl = t.r.fl /\ cpl(u.r) = cpl(t.r)
<1>1. u.r.seg = t.r.seg
  BY DEF Moves, IsCpu, IsRegs
<1> QED BY <1>1 DEF Moves, cpl, protected_mode

(* A need that was met.                                                    *)
LEMMA NeedMet ==
    ASSUME NEW t, IsCpu(t), NEW ok, NEW a, NEW b, Ok(Need(t, ok, <<a, b>>))
    PROVE  ok /\ Ok(t) /\ Need(t, ok, <<a, b>>) = t
BY DEF Need, Ok, IsCpu, CpuNames, NoErr

LEMMA NullDesc == IsSegment(NullD) /\ ~NullD.p
BY DEF IsSegment, NullD, Segment, SegFields, Conforming

(* A descriptor in use is present.                                         *)
Used(d) == [d EXCEPT !.p = TRUE]

LEMMA UsedDesc ==
    ASSUME NEW d, IsSegment(d)
    PROVE  /\ IsSegment(Used(d)) /\ Used(d).p /\ Used(d).dpl = d.dpl /\ Used(d).l = d.l
           /\ Used(d).db = d.db
BY DEF Used, IsSegment, SegFields, Conforming

-----------------------------------------------------------------------------
(* What the operations write when they succeed.                            *)

Loaded(sel, d) == [sel |-> sel, d |-> d]

LEMMA KnownSound ==
    ASSUME SoundMachine(c), NEW sel, Known(sel)
    PROVE  /\ IsCodeData(Desc(sel)) => IsSegment(Desc(sel))
           /\ WritableData(Desc(sel)) /\ Desc(sel).dpl < 3 => Desc(sel).db
           /\ Desc(sel).kind = "callgate" => Desc(sel).params \in 0 .. 31 /\ Desc(sel) \in CallGates
<1>1. /\ SoundTable(Table(sel)) /\ sel \div 8 \in DOMAIN Table(sel)
      /\ Range(Table(sel)) \subseteq Range(c.gdt) \cup Range(c.ldt)
  BY DEF SoundMachine, Known, Table
<1>2. Desc(sel) = Table(sel)[sel \div 8]
  BY DEF Desc
<1>3. Desc(sel) \in Range(Table(sel))
  BY <1>1, <1>2 DEF Range
<1> QED BY <1>1, <1>2, <1>3 DEF SoundTable, CallGates

(* From t to u only segment i was loaded, with x.                          *)
OneSeg(t, u, i, x) ==
    /\ IsCpu(u) /\ Ok(u) /\ u.m64 = t.m64
    /\ u.r.seg[i] = x /\ \A j \in SegNames \ {i} : u.r.seg[j] = t.r.seg[j]
    /\ u.r.fl = t.r.fl /\ u.r.rsp = t.r.rsp /\ u.r.rip = t.r.rip

LEMMA ColdValue ==
    ASSUME NEW t, IsCpu(t)
    PROVE  prepare_cold_write(t).r = t.r /\ prepare_cold_write(t).err = t.err
BY ColdKeeps

LEMMA SetSegValue ==
    ASSUME NEW t, IsCpu(t), Ok(t), NEW i \in SegNames, NEW sel, NEW d
    PROVE  OneSeg(t, SetSeg(t, i, sel, d), i, Loaded(sel, d))
<1> DEFINE p == prepare_cold_write(t)
           u == [p EXCEPT !.r.seg[i] = [sel |-> sel, d |-> d]]
<1>1. SetSeg(t, i, sel, d) = u
  BY DEF SetSeg
<1>2. IsCpu(p) /\ p.r = t.r /\ p.err = t.err /\ p.m64 = t.m64
  BY ColdKeeps
<1>3. Moves({i}, t, SetSeg(t, i, sel, d))
  BY SetSegMoves
<1> HIDE DEF p
<1>4. /\ u.err = p.err /\ u.r.seg[i] = [sel |-> sel, d |-> d]
      /\ u.r.rsp = p.r.rsp /\ u.r.rip = p.r.rip
      /\ u.r.fl = p.r.fl
  BY <1>2 DEF IsCpu, IsRegs, CpuNames, RegNames
<1> HIDE DEF u
<1>5. /\ IsCpu(u) /\ u.m64 = t.m64
      /\ \A j \in SegNames \ {i} : u.r.seg[j] = t.r.seg[j]
  BY <1>1, <1>3 DEF Moves
<1> QED BY <1>1, <1>2, <1>4, <1>5 DEF OneSeg, Ok, Loaded

LEMMA CommitValue ==
    ASSUME NEW t, IsCpu(t), Ok(t), NEW i \in SegNames, NEW sel, NEW d
    PROVE  OneSeg(t, commit_seg(t, i, sel, d), i, Loaded(sel, Used(d)))
<1> DEFINE p == prepare_cold_write(t)
           e == Used(d)
           u == [p EXCEPT !.r.seg[i] = [sel |-> sel, d |-> e], !.acc = @ \cup {Code(sel)}]
<1>1. commit_seg(t, i, sel, d) = u
  BY DEF commit_seg, Used
<1>2. IsCpu(p) /\ p.r = t.r /\ p.err = t.err /\ p.m64 = t.m64
  BY ColdKeeps
<1>a. Moves({i}, t, t)
  BY MovesRefl, MovesMore
<1>3. Moves({i}, t, commit_seg(t, i, sel, d))
  BY <1>a, CommitStep
<1> HIDE DEF p, e
<1>4. /\ u.err = p.err /\ u.r.seg[i] = [sel |-> sel, d |-> e]
      /\ u.r.rsp = p.r.rsp /\ u.r.rip = p.r.rip
      /\ u.r.fl = p.r.fl
  BY <1>2 DEF IsCpu, IsRegs, CpuNames, RegNames
<1> HIDE DEF u
<1>5. /\ IsCpu(u) /\ u.m64 = t.m64
      /\ \A j \in SegNames \ {i} : u.r.seg[j] = t.r.seg[j]
  BY <1>1, <1>3 DEF Moves
<1> QED BY <1>1, <1>2, <1>4, <1>5 DEF OneSeg, Ok, Loaded, e

LEMMA RipValue ==
    ASSUME NEW t, IsCpu(t), Ok(t), NEW v
    PROVE  /\ IsCpu(SetRip(t, v)) /\ Ok(SetRip(t, v)) /\ SetRip(t, v).m64 = t.m64
           /\ SetRip(t, v).r.seg = t.r.seg /\ SetRip(t, v).r.fl = t.r.fl
           /\ SetRip(t, v).r.rsp = t.r.rsp /\ SetRip(t, v).r.rip = v
<1> DEFINE u == [t EXCEPT !.r.rip = v]
<1>1. SetRip(t, v) = u
  BY DEF SetRip
<1>2. IsCpu(u)
  BY MovesRefl, FieldStep, MovesCpu
<1>3. /\ u.err = t.err /\ u.m64 = t.m64 /\ u.r.seg = t.r.seg /\ u.r.fl = t.r.fl
      /\ u.r.rsp = t.r.rsp /\ u.r.rip = v
  BY DEF IsCpu, IsRegs, CpuNames, RegNames
<1> HIDE DEF u
<1> QED BY <1>1, <1>2, <1>3 DEF Ok

LEMMA SpValue ==
    ASSUME NEW t, IsCpu(t), Ok(t), NEW v
    PROVE  /\ IsCpu([t EXCEPT !.r.rsp = v]) /\ Ok([t EXCEPT !.r.rsp = v])
           /\ [t EXCEPT !.r.rsp = v].m64 = t.m64
           /\ [t EXCEPT !.r.rsp = v].r.seg = t.r.seg /\ [t EXCEPT !.r.rsp = v].r.fl = t.r.fl
           /\ [t EXCEPT !.r.rsp = v].r.rsp = v /\ [t EXCEPT !.r.rsp = v].r.rip = t.r.rip
<1> DEFINE u == [t EXCEPT !.r.rsp = v]
<1>2. IsCpu(u)
  BY MovesRefl, FieldStep, MovesCpu
<1>3. /\ u.err = t.err /\ u.m64 = t.m64 /\ u.r.seg = t.r.seg /\ u.r.fl = t.r.fl
      /\ u.r.rsp = v /\ u.r.rip = t.r.rip
  BY DEF IsCpu, IsRegs, CpuNames, RegNames
<1> HIDE DEF u
<1>4. Ok(u)
  BY <1>3 DEF Ok
<1> QED BY <1>2, <1>3, <1>4 DEF u

LEMMA FlagsValue ==
    ASSUME NEW t, IsCpu(t), Ok(t), NEW fl
    PROVE  /\ IsCpu(SetFlags(t, fl)) /\ Ok(SetFlags(t, fl)) /\ SetFlags(t, fl).m64 = t.m64
           /\ SetFlags(t, fl).r.seg = t.r.seg /\ SetFlags(t, fl).r.fl = fl
           /\ SetFlags(t, fl).r.rsp = t.r.rsp /\ SetFlags(t, fl).r.rip = t.r.rip
<1> DEFINE u == [t EXCEPT !.r.fl = fl]
<1>1. SetFlags(t, fl) = u
  BY DEF SetFlags
<1>2. IsCpu(u)
  BY WritePc, MovesCpu, Zenon
<1>3. /\ u.err = t.err /\ u.m64 = t.m64 /\ u.r.seg = t.r.seg /\ u.r.fl = fl
      /\ u.r.rsp = t.r.rsp /\ u.r.rip = t.r.rip
  BY DEF IsCpu, IsRegs, CpuNames, RegNames
<1> HIDE DEF u
<1> QED BY <1>1, <1>2, <1>3 DEF Ok

(* Code entered at off with the selector's privilege field level.          *)
LEMMA EnterValue ==
    ASSUME NEW t, IsCpu(t), NEW sel, NEW d, NEW level, NEW off,
           Ok(t)
    PROVE  /\ IsCpu(Enter(t, sel, d, level, off)) /\ Ok(Enter(t, sel, d, level, off))
           /\ Enter(t, sel, d, level, off).m64 = t.m64
           /\ Enter(t, sel, d, level, off).r.seg["CS"] = Loaded(Code(sel) + level, Used(d))
           /\ \A j \in SegNames \ {"CS"} : Enter(t, sel, d, level, off).r.seg[j] = t.r.seg[j]
           /\ Enter(t, sel, d, level, off).r.fl = t.r.fl
           /\ Enter(t, sel, d, level, off).r.rsp = t.r.rsp
           /\ Enter(t, sel, d, level, off).r.rip = off
<1> DEFINE a == load_cs(t, sel, d, level)
           u == SetRip(a, off)
<1>1. OneSeg(t, a, "CS", Loaded(Code(sel) + level, Used(d)))
  BY CommitValue DEF load_cs, SegNames
<1>2. Enter(t, sel, d, level, off) = u
  BY DEF Enter
<1> HIDE DEF a
<1>3. IsCpu(a) /\ Ok(a)
  BY <1>1 DEF OneSeg
<1>4. /\ IsCpu(u) /\ Ok(u) /\ u.m64 = a.m64 /\ u.r.seg = a.r.seg /\ u.r.fl = a.r.fl
      /\ u.r.rsp = a.r.rsp /\ u.r.rip = off
  BY <1>3, RipValue
<1> HIDE DEF u
<1> QED BY <1>1, <1>2, <1>4 DEF OneSeg

LEMMA SetSpValue ==
    ASSUME NEW t, IsCpu(t), Ok(t), NEW d, NEW sp
    PROVE  /\ IsCpu(SetSp(t, d, sp)) /\ Ok(SetSp(t, d, sp)) /\ SetSp(t, d, sp).m64 = t.m64
           /\ SetSp(t, d, sp).r.seg = t.r.seg /\ SetSp(t, d, sp).r.fl = t.r.fl
           /\ d.db => SetSp(t, d, sp).r.rsp = sp % W32
<1> DEFINE v == IF d.db THEN sp % W32 ELSE (t.r.rsp - (t.r.rsp % W16)) + (sp % W16)
           u == [t EXCEPT !.r.rsp = v]
<1>1. SetSp(t, d, sp) = u
  BY DEF SetSp
<1> HIDE DEF v
<1>2. IsCpu(u) /\ Ok(u) /\ u.m64 = t.m64 /\ u.r.seg = t.r.seg /\ u.r.fl = t.r.fl /\ u.r.rsp = v
  BY ZenonT(60), SpValue
<1> HIDE DEF u
<1> QED BY <1>1, <1>2 DEF v

-----------------------------------------------------------------------------
(* The stack of an inner level.                                            *)

(* On a 32-bit stack outside 64-bit mode.                                  *)
Stack32(t) == ~t.m64 /\ t.r.seg["SS"].d.db

LEMMA NeedRegs ==
    ASSUME NEW t, IsCpu(t), NEW ok, NEW e
    PROVE  Need(t, ok, e).r = t.r /\ Need(t, ok, e).m64 = t.m64
BY DEF Need, IsCpu, CpuNames

LEMMA WriteRegs ==
    ASSUME NEW t, IsCpu(t), NEW a, NEW n, NEW v
    PROVE  lin_write(t, a, n, v).r = t.r /\ lin_write(t, a, n, v).m64 = t.m64
BY DEF lin_write, IsCpu, CpuNames

LEMMA PushValue ==
    ASSUME NEW t, IsCpu(t), Stack32(t), t.r.rsp \in Int, NEW n \in Int, NEW v, Ok(push(t, n, v))
    PROVE  /\ IsCpu(push(t, n, v)) /\ Ok(t) /\ Stack32(push(t, n, v))
           /\ push(t, n, v).r.rsp = (t.r.rsp - n) % W32
<1> DEFINE sp == (stack_ptr(t) - n) % stack_wrap(t)
           a == Need(t, StackLegal(t, sp, n, TRUE), Ss(0))
           w == lin_write(a, StackAt(t, sp), n, v % Width(n))
           u == adjust_sp(w, -n)
           z == [w EXCEPT !.r.rsp = (t.r.rsp - n) % W32]
<1>1. push(t, n, v) = u
  BY DEF push
<1>2. IsCpu(a) /\ a.r = t.r /\ a.m64 = t.m64
  BY NeedMoves, MovesCpu, NeedRegs
<1> HIDE DEF a
<1>3. Moves({}, t, u) /\ IsCpu(w)
  <2>1. Moves({}, a, w)
    BY <1>2, MovesRefl, WriteStep
  <2> QED BY <1>1, <2>1, MovesCpu, MovesRefl, PushStep
<1>4. w.r = t.r /\ w.m64 = t.m64
  BY <1>2, WriteRegs
<1> HIDE DEF w
<1>5. Ok(t) /\ IsCpu(u)
  BY <1>1, <1>3 DEF Moves
<1>6. Ok(w) /\ u = z
  <2>1. W32 \in Nat \ {0} /\ W32 # W16
    BY Widths
  <2>2. stack_wrap(w) = W32
    BY <1>4 DEF stack_wrap, Stack32
  <2>3. Ok(w)
    BY <1>1 DEF adjust_sp
  <2>4. /\ ((t.r.rsp % W32) + -n) % W32 = (t.r.rsp + -n) % W32
        /\ (t.r.rsp + -n) % W32 \in Int
    <3> DEFINE a0 == t.r.rsp
               b0 == -n
    <3>1. a0 \in Int /\ b0 \in Int /\ a0 + b0 \in Int
      OBVIOUS
    <3> HIDE DEF a0, b0
    <3>2. ((a0 % W32) + b0) % W32 = (a0 + b0) % W32 /\ (a0 + b0) % W32 \in Int
      BY <2>1, <3>1, ModAdd
    <3> QED BY <3>2 DEF a0, b0
  <2>5. 0 + (((w.r.rsp % W32) + -n) % W32) = (t.r.rsp - n) % W32
    BY <1>4, <2>4
  <2> QED BY <2>1, <2>2, <2>3, <2>5 DEF adjust_sp
<1>7. z.r.rsp = (t.r.rsp - n) % W32
  BY <1>3 DEF IsCpu, IsRegs, CpuNames, RegNames
<1> HIDE DEF z, u
<1>8. u.r.seg = t.r.seg /\ u.m64 = t.m64
  BY <1>3, QuietRegs DEF Moves
<1> QED BY <1>1, <1>5, <1>6, <1>7, <1>8 DEF Stack32

LEMMA PushAllValue ==
    ASSUME NEW t, IsCpu(t), Stack32(t), NEW sp \in Int, t.r.rsp = sp % W32, NEW n \in Int, NEW vs,
           Len(vs) \in Nat, Ok(PushAll(t, n, vs))
    PROVE  PushAll(t, n, vs).r.rsp = (sp - n * Len(vs)) % W32
<1>w. W32 \in Nat \ {0}
  BY Widths
<1>1. PICK g : /\ g = [i \in 0 .. Len(vs) |-> IF i = 0 THEN t ELSE push(g[i - 1], n, vs[i])]
               /\ PushAll(t, n, vs) = g[Len(vs)]
  BY PushAllDef
<1> DEFINE P(k) == k <= Len(vs) => /\ IsCpu(g[k])
                                   /\ Ok(g[k]) => Stack32(g[k]) /\ g[k].r.rsp = (sp - n * k) % W32
           T == {k \in Nat : P(k)}
<1>2. 0 \in T
  BY <1>1
<1>3. ASSUME NEW k \in Nat, k \in T PROVE k + 1 \in T
  <2> SUFFICES ASSUME k + 1 <= Len(vs) PROVE P(k + 1)
    OBVIOUS
  <2>1. g[k + 1] = push(g[k], n, vs[k + 1])
    BY <1>1
  <2>2. IsCpu(g[k])
    BY <1>3
  <2>3. Moves({}, g[k], g[k + 1])
    BY <2>1, <2>2, MovesRefl, PushStep
  <2>4. IsCpu(g[k + 1]) /\ (Ok(g[k + 1]) => Ok(g[k]))
    BY <2>3 DEF Moves
  <2>5. ASSUME Ok(g[k + 1]) PROVE Stack32(g[k + 1]) /\ g[k + 1].r.rsp = (sp - n * (k + 1)) % W32
    <3> DEFINE a == sp - n * k
               b == -n
    <3>1. Stack32(g[k]) /\ g[k].r.rsp = a % W32
      BY <1>3, <2>4, <2>5
    <3>2. a \in Int /\ b \in Int /\ sp - n * (k + 1) = a + b
      OBVIOUS
    <3> HIDE DEF a, b
    <3>3. a % W32 \in Int /\ ((a % W32) + b) % W32 = (a + b) % W32
      BY <1>w, <3>2, ModAdd
    <3>4. Stack32(g[k + 1]) /\ g[k + 1].r.rsp = (g[k].r.rsp - n) % W32
      BY <2>1, <2>2, <2>5, <3>1, <3>3, PushValue
    <3>5. (a % W32) - n = (a % W32) + b
      BY <3>3 DEF b
    <3> QED BY <3>1, <3>2, <3>3, <3>4, <3>5
  <2> QED BY <2>4, <2>5
<1>4. Len(vs) \in T
  BY <1>2, <1>3, Induction
<1> QED BY <1>1, <1>4

(* The stack segment of the level, its pointer the one asked for.          *)
Switched(t, w, sp, level) ==
    /\ IsCpu(w) /\ Ok(t) /\ Stack32(w) /\ w.r.fl = t.r.fl /\ w.r.rsp = sp % W32
    /\ {"sel", "d"} \subseteq DOMAIN w.r.seg["SS"] /\ IsSegment(w.r.seg["SS"].d)
    /\ w.r.seg["SS"].d.p /\ w.r.seg["SS"].d.dpl = level
    /\ \A i \in SegNames \ {"SS"} : w.r.seg[i] = t.r.seg[i]

LEMMA SwitchValue ==
    ASSUME SoundMachine(c), NEW t, IsCpu(t), NEW ss, NEW sp, NEW level \in 0 .. 2, ~t.m64,
           Ok(switch_stack(t, ss, sp, level))
    PROVE  Switched(t, switch_stack(t, ss, sp, level), sp, level)
<1> DEFINE d == Desc(ss)
           k1 == Rpl(ss) = level
           k3 == WritableData(d) /\ d.dpl = level
           s0 == Need(t, ~IsNull(ss), Ts(0))
           s1 == Need(s0, k1, Ts(Code(ss)))
           s2 == Need(s1, Known(ss), Ts(Code(ss)))
           s3 == Need(s2, k3, Ts(Code(ss)))
           s4 == Need(s3, d.p, Ss(Code(ss)))
           s5 == commit_seg(s4, "SS", ss, d)
           z == SetSp(s5, d, sp)
<1>0. switch_stack(t, ss, sp, level) = IF Ok(s4) THEN z ELSE s4
  BY Zenon DEF switch_stack
<1> HIDE DEF k1, k3
<1>a. IsCpu(s0) /\ (Ok(s0) => s0 = t /\ Ok(t))
  BY NeedMoves, MovesCpu, NeedMet DEF Ts
<1> HIDE DEF s0
<1>1. IsCpu(s1) /\ (Ok(s1) => s1 = s0 /\ Ok(s0))
  BY <1>a, NeedMoves, MovesCpu, NeedMet DEF Ts
<1> HIDE DEF s1
<1>2. IsCpu(s2) /\ (Ok(s2) => s2 = s1 /\ Ok(s1) /\ Known(ss))
  BY <1>1, NeedMoves, MovesCpu, NeedMet DEF Ts
<1> HIDE DEF s2
<1>3. IsCpu(s3) /\ (Ok(s3) => s3 = s2 /\ Ok(s2) /\ k3)
  BY <1>2, NeedMoves, MovesCpu, NeedMet DEF Ts
<1> HIDE DEF s3
<1>4. IsCpu(s4) /\ (Ok(s4) => s4 = s3 /\ Ok(s3) /\ d.p)
  BY <1>3, NeedMoves, MovesCpu, NeedMet DEF Ss
<1> HIDE DEF s4
<1>5. Ok(s4) /\ switch_stack(t, ss, sp, level) = z
  BY <1>0
<1>6. /\ s4 = t /\ Ok(t) /\ Known(ss) /\ WritableData(d) /\ d.dpl = level
  BY <1>a, <1>1, <1>2, <1>3, <1>4, <1>5 DEF k3
<1>7. IsSegment(d) /\ d.db
  BY <1>6, KnownSound DEF WritableData, IsCodeData
<1>8. OneSeg(t, s5, "SS", Loaded(ss, Used(d)))
  BY <1>5, <1>6, CommitValue DEF SegNames
<1> HIDE DEF s5
<1>9. /\ IsCpu(z) /\ Ok(z) /\ z.m64 = s5.m64 /\ z.r.seg = s5.r.seg /\ z.r.fl = s5.r.fl
      /\ z.r.rsp = sp % W32
  BY <1>7, <1>8, SetSpValue DEF OneSeg
<1> HIDE DEF z
<1> DEFINE e == Used(d)
<1>10. IsSegment(e) /\ e.p /\ e.dpl = d.dpl /\ e.db = d.db
  BY <1>7, UsedDesc
<1> HIDE DEF e, d
<1>11. z.r.seg["SS"] = Loaded(ss, e) /\ z.m64 = t.m64 /\ z.r.fl = t.r.fl
       /\ \A j \in SegNames \ {"SS"} : z.r.seg[j] = t.r.seg[j]
  BY <1>8, <1>9 DEF OneSeg, e, d
<1> DEFINE x == Loaded(ss, e)
<1>12. x.d = e /\ {"sel", "d"} \subseteq DOMAIN x
  BY DEF Loaded
<1> HIDE DEF x
<1>13. z.r.seg["SS"] = x
  BY <1>11 DEF x
<1>14. Switched(t, z, sp, level)
  BY <1>6, <1>7, <1>9, <1>10, <1>11, <1>12, <1>13 DEF Stack32, Switched
<1> QED BY <1>5, <1>14

-----------------------------------------------------------------------------
(* What the checks of a transfer's target have seen when they pass.        *)

(* A check that passed changed nothing.                                    *)
Met(t, u) == IsCpu(u) /\ (Ok(u) => u = t /\ Ok(t))

LEMMA MetNeed ==
    ASSUME NEW t, NEW u, Met(t, u), NEW ok, NEW a, NEW b
    PROVE  Met(t, Need(u, ok, <<a, b>>)) /\ (Ok(Need(u, ok, <<a, b>>)) => ok /\ Ok(u))
<1>1. IsCpu(u)
  BY DEF Met
<1> QED BY <1>1, NeedMoves, MovesCpu, NeedMet DEF Met

LEMMA MetSelf == ASSUME NEW t, IsCpu(t) PROVE Met(t, t)
BY DEF Met

LEMMA MetTrans == ASSUME NEW t, NEW u, NEW w, Met(t, u), Met(u, w) PROVE Met(t, w)
BY DEF Met

LEMMA ReadMet ==
    ASSUME NEW t, NEW u, Met(t, u), NEW sel
    PROVE  Met(t, read_descriptor(u, sel)) /\ (Ok(read_descriptor(u, sel)) => Known(sel) /\ Ok(u))
BY MetNeed DEF read_descriptor, Gp

LEMMA GateMet ==
    ASSUME NEW t, IsCpu(t), NEW sel, NEW d
    PROVE  /\ Met(t, check_gate(t, sel, d))
           /\ Ok(check_gate(t, sel, d)) => d.p /\ d.dpl >= cpl(t.r)
<1> DEFINE k == d.dpl >= cpl(t.r) /\ d.dpl >= Rpl(sel)
           a == Need(t, k, Gp(Code(sel)))
<1>0. check_gate(t, sel, d) = Need(a, d.p, Np(Code(sel)))
  BY DEF check_gate
<1> HIDE DEF k
<1>1. Met(t, a) /\ (Ok(a) => k)
  BY MetSelf, MetNeed DEF Gp
<1> HIDE DEF a
<1>2. /\ Met(t, Need(a, d.p, Np(Code(sel))))
      /\ Ok(Need(a, d.p, Np(Code(sel)))) => d.p /\ Ok(a)
  BY <1>1, MetNeed DEF Np
<1> QED BY <1>0, <1>1, <1>2 DEF k

LEMMA GateTargetMet ==
    ASSUME NEW t, NEW u, Met(t, u), NEW gsel
    PROVE  /\ Met(t, check_gate_target(u, gsel))
           /\ Ok(check_gate_target(u, gsel)) =>
                /\ Ok(u) /\ Known(gsel) /\ Desc(gsel).kind = "code" /\ Desc(gsel).dpl <= cpl(t.r)
                /\ c.long => Desc(gsel).l
<1> DEFINE gd == Desc(gsel)
           k2 == gd.kind = "code" /\ gd.dpl <= cpl(u.r)
           k4 == c.long => gd.l /\ ~gd.db
           s0 == read_descriptor(u, gsel)
           s1 == Need(s0, ~IsNull(gsel), Gp(0))
           s2 == Need(s1, k2, Gp(Code(gsel)))
           s3 == Need(s2, gd.p, Np(Code(gsel)))
           s4 == Need(s3, k4, Gp(Code(gsel)))
<1>0. check_gate_target(u, gsel) = s4
  BY DEF check_gate_target
<1> HIDE DEF k2, k4, gd
<1>a. Met(t, s0) /\ (Ok(s0) => Known(gsel) /\ Ok(u))
  BY ReadMet
<1> HIDE DEF s0
<1>1. Met(t, s1) /\ (Ok(s1) => Ok(s0))
  BY <1>a, MetNeed DEF Gp
<1> HIDE DEF s1
<1>2. Met(t, s2) /\ (Ok(s2) => k2 /\ Ok(s1))
  BY <1>1, MetNeed DEF Gp
<1> HIDE DEF s2
<1>3. Met(t, s3) /\ (Ok(s3) => Ok(s2))
  BY <1>2, MetNeed DEF Np
<1> HIDE DEF s3
<1>4. Met(t, s4) /\ (Ok(s4) => k4 /\ Ok(s3))
  BY <1>3, MetNeed DEF Gp
<1> HIDE DEF s4
<1>5. Ok(u) => u = t
  BY DEF Met
<1> QED BY <1>0, <1>a, <1>1, <1>2, <1>3, <1>4, <1>5 DEF k2, k4, gd

LEMMA CodeTargetMet ==
    ASSUME NEW t, NEW u, Met(t, u), NEW d, NEW sel, NEW off
    PROVE  Met(t, check_code_target(u, d, sel, off)) /\ (Ok(check_code_target(u, d, sel, off)) => Ok(u))
<1> DEFINE a == Need(u, ~d.db, Gp(Code(sel)))
           b == Need(a, canonical(off), Gp(0))
           k == off <= d.limit
           e == Need(u, k, Gp(0))
<1>0. check_code_target(u, d, sel, off) = IF c.long /\ d.l THEN b ELSE e
  BY DEF check_code_target
<1> HIDE DEF k
<1>1. Met(t, a) /\ (Ok(a) => Ok(u))
  BY MetNeed DEF Gp
<1> HIDE DEF a
<1>2. Met(t, b) /\ (Ok(b) => Ok(a))
  BY <1>1, MetNeed DEF Gp
<1>3. Met(t, e) /\ (Ok(e) => Ok(u))
  BY MetNeed DEF Gp
<1> HIDE DEF b, e
<1> QED BY <1>0, <1>1, <1>2, <1>3

(* A direct transfer stays at the level.                                   *)
LEMMA DirectMet ==
    ASSUME NEW t, IsCpu(t), NEW sel, NEW off
    PROVE  /\ Met(t, DirectTarget(t, sel, off))
           /\ Ok(DirectTarget(t, sel, off)) => (Desc(sel).conf \/ Desc(sel).dpl = cpl(t.r))
<1> DEFINE d == Desc(sel)
           k == IF d.conf THEN d.dpl <= cpl(t.r) ELSE Rpl(sel) <= cpl(t.r) /\ d.dpl = cpl(t.r)
           a == Need(t, k, Gp(Code(sel)))
           b == Need(a, d.p, Np(Code(sel)))
           e == check_code_target(b, d, sel, off)
<1>0. DirectTarget(t, sel, off) = e
  BY DEF DirectTarget, check_code_reachable
<1> HIDE DEF k, d
<1>1. Met(t, a) /\ (Ok(a) => k)
  BY MetSelf, MetNeed DEF Gp
<1> HIDE DEF a
<1>2. Met(t, b) /\ (Ok(b) => Ok(a))
  BY <1>1, MetNeed DEF Np
<1> HIDE DEF b
<1>3. Met(t, e) /\ (Ok(e) => Ok(b))
  BY <1>2, CodeTargetMet
<1> HIDE DEF e
<1>4. k => d.conf \/ d.dpl = cpl(t.r)
  BY DEF k
<1> QED BY <1>0, <1>1, <1>2, <1>3, <1>4 DEF d

(* A return goes to code of the selector's level.                          *)
LEMMA ReturnMet ==
    ASSUME NEW t, IsCpu(t), NEW sel, NEW ip
    PROVE  /\ Met(t, ReturnTarget(t, sel, ip))
           /\ Ok(ReturnTarget(t, sel, ip)) =>
                /\ Known(sel) /\ Desc(sel).kind = "code" /\ Rpl(sel) >= cpl(t.r)
                /\ Desc(sel).conf \/ Desc(sel).dpl = Rpl(sel)
<1> DEFINE d == Desc(sel)
           k1 == Rpl(sel) >= cpl(t.r)
           k2 == d.kind = "code"
           k3 == IF d.conf THEN d.dpl <= Rpl(sel) ELSE d.dpl = Rpl(sel)
           s0 == Need(t, ~IsNull(sel), Gp(0))
           s1 == Need(s0, k1, Gp(Code(sel)))
           sr == read_descriptor(s1, sel)
           s2 == Need(sr, k2, Gp(Code(sel)))
           s3 == Need(s2, k3, Gp(Code(sel)))
           s4 == Need(s3, d.p, Np(Code(sel)))
           e == check_code_target(s4, d, sel, ip)
<1>0. ReturnTarget(t, sel, ip) = IF Ok(s3) THEN e ELSE s3
  BY Zenon DEF ReturnTarget
<1> HIDE DEF k1, k2, k3, d
<1>a. Met(t, s0)
  BY MetSelf, MetNeed DEF Gp
<1> HIDE DEF s0
<1>1. Met(t, s1) /\ (Ok(s1) => k1)
  BY <1>a, MetNeed DEF Gp
<1> HIDE DEF s1
<1>r. Met(t, sr) /\ (Ok(sr) => Known(sel) /\ Ok(s1))
  BY <1>1, ReadMet
<1> HIDE DEF sr
<1>2. Met(t, s2) /\ (Ok(s2) => k2 /\ Ok(sr))
  BY <1>r, MetNeed DEF Gp
<1> HIDE DEF s2
<1>3. Met(t, s3) /\ (Ok(s3) => k3 /\ Ok(s2))
  BY <1>2, MetNeed DEF Gp
<1> HIDE DEF s3
<1>4. Met(t, s4) /\ (Ok(s4) => Ok(s3))
  BY <1>3, MetNeed DEF Np
<1> HIDE DEF s4
<1>5. Met(t, e) /\ (Ok(e) => Ok(s4))
  BY <1>4, CodeTargetMet
<1> HIDE DEF e
<1>6. k3 => d.conf \/ d.dpl = Rpl(sel)
  BY DEF k3
<1> QED BY <1>0, <1>1, <1>r, <1>2, <1>3, <1>4, <1>5, <1>6 DEF k1, k2, d

(* An interrupt's gate is one its class may use, to code not outer.        *)
LEMMA IntGateMet ==
    ASSUME NEW t, IsCpu(t), NEW e, NEW class
    PROVE  /\ Met(t, IntGate(t, e, class))
           /\ Ok(IntGate(t, e, class)) =>
                LET g == c.idt[e.vector]
                    gd == Desc(g.gsel)
                IN  /\ e.vector \in DOMAIN c.idt /\ g.p /\ (class = "SoftInt" => g.dpl >= cpl(t.r))
                    /\ Known(g.gsel) /\ gd.kind = "code" /\ gd.dpl <= cpl(t.r)
                    /\ c.long => gd.l
<1> DEFINE k == Ext(class)
           idt == e.vector * 8 + 2 + k
           g == c.idt[e.vector]
           gd == Desc(g.gsel)
           k1 == e.vector \in DOMAIN c.idt
           k2 == g.kind \in {"int", "trap"} /\ (c.long => g.wide)
           k3 == class = "SoftInt" => g.dpl >= cpl(t.r)
           k6 == gd.kind = "code" /\ gd.dpl <= cpl(t.r)
           k8 == c.long => gd.l /\ ~gd.db
           k9 == IF c.long THEN canonical(gate_off(g)) ELSE gate_off(g) <= gd.limit
           s1 == Need(t, k1, Gp(idt))
           s2 == Need(s1, k2, Gp(idt))
           s3 == Need(s2, k3, Gp(idt))
           sp == Need(s3, g.p, Np(idt))
           s4 == Need(sp, ~IsNull(g.gsel), Gp(k))
           s5 == read_descriptor(s4, g.gsel)
           s6 == Need(s5, k6, Gp(Code(g.gsel) + k))
           s7 == Need(s6, gd.p, Np(Code(g.gsel) + k))
           s8 == Need(s7, k8, Gp(Code(g.gsel) + k))
           s9 == Need(s8, k9, Gp(k))
<1>0. IntGate(t, e, class) = s9
  BY Zenon DEF IntGate
<1> HIDE DEF k, idt, k1, k2, k3, k6, k8, k9, g, gd
<1>1. Met(t, s1) /\ (Ok(s1) => k1)
  BY MetSelf, MetNeed DEF Gp
<1> HIDE DEF s1
<1>2. Met(t, s2) /\ (Ok(s2) => Ok(s1))
  BY <1>1, MetNeed DEF Gp
<1> HIDE DEF s2
<1>3. Met(t, s3) /\ (Ok(s3) => k3 /\ Ok(s2))
  BY <1>2, MetNeed DEF Gp
<1> HIDE DEF s3
<1>p. Met(t, sp) /\ (Ok(sp) => g.p /\ Ok(s3))
  BY <1>3, MetNeed DEF Np
<1> HIDE DEF sp
<1>4. Met(t, s4) /\ (Ok(s4) => Ok(sp))
  BY <1>p, MetNeed DEF Gp
<1> HIDE DEF s4
<1>5. Met(t, s5) /\ (Ok(s5) => Known(g.gsel) /\ Ok(s4))
  BY <1>4, ReadMet
<1> HIDE DEF s5
<1>6. Met(t, s6) /\ (Ok(s6) => k6 /\ Ok(s5))
  BY <1>5, MetNeed DEF Gp
<1> HIDE DEF s6
<1>7. Met(t, s7) /\ (Ok(s7) => Ok(s6))
  BY <1>6, MetNeed DEF Np
<1> HIDE DEF s7
<1>8. Met(t, s8) /\ (Ok(s8) => k8 /\ Ok(s7))
  BY <1>7, MetNeed DEF Gp
<1> HIDE DEF s8
<1>9. Met(t, s9) /\ (Ok(s9) => Ok(s8))
  BY <1>8, MetNeed DEF Gp
<1> HIDE DEF s9
<1>10. Ok(s9) => k1 /\ k3 /\ g.p /\ Known(g.gsel) /\ k6 /\ k8
  BY <1>1, <1>2, <1>3, <1>p, <1>4, <1>5, <1>6, <1>7, <1>8, <1>9
<1> QED BY <1>0, <1>9, <1>10 DEF k1, k3, k6, k8, g, gd

-----------------------------------------------------------------------------
(* Transfers within a level.                                               *)

Kept(a, b) == RegsOk(b) /\ cpl(b) = cpl(a)

LEMMA QuietKept ==
    ASSUME NEW t, IsCpu(t), RegsOk(t.r), NEW u, Moves({}, t, u)
    PROVE  Kept(t.r, u.r)
<1>1. u.r.seg = t.r.seg /\ u.r.fl = t.r.fl /\ cpl(u.r) = cpl(t.r)
  BY QuietRegs
<1> QED BY <1>1 DEF Kept, RegsOk, SegsOk, StackSegOk

(* Code of the same level entered.                                         *)
LEMMA CodeKept ==
    ASSUME NEW a, RegsOk(a), NEW b, NEW sel, NEW d, IsSegment(d), d.dpl = cpl(a),
           b.seg["CS"] = Loaded(sel, d), \A j \in SegNames \ {"CS"} : b.seg[j] = a.seg[j],
           "VM" \in b.fl <=> "VM" \in a.fl
    PROVE  Kept(a, b)
<1> DEFINE x == Loaded(sel, d)
<1>1. x.d = d /\ {"sel", "d"} \subseteq DOMAIN x
  BY DEF Loaded
<1> HIDE DEF x
<1>2. b.seg["CS"] = x
  BY DEF x
<1>3. SegsOk(b)
  BY <1>1, <1>2 DEF SegsOk, RegsOk
<1>4. cpl(b) = cpl(a)
  BY <1>1, <1>2 DEF cpl, protected_mode
<1>5. StackSegOk(b)
  <2> SUFFICES ASSUME c.pe, "VM" \notin b.fl
               PROVE  IF b.seg["SS"].d.p THEN b.seg["SS"].d.dpl = b.seg["CS"].d.dpl
                      ELSE c.long /\ b.seg["CS"].d.dpl # 3
    BY DEF StackSegOk
  <2>1. a.seg["CS"].d.dpl = d.dpl /\ b.seg["CS"].d.dpl = d.dpl
    BY <1>1, <1>2 DEF cpl, protected_mode
  <2>2. b.seg["SS"] = a.seg["SS"]
    BY DEF SegNames
  <2> QED BY <2>1, <2>2 DEF RegsOk, StackSegOk
<1> QED BY <1>3, <1>4, <1>5 DEF Kept, RegsOk

(* A data segment loaded.                                                  *)
LEMMA DataKept ==
    ASSUME NEW a, RegsOk(a), NEW b, NEW i \in DataSegs, NEW sel, NEW d, IsSegment(d),
           b.seg[i] = Loaded(sel, d), \A j \in SegNames \ {i} : b.seg[j] = a.seg[j], b.fl = a.fl
    PROVE  Kept(a, b)
<1> DEFINE x == Loaded(sel, d)
<1>1. x.d = d /\ {"sel", "d"} \subseteq DOMAIN x
  BY DEF Loaded
<1> HIDE DEF x
<1>2. b.seg[i] = x
  BY DEF x
<1>3. SegsOk(b)
  BY <1>1, <1>2 DEF SegsOk, RegsOk
<1>4. b.seg["CS"] = a.seg["CS"] /\ b.seg["SS"] = a.seg["SS"]
  BY DEF SegNames, DataSegs
<1> QED BY <1>3, <1>4 DEF Kept, RegsOk, StackSegOk, cpl, protected_mode

(* The stack segment loaded, of the level of the code.                     *)
LEMMA StackKept ==
    ASSUME NEW a, RegsOk(a), NEW b, NEW sel, NEW d, IsSegment(d),
           c.pe /\ "VM" \notin a.fl => IF d.p THEN d.dpl = cpl(a) ELSE c.long /\ cpl(a) # 3,
           b.seg["SS"] = Loaded(sel, d), \A j \in SegNames \ {"SS"} : b.seg[j] = a.seg[j], b.fl = a.fl
    PROVE  Kept(a, b)
<1> DEFINE x == Loaded(sel, d)
<1>1. x.d = d /\ {"sel", "d"} \subseteq DOMAIN x
  BY DEF Loaded
<1> HIDE DEF x
<1>2. b.seg["SS"] = x
  BY DEF x
<1>3. SegsOk(b)
  BY <1>1, <1>2 DEF SegsOk, RegsOk
<1>4. b.seg["CS"] = a.seg["CS"]
  BY DEF SegNames
<1>5. StackSegOk(b)
  <2> SUFFICES ASSUME c.pe, "VM" \notin b.fl
               PROVE  IF d.p THEN d.dpl = b.seg["CS"].d.dpl ELSE c.long /\ b.seg["CS"].d.dpl # 3
    BY <1>1, <1>2 DEF StackSegOk
  <2>1. cpl(a) = b.seg["CS"].d.dpl
    BY <1>4 DEF cpl, protected_mode
  <2> QED BY <2>1
<1> QED BY <1>3, <1>4, <1>5 DEF Kept, RegsOk, cpl, protected_mode

LEMMA KeptTrans ==
    ASSUME NEW a, NEW b, NEW d, Kept(a, b), Kept(b, d)
    PROVE  Kept(a, d)
BY DEF Kept

LEMMA EnterKept ==
    ASSUME SoundMachine(c), NEW t, IsCpu(t), Ok(t), RegsOk(t.r), NEW sel, Known(sel),
           Desc(sel).kind = "code", Desc(sel).dpl = cpl(t.r), NEW x, NEW level, NEW off
    PROVE  /\ IsCpu(Enter(t, x, Desc(sel), level, off)) /\ Ok(Enter(t, x, Desc(sel), level, off))
           /\ Kept(t.r, Enter(t, x, Desc(sel), level, off).r)
<1> DEFINE d == Desc(sel)
           e == Used(d)
           u == Enter(t, x, d, level, off)
<1>1. IsSegment(d)
  BY KnownSound DEF IsCodeData
<1>2. IsSegment(e) /\ e.dpl = d.dpl
  BY <1>1, UsedDesc
<1>d. d.dpl = cpl(t.r)
  OBVIOUS
<1> HIDE DEF d
<1>3. /\ IsCpu(u) /\ Ok(u) /\ u.r.seg["CS"] = Loaded(Code(x) + level, e)
      /\ \A j \in SegNames \ {"CS"} : u.r.seg[j] = t.r.seg[j]
      /\ u.r.fl = t.r.fl
  BY EnterValue
<1> HIDE DEF u, e
<1>4. e.dpl = cpl(t.r)
  BY <1>2, <1>d
<1>5. Kept(t.r, u.r)
  BY <1>2, <1>3, <1>4, CodeKept
<1> QED BY <1>3, <1>5 DEF u, d

(* Real and virtual-8086 mode: the attributes of CS stay.                  *)
LEMMA FarRealKept ==
    ASSUME NEW t, IsCpu(t), RegsOk(t.r), NEW sel, NEW off, ~protected_mode(t.r), Ok(far_real(t, sel, off))
    PROVE  /\ IsCpu(far_real(t, sel, off)) /\ Ok(t) /\ far_real(t, sel, off).r.fl = t.r.fl
           /\ Kept(t.r, far_real(t, sel, off).r)
<1> DEFINE p == prepare_cold_write(t)
           k == off <= t.r.seg["CS"].d.limit
           a == Need(p, k, Gp(0))
           v == RealSelector(a.r.seg["CS"], sel)
           z == [a EXCEPT !.r.seg["CS"] = RealSelector(@, sel), !.r.rip = off]
<1>0. far_real(t, sel, off) = IF ~Ok(t) THEN t ELSE IF Ok(a) THEN z ELSE a
  BY Zenon DEF far_real
<1> HIDE DEF k
<1>1. IsCpu(p) /\ p.r = t.r /\ p.err = t.err
  BY ColdKeeps
<1> HIDE DEF p
<1>2. IsCpu(a) /\ a.r = t.r
  BY <1>1, NeedMoves, MovesCpu, NeedRegs
<1> HIDE DEF a
<1>3. /\ z.r.seg["CS"] = v /\ z.r.fl = a.r.fl
      /\ \A j \in SegNames \ {"CS"} : z.r.seg[j] = a.r.seg[j]
  BY <1>2 DEF IsCpu, IsRegs, CpuNames, RegNames, SegNames
<1>4. far_real(t, sel, off) = z /\ Ok(t)
  BY <1>0
<1>5. IsCpu(z)
  <2>1. Moves({"CS"}, t, far_real(t, sel, off))
    BY MovesRefl, MovesMore, FarRealStep
  <2> QED BY <1>4, <2>1, MovesCpu
<1> HIDE DEF z
<1>6. /\ {"sel", "d"} \subseteq DOMAIN v /\ IsSegment(v.d) /\ v.d.dpl = t.r.seg["CS"].d.dpl
  <2>1. /\ {"sel", "d"} \subseteq DOMAIN t.r.seg["CS"] /\ IsSegment(t.r.seg["CS"].d)
    BY DEF RegsOk, SegsOk, SegNames
  <2> DEFINE y == t.r.seg["CS"]
             y1 == [y EXCEPT !.sel = sel]
             d1 == [y.d EXCEPT !.base = sel * 8]
  <2>2. IsSegment(d1) /\ d1.dpl = y.d.dpl
    BY <2>1 DEF IsSegment, SegFields, Conforming
  <2>3. v.d = d1 /\ DOMAIN v = DOMAIN y
    <3>1. v = [y EXCEPT !.sel = sel, !.d.base = sel * 8]
      BY <1>2 DEF RealSelector
    <3> HIDE DEF v
    <3> QED BY <2>1, <3>1
  <2> HIDE DEF v, d1, y
  <2> QED BY <2>1, <2>2, <2>3 DEF y
<1> HIDE DEF v
<1>7. SegsOk(z.r)
  BY <1>2, <1>3, <1>6 DEF RegsOk, SegsOk
<1>8. Kept(t.r, z.r)
  BY <1>2, <1>3, <1>6, <1>7 DEF Kept, RegsOk, StackSegOk, cpl, protected_mode
<1> QED BY <1>2, <1>3, <1>4, <1>5, <1>8

-----------------------------------------------------------------------------
(* The instructions that stay at their level.                              *)

LEMMA CodeSound ==
    ASSUME SoundMachine(c), NEW sel, Known(sel), Desc(sel).kind = "code"
    PROVE  IsSegment(Desc(sel)) /\ ~Desc(sel).conf
<1>1. IsSegment(Desc(sel))
  BY KnownSound DEF IsCodeData
<1> QED BY <1>1 DEF IsSegment, Conforming

LEMMA JumpGateKept ==
    ASSUME SoundMachine(c), NEW t, IsCpu(t), RegsOk(t.r), NEW sel, NEW d, Ok(JumpGate(t, sel, d))
    PROVE  Kept(t.r, JumpGate(t, sel, d).r)
<1> DEFINE gd == Desc(d.gsel)
           k == gd.conf \/ gd.dpl = cpl(t.r)
           s0 == check_gate(t, sel, d)
           s1 == check_gate_target(s0, d.gsel)
           s2 == Need(s1, k, Gp(Code(d.gsel)))
           s3 == check_code_target(s2, gd, d.gsel, gate_off(d))
           z == Enter(s3, d.gsel, gd, cpl(t.r), gate_off(d))
<1>0. JumpGate(t, sel, d) = IF Ok(s3) THEN z ELSE s3
  BY Zenon DEF JumpGate
<1> HIDE DEF k
<1>a. Met(t, s0)
  BY GateMet
<1> HIDE DEF s0
<1>1. Met(t, s1) /\ (Ok(s1) => Known(d.gsel) /\ gd.kind = "code")
  BY <1>a, GateTargetMet
<1> HIDE DEF s1
<1>2. Met(t, s2) /\ (Ok(s2) => k /\ Ok(s1))
  BY <1>1, MetNeed DEF Gp
<1> HIDE DEF s2
<1>3. Met(t, s3) /\ (Ok(s3) => Ok(s2))
  BY <1>2, CodeTargetMet
<1> HIDE DEF s3
<1>4. Ok(s3)
  BY <1>0
<1>5. s3 = t /\ Ok(t) /\ Known(d.gsel) /\ gd.kind = "code" /\ k
  BY <1>1, <1>2, <1>3, <1>4 DEF Met
<1>6. gd.dpl = cpl(t.r)
  BY <1>5, CodeSound DEF k
<1>7. Kept(t.r, Enter(t, d.gsel, gd, cpl(t.r), gate_off(d)).r)
  BY <1>5, <1>6, EnterKept
<1> QED BY <1>0, <1>4, <1>5, <1>7

LEMMA JumpFarKept ==
    ASSUME SoundMachine(c), NEW t, IsCpu(t), RegsOk(t.r), NEW sel, NEW off, Ok(jump_far(t, sel, off))
    PROVE  Kept(t.r, jump_far(t, sel, off).r)
<1> DEFINE d == Desc(sel)
           n == Need(t, ~IsNull(sel), Gp(0))
           a == read_descriptor(n, sel)
           b == DirectTarget(a, sel, off)
           y1 == Enter(b, sel, d, cpl(t.r), off)
           y2 == JumpGate(a, sel, d)
           y3 == Need(a, FALSE, Gp(Code(sel)))
           y4 == far_real(t, sel, off)
           j == jump_far(t, sel, off)
<1>0. /\ ~protected_mode(t.r) => j = y4
      /\ protected_mode(t.r) /\ ~Ok(a) => j = a
      /\ protected_mode(t.r) /\ Ok(a) /\ d.kind = "code" => j = y1
      /\ protected_mode(t.r) /\ Ok(a) /\ CallGate(d) => j = y2
      /\ protected_mode(t.r) /\ Ok(a) /\ d.kind # "code" /\ ~CallGate(d) => j = y3
  BY DEF jump_far, CallGate
<1> HIDE DEF j
<1>j. Ok(j)
  BY DEF j
<1>1. ASSUME ~protected_mode(t.r) PROVE Kept(t.r, j.r)
  BY <1>0, <1>1, <1>j, FarRealKept
<1>2. ASSUME protected_mode(t.r) PROVE Kept(t.r, j.r)
  <2>a. Met(t, n)
    BY MetSelf, MetNeed DEF Gp
  <2> HIDE DEF n
  <2>1. Met(t, a) /\ (Ok(a) => Known(sel))
    BY <2>a, ReadMet
  <2> HIDE DEF a
  <2>2. Ok(a) /\ a = t /\ Ok(t) /\ Known(sel)
    BY <1>0, <1>2, <1>j, <2>1 DEF Met
  <2>3. ASSUME d.kind = "code" PROVE Kept(t.r, j.r)
    <3>1. j = y1
      BY <1>0, <1>2, <2>2, <2>3
    <3>2. Met(t, b) /\ (Ok(b) => d.conf \/ d.dpl = cpl(t.r))
      BY <2>2, DirectMet
    <3> HIDE DEF b
    <3>3. Ok(b)
      <4>1. Moves({"CS"}, b, y1)
        BY <3>2, MovesRefl, MovesMore, EnterStep DEF Met
      <4> QED BY <1>j, <3>1, <4>1 DEF Moves
    <3>4. b = t /\ d.dpl = cpl(t.r)
      BY <2>2, <2>3, <3>2, <3>3, CodeSound DEF Met
    <3>5. Kept(t.r, Enter(t, sel, d, cpl(t.r), off).r)
      BY <2>2, <2>3, <3>4, EnterKept
    <3> QED BY <3>1, <3>4, <3>5
  <2>4. ASSUME d.kind # "code", ~CallGate(d) PROVE FALSE
    <3>1. Met(t, y3) /\ (Ok(y3) => FALSE)
      BY <2>1, MetNeed DEF Gp
    <3> QED BY <1>0, <1>2, <1>j, <2>2, <2>4, <3>1
  <2>5. ASSUME CallGate(d) PROVE Kept(t.r, j.r)
    <3>1. j = y2
      BY <1>0, <1>2, <2>2, <2>5
    <3> QED BY <1>j, <2>2, <3>1, JumpGateKept
  <2> QED BY <2>3, <2>4, <2>5
<1> QED BY <1>1, <1>2 DEF j

LEMMA MovSpKept ==
    ASSUME NEW t, IsCpu(t), RegsOk(t.r), NEW v
    PROVE  Kept(t.r, [t EXCEPT !.r.rsp = v].r)
<1>1. Moves({}, t, [t EXCEPT !.r.rsp = v])
  BY WritePc
<1> QED BY <1>1, QuietKept

LEMMA IoKept ==
    ASSUME NEW t, IsCpu(t), RegsOk(t.r), NEW port, NEW size
    PROVE  Kept(t.r, io_check(t, port, size).r)
<1>1. Moves({}, t, io_check(t, port, size))
  BY NeedMoves DEF io_check
<1> QED BY <1>1, QuietKept

LEMMA Rebased ==
    ASSUME NEW d, IsSegment(d), NEW x
    PROVE  /\ IsSegment([d EXCEPT !.base = x]) /\ [d EXCEPT !.base = x].dpl = d.dpl
           /\ [d EXCEPT !.base = x].p = d.p
BY DEF IsSegment, SegFields, Conforming

LEMMA V86Sound ==
    ASSUME NEW sel
    PROVE  IsSegment(V86Seg(sel)) /\ V86Seg(sel).p /\ V86Seg(sel).dpl = 3
BY DEF V86Seg, Segment, IsSegment, SegFields, Conforming

LEMMA LoadSsKept ==
    ASSUME SoundMachine(c), NEW t, IsCpu(t), Ok(t), RegsOk(t.r), NEW sel, Ok(load_ss(t, sel))
    PROVE  Kept(t.r, load_ss(t, sel).r)
<1> DEFINE level == cpl(t.r)
           d == Desc(sel)
           k0 == Rpl(sel) = level
           k2 == WritableData(d) /\ d.dpl = level
           s0 == Need(t, k0, Gp(Code(sel)))
           s1 == read_descriptor(s0, sel)
           s2 == Need(s1, k2, Gp(Code(sel)))
           s3 == Need(s2, d.p, Ss(Code(sel)))
           y1 == SetSeg(t, "SS", sel, NullD)
           y2 == Need(t, FALSE, Gp(0))
           y3 == commit_seg(s3, "SS", sel, d)
           j == load_ss(t, sel)
<1>0. /\ IsNull(sel) => j = IF mode64(t.r) /\ level # 3 /\ k0 THEN y1 ELSE y2
      /\ ~IsNull(sel) => j = IF Ok(s3) THEN y3 ELSE s3
  BY DEF load_ss
<1> HIDE DEF j
<1>j. Ok(j)
  BY DEF j
<1>l. c.pe /\ "VM" \notin t.r.fl => level = t.r.seg["CS"].d.dpl
  BY DEF cpl, protected_mode
<1> HIDE DEF k0, k2
<1>1. ASSUME IsNull(sel) PROVE Kept(t.r, j.r)
  <2>1. ~Ok(y2)
    <3>1. Ok(y2) => FALSE
      BY MetSelf, MetNeed DEF Gp
    <3> QED BY <3>1
  <2>2. mode64(t.r) /\ level # 3 /\ j = y1
    BY <1>0, <1>1, <1>j, <2>1
  <2>3. OneSeg(t, y1, "SS", Loaded(sel, NullD))
    BY SetSegValue DEF SegNames
  <2>4. IsSegment(NullD) /\ ~NullD.p
    BY NullDesc
  <2>5. c.long
    BY <2>2 DEF mode64
  <2> HIDE DEF y1, level
  <2> QED BY <2>2, <2>3, <2>4, <2>5, StackKept DEF OneSeg, level
<1>2. ASSUME ~IsNull(sel) PROVE Kept(t.r, j.r)
  <2>0. Met(t, s0)
    BY MetSelf, MetNeed DEF Gp
  <2> HIDE DEF s0
  <2>1. Met(t, s1) /\ (Ok(s1) => Known(sel))
    BY <2>0, ReadMet
  <2> HIDE DEF s1
  <2>2. Met(t, s2) /\ (Ok(s2) => k2 /\ Ok(s1))
    BY <2>1, MetNeed DEF Gp
  <2> HIDE DEF s2
  <2>3. Met(t, s3) /\ (Ok(s3) => Ok(s2))
    BY <2>2, MetNeed DEF Ss
  <2> HIDE DEF s3
  <2>4. Ok(s3) /\ j = y3 /\ s3 = t /\ Known(sel) /\ k2
    BY <1>0, <1>2, <1>j, <2>1, <2>2, <2>3 DEF Met
  <2>5. IsSegment(d) /\ d.dpl = level
    BY <2>4, KnownSound DEF k2, WritableData, IsCodeData
  <2> DEFINE e == Used(d)
  <2>6. IsSegment(e) /\ e.p /\ e.dpl = level
    BY <2>5, UsedDesc
  <2>7. OneSeg(t, y3, "SS", Loaded(sel, e))
    BY <2>4, CommitValue DEF SegNames
  <2> HIDE DEF y3, e, level, d
  <2> QED BY <2>4, <2>6, <2>7, StackKept DEF OneSeg, level
<1> QED BY <1>1, <1>2 DEF j

LEMMA LoadSegKept ==
    ASSUME SoundMachine(c), NEW t, IsCpu(t), Ok(t), RegsOk(t.r), NEW i \in SegNames \ {"CS"}, NEW sel,
           Ok(load_seg(t, i, sel))
    PROVE  Kept(t.r, load_seg(t, i, sel).r)
<1> DEFINE d == Desc(sel)
           k1 == IsCodeData(d) /\ ~(d.kind = "code" /\ ~d.rw)
           k2 == Conforming(d) \/ (d.dpl >= cpl(t.r) /\ d.dpl >= Rpl(sel))
           s0 == read_descriptor(t, sel)
           s1 == Need(s0, k1, Gp(Code(sel)))
           s2 == Need(s1, k2, Gp(Code(sel)))
           s3 == Need(s2, d.p, Np(Code(sel)))
           b == IF i \in {"FS", "GS"} THEN t.r.seg[i].d.base ELSE 0
           nd == [NullD EXCEPT !.base = b]
           rd == [t.r.seg[i].d EXCEPT !.base = sel * 8]
           vd == V86Seg(sel)
           y1 == load_ss(t, sel)
           y2 == SetSeg(t, i, sel, nd)
           y3 == commit_seg(s3, i, sel, d)
           y4 == SetSeg(t, i, sel, rd)
           y5 == SetSeg(t, i, sel, vd)
           j == load_seg(t, i, sel)
<1>0. j = IF ~c.pe THEN y4
          ELSE IF "VM" \in t.r.fl THEN y5
          ELSE IF i = "SS" THEN y1
          ELSE IF IsNull(sel) THEN y2
          ELSE IF Ok(s3) THEN y3 ELSE s3
  BY Zenon DEF load_seg, load_seg_protected
<1> HIDE DEF j, k1, k2
<1>j. Ok(j)
  BY DEF j
<1>a. \A e, y : IsSegment(e) /\ OneSeg(t, y, i, Loaded(sel, e)) /\ (i # "SS" \/ "VM" \in t.r.fl \/ ~c.pe)
                => Kept(t.r, y.r)
  <2> TAKE e, y
  <2> HAVE IsSegment(e) /\ OneSeg(t, y, i, Loaded(sel, e)) /\ (i # "SS" \/ "VM" \in t.r.fl \/ ~c.pe)
  <2>1. CASE i = "SS"
    BY <2>1, StackKept DEF OneSeg
  <2>2. CASE i # "SS"
    <3>1. i \in DataSegs
      BY <2>2 DEF SegNames
    <3> QED BY <3>1, DataKept DEF OneSeg
  <2> QED BY <2>1, <2>2
<1>1. ASSUME ~c.pe PROVE Kept(t.r, j.r)
  <2>1. IsSegment(rd)
    BY Rebased DEF RegsOk, SegsOk
  <2> HIDE DEF rd
  <2>2. OneSeg(t, y4, i, Loaded(sel, rd))
    BY SetSegValue
  <2> QED BY <1>0, <1>1, <1>a, <2>1, <2>2
<1>2. ASSUME c.pe, "VM" \in t.r.fl PROVE Kept(t.r, j.r)
  <2>1. IsSegment(vd)
    BY V86Sound
  <2> HIDE DEF vd
  <2>2. OneSeg(t, y5, i, Loaded(sel, vd))
    BY SetSegValue
  <2> QED BY <1>0, <1>2, <1>a, <2>1, <2>2
<1>3. ASSUME c.pe, "VM" \notin t.r.fl, i = "SS" PROVE Kept(t.r, j.r)
  BY <1>0, <1>3, <1>j, LoadSsKept
<1>4. ASSUME c.pe, "VM" \notin t.r.fl, i # "SS", IsNull(sel) PROVE Kept(t.r, j.r)
  <2> HIDE DEF b
  <2>1. IsSegment(nd)
    BY NullDesc, Rebased
  <2> HIDE DEF nd
  <2>2. OneSeg(t, y2, i, Loaded(sel, nd))
    BY SetSegValue
  <2> QED BY <1>0, <1>4, <1>a, <2>1, <2>2
<1>5. ASSUME c.pe, "VM" \notin t.r.fl, i # "SS", ~IsNull(sel) PROVE Kept(t.r, j.r)
  <2>0. Met(t, s0) /\ (Ok(s0) => Known(sel))
    BY MetSelf, ReadMet
  <2> HIDE DEF s0
  <2>1. Met(t, s1) /\ (Ok(s1) => k1 /\ Ok(s0))
    BY <2>0, MetNeed DEF Gp
  <2> HIDE DEF s1
  <2>2. Met(t, s2) /\ (Ok(s2) => Ok(s1))
    BY <2>1, MetNeed DEF Gp
  <2> HIDE DEF s2
  <2>3. Met(t, s3) /\ (Ok(s3) => Ok(s2))
    BY <2>2, MetNeed DEF Np
  <2> HIDE DEF s3
  <2>4. Ok(s3) /\ j = y3 /\ s3 = t /\ Known(sel) /\ k1
    BY <1>0, <1>5, <1>j, <2>0, <2>1, <2>2, <2>3 DEF Met
  <2>5. IsSegment(d)
    BY <2>4, KnownSound DEF k1
  <2> DEFINE e == Used(d)
  <2>6. IsSegment(e)
    BY <2>5, UsedDesc
  <2>7. OneSeg(t, y3, i, Loaded(sel, e))
    BY <2>4, CommitValue
  <2> HIDE DEF y3, e, d
  <2> QED BY <1>5, <1>a, <2>4, <2>6, <2>7
<1> QED BY <1>1, <1>2, <1>3, <1>4, <1>5 DEF j

LEMMA SwapgsKept ==
    ASSUME NEW t, IsCpu(t), RegsOk(t.r), Ok(swapgs(t))
    PROVE  Kept(t.r, swapgs(t).r)
<1> DEFINE k == cpl(t.r) = 0
           s1 == Need(t, t.m64, Ud)
           a == Need(s1, k, Gp(0))
           p == prepare_cold_write(a)
           x == t.r.seg["GS"].d.base
           z == [p EXCEPT !.r.seg["GS"].d.base = t.r.kgs, !.r.kgs = x]
<1>0. swapgs(t) = IF ~Ok(a) THEN a ELSE z
  BY Zenon DEF swapgs
<1> HIDE DEF k, x
<1>1. Met(t, s1)
  BY MetSelf, MetNeed DEF Ud
<1> HIDE DEF s1
<1>2. Met(t, a)
  BY <1>1, MetNeed DEF Gp
<1> HIDE DEF a
<1>3. swapgs(t) = z /\ a = t
  BY <1>0, <1>2 DEF Met
<1>4. IsCpu(p) /\ p.r = t.r
  BY <1>3, ColdKeeps
<1> HIDE DEF p
<1> DEFINE v == t.r.seg["GS"]
           d == [v.d EXCEPT !.base = t.r.kgs]
           w == [v EXCEPT !.d = d]
<1>5. z.r.fl = t.r.fl /\ z.r.seg["GS"] = [v EXCEPT !.d.base = t.r.kgs]
      /\ \A j \in SegNames \ {"GS"} : z.r.seg[j] = t.r.seg[j]
  BY <1>4 DEF IsCpu, IsRegs, CpuNames, RegNames, SegNames, DataSegs
<1> HIDE DEF z
<1>6. /\ z.r.seg["GS"] = w /\ \A j \in SegNames \ {"GS"} : z.r.seg[j] = t.r.seg[j]
  <2>1. [v EXCEPT !.d.base = t.r.kgs] = w
    OBVIOUS
  <2> QED BY <1>5, <2>1
<1>7. {"sel", "d"} \subseteq DOMAIN v /\ IsSegment(v.d)
  BY DEF RegsOk, SegsOk, SegNames, DataSegs
<1> HIDE DEF v
<1>8. IsSegment(d)
  BY <1>7, Rebased
<1> HIDE DEF d
<1>9. {"sel", "d"} \subseteq DOMAIN w /\ w.d = d
  BY <1>7
<1> HIDE DEF w
<1>10. SegsOk(z.r)
  BY <1>6, <1>8, <1>9 DEF RegsOk, SegsOk
<1>11. z.r.seg["CS"] = t.r.seg["CS"] /\ z.r.seg["SS"] = t.r.seg["SS"]
  BY <1>6 DEF SegNames
<1> QED BY <1>3, <1>5, <1>10, <1>11 DEF Kept, RegsOk, StackSegOk, cpl, protected_mode

-----------------------------------------------------------------------------
(* Inward through a gate.                                                  *)

Inward(gates, level, b) == RegsOk(b) /\ EntersByGate(gates, level, b)

LEMMA InwardLegacy ==
    ASSUME SoundMachine(c), c.pe, ~c.long, NEW gates, NEW g \in gates, g.p, NEW level, g.dpl >= level,
           Known(g.gsel), Desc(g.gsel).kind = "code", Desc(g.gsel).dpl \in 0 .. 2,
           NEW b, b.seg["CS"] = Loaded(Code(g.gsel) + Desc(g.gsel).dpl, Used(Desc(g.gsel))),
           b.rip = gate_off(g), "VM" \notin b.fl,
           \A i \in DataSegs \cup {"SS"} : {"sel", "d"} \subseteq DOMAIN b.seg[i] /\ IsSegment(b.seg[i].d),
           b.seg["SS"].d.p, b.seg["SS"].d.dpl = Desc(g.gsel).dpl, b.seg["SS"].d.db,
           NEW n \in 0 .. MaxFrame, b.rsp = (InnerSp(Desc(g.gsel).dpl) - n) % W32
    PROVE  Inward(gates, level, b) /\ cpl(b) = Desc(g.gsel).dpl
<1> DEFINE d == Desc(g.gsel)
           k == d.dpl
           e == Used(d)
           x == Loaded(Code(g.gsel) + k, e)
           top == InnerSp(k)
<1>1. IsSegment(e) /\ e.dpl = k
  BY CodeSound, UsedDesc
<1>2. x.d = e /\ x.sel = Code(g.gsel) + k /\ {"sel", "d"} \subseteq DOMAIN x
  BY DEF Loaded
<1>3. W32 \in Nat \ {0}
  BY Widths
<1>4. top \in Int
  <2>1. W16 \in Nat \ {0} /\ c.tss.sp[k] \in Int
    BY Widths DEF SoundMachine
  <2>2. c.tss.sp[k] % W16 \in Int
    BY <2>1
  <2> QED BY <2>1, <2>2 DEF InnerSp
<1>x. b.seg["CS"] = x
  OBVIOUS
<1>k. k \in 0 .. 2 /\ b.rsp = (top - n) % W32
  OBVIOUS
<1> HIDE DEF x, e
<1>5. cpl(b) = k
  BY <1>x, <1>1, <1>2 DEF cpl, protected_mode
<1>6. SegsOk(b)
  BY <1>x, <1>1, <1>2 DEF SegsOk, SegNames
<1>7. StackSegOk(b)
  BY <1>x, <1>1, <1>2 DEF StackSegOk
<1>8. StackWrap(b) = W32
  BY DEF StackWrap, mode64
<1> HIDE DEF top
<1>9. b.rsp % W32 = (top - n) % W32
  <2>1. n \in Int /\ top - n \in Int
    BY <1>4
  <2> QED BY <1>3, <1>k, <2>1, ModAdd
<1>10. OnTssStack(b)
  BY <1>5, <1>8, <1>9 DEF OnTssStack, top
<1>11. Sel(b, "CS") = Code(g.gsel) + k
  BY <1>x, <1>2 DEF Sel
<1>12. EntersByGate(gates, level, b)
  BY <1>10, <1>11 DEF EntersByGate
<1> QED BY <1>5, <1>6, <1>7, <1>12 DEF Inward, RegsOk

LEMMA InwardLong ==
    ASSUME SoundMachine(c), c.long, NEW gates, NEW g \in gates, g.p, NEW level, g.dpl >= level,
           Known(g.gsel), Desc(g.gsel).kind = "code", Desc(g.gsel).dpl \in 0 .. 2, Desc(g.gsel).l,
           NEW b, b.seg["CS"] = Loaded(Code(g.gsel) + Desc(g.gsel).dpl, Used(Desc(g.gsel))),
           b.rip = gate_off(g), "VM" \notin b.fl,
           \A i \in DataSegs : {"sel", "d"} \subseteq DOMAIN b.seg[i] /\ IsSegment(b.seg[i].d),
           NEW y, b.seg["SS"] = Loaded(y, NullD),
           NEW top \in {InnerSp(Desc(g.gsel).dpl)} \cup Range(c.tss.ist), top \in Int,
           NEW n \in 0 .. MaxFrame, b.rsp = (top - n) % W64
    PROVE  Inward(gates, level, b) /\ cpl(b) = Desc(g.gsel).dpl
<1> DEFINE d == Desc(g.gsel)
           k == d.dpl
           e == Used(d)
           x == Loaded(Code(g.gsel) + k, e)
           z == Loaded(y, NullD)
<1>0. c.pe
  BY DEF SoundMachine
<1>1. IsSegment(e) /\ e.dpl = k /\ e.l = d.l
  BY CodeSound, UsedDesc
<1>2. x.d = e /\ x.sel = Code(g.gsel) + k /\ {"sel", "d"} \subseteq DOMAIN x
  BY DEF Loaded
<1>s. z.d = NullD /\ {"sel", "d"} \subseteq DOMAIN z
  BY DEF Loaded
<1>3. W64 \in Nat \ {0}
  BY Widths
<1>x. b.seg["CS"] = x /\ b.seg["SS"] = z
  OBVIOUS
<1>k. k \in 0 .. 2 /\ b.rsp = (top - n) % W64
  OBVIOUS
<1> HIDE DEF x, e, z
<1>n. IsSegment(NullD) /\ ~NullD.p
  BY NullDesc
<1>5. cpl(b) = k
  BY <1>0, <1>x, <1>1, <1>2 DEF cpl, protected_mode
<1>6. SegsOk(b)
  BY <1>x, <1>1, <1>2, <1>s, <1>n DEF SegsOk, SegNames
<1>7. StackSegOk(b)
  BY <1>k, <1>x, <1>1, <1>2, <1>s, <1>n DEF StackSegOk
<1>8. StackWrap(b) = W64
  BY <1>x, <1>1, <1>2 DEF StackWrap, mode64
<1>9. b.rsp % W64 = (top - n) % W64
  <2>1. n \in Int /\ top - n \in Int
    OBVIOUS
  <2> QED BY <1>3, <1>k, <2>1, ModAdd
<1>10. OnTssStack(b)
  BY <1>5, <1>8, <1>9 DEF OnTssStack
<1>11. Sel(b, "CS") = Code(g.gsel) + k
  BY <1>x, <1>2 DEF Sel
<1>12. EntersByGate(gates, level, b)
  BY <1>10, <1>11 DEF EntersByGate
<1> QED BY <1>5, <1>6, <1>7, <1>12 DEF Inward, RegsOk

LEMMA Push64Value ==
    ASSUME NEW t, IsCpu(t), NEW rsp, NEW vs, Len(vs) \in Nat, Ok(push64_at(t, rsp, vs))
    PROVE  push64_at(t, rsp, vs).r.rsp = FlatSlot(rsp, Len(vs))
<1> DEFINE f == CHOOSE f : f = [i \in 0 .. Len(vs) |->
                                  IF i = 0 THEN t ELSE FlatWrite(f[i - 1], FlatSlot(rsp, i), vs[i])]
           x == f[Len(vs)]
           v == FlatSlot(rsp, Len(vs))
           u == push64_at(t, rsp, vs)
<1>1. u = IF Ok(x) THEN [x EXCEPT !.r.rsp = v] ELSE x
  BY DEF push64_at
<1>2. IsCpu(u)
  BY MovesRefl, Push64Step, MovesCpu
<1> HIDE DEF x, v, u
<1>3. u = [x EXCEPT !.r.rsp = v]
  BY <1>1 DEF u
<1>4. u.r.rsp = v
  <2>1. "r" \in DOMAIN x
    BY <1>2, <1>3 DEF IsCpu, CpuNames
  <2>2. u.r = [x.r EXCEPT !.rsp = v]
    BY <1>3, <2>1
  <2>3. "rsp" \in DOMAIN x.r
    BY <1>2, <2>2 DEF IsCpu, IsRegs, RegNames
  <2> QED BY <2>2, <2>3
<1> QED BY <1>4 DEF u, v

(* The longest frame of a call gate.                                       *)
LEMMA SameRange ==
    ASSUME NEW m \in Nat, NEW n \in Nat, 1 .. m = 1 .. n
    PROVE  m = n
<1>1. m >= 1 => m \in 1 .. n
  OBVIOUS
<1>2. n >= 1 => n \in 1 .. m
  OBVIOUS
<1> QED BY <1>1, <1>2

LEMMA ReverseLen ==
    ASSUME NEW n \in Nat, NEW q, DOMAIN q = 1 .. n, q = [i \in 1 .. n |-> q[i]]
    PROVE  \E V : Reverse(q) \in Seq(V) /\ Len(Reverse(q)) = n
<1> DEFINE V == {q[i] : i \in 1 .. n}
           z == Reverse(q)
<1>1. q \in Seq(V) /\ Len(q) = n
  OBVIOUS
<1>2. z = [i \in 1 .. n |-> q[(n - i) + 1]]
  BY <1>1 DEF Reverse
<1>3. \A i \in 1 .. n : q[(n - i) + 1] \in V
  OBVIOUS
<1>4. z \in [1 .. n -> V]
  BY <1>2, <1>3
<1> HIDE DEF V, z
<1>5. z \in Seq(V)
  BY <1>4, SeqDef
<1>6. DOMAIN z = 1 .. n /\ DOMAIN z = 1 .. Len(z) /\ Len(z) \in Nat
  BY <1>4, <1>5, LenProperties
<1>7. Len(z) = n
  BY <1>6, SameRange
<1> QED BY <1>5, <1>7 DEF z

LEMMA FrameLen ==
    ASSUME NEW W, NEW p, NEW r, NEW q, p \in Seq(W), r \in Seq(W), q \in Seq(W)
    PROVE  Len((p \o r) \o q) = Len(p) + Len(r) + Len(q)
<1> DEFINE y == p \o r
<1>1. y \in Seq(W) /\ Len(y) = Len(p) + Len(r)
  BY ConcatProperties
<1> HIDE DEF y
<1>2. Len(y \o q) = Len(y) + Len(q)
  BY <1>1, ConcatProperties
<1> QED BY <1>1, <1>2 DEF y

LEMMA PairsAround ==
    ASSUME NEW V, NEW r \in Seq(V), NEW a, NEW b, NEW x, NEW y
    PROVE  Len(<<a, b>> \o r \o <<x, y>>) = 4 + Len(r)
<1> DEFINE W == V \cup {a, b, x, y}
<1>0. /\ <<a, b>> \in Seq(W) /\ Len(<<a, b>>) = 2
      /\ <<x, y>> \in Seq(W) /\ Len(<<x, y>>) = 2
  OBVIOUS
<1>2. V \subseteq W
  OBVIOUS
<1> HIDE DEF W
<1>3. r \in Seq(W) /\ Len(r) \in Nat
  BY <1>2
<1>p. PICK p : p = <<a, b>> /\ p \in Seq(W) /\ Len(p) = 2
  BY <1>0, Zenon
<1>q. PICK q : q = <<x, y>> /\ q \in Seq(W) /\ Len(q) = 2
  BY <1>0, Zenon
<1>4. Len((p \o r) \o q) = Len(p) + Len(r) + Len(q)
  BY <1>p, <1>q, <1>3, FrameLen
<1> QED BY <1>p, <1>q, <1>3, <1>4

LEMMA FrameSize ==
    ASSUME NEW w, w \in {1, 2}, NEW n \in 0 .. 31, NEW len, len = 4 + n
    PROVE  len \in Nat /\ w * len \in 0 .. 70
<1>1. CASE w = 1
  BY <1>1
<1>2. CASE w = 2
  BY <1>2
<1> QED BY <1>1, <1>2

LEMMA SmallNat == ASSUME NEW n \in 0 .. 31 PROVE n \in Nat
OBVIOUS

LEMMA GateFrame ==
    ASSUME NEW d, d.params \in 0 .. 31, ~c.long, NEW a, NEW b, NEW x, NEW y, NEW args,
           DOMAIN args = 1 .. d.params, args = [i \in 1 .. d.params |-> args[i]]
    PROVE  LET vs == <<a, b>> \o Reverse(args) \o <<x, y>>
           IN  /\ Len(vs) \in Nat /\ GateWidth(d) \in Int
               /\ GateWidth(d) * Len(vs) \in 0 .. MaxFrame
<1> DEFINE n == d.params
           r == Reverse(args)
           vs == <<a, b>> \o r \o <<x, y>>
           w == GateWidth(d)
           len == Len(vs)
<1>n. n \in Nat
  BY SmallNat
<1>1. DOMAIN args = 1 .. n /\ args = [i \in 1 .. n |-> args[i]]
  OBVIOUS
<1>2. PICK V : r \in Seq(V) /\ Len(r) = n
  BY <1>n, <1>1, ReverseLen
<1> HIDE DEF r
<1>5. len = 4 + Len(r)
  BY <1>2, PairsAround
<1>6. w \in {1, 2}
  BY DEF GateWidth
<1> HIDE DEF len, w
<1>m. n \in 0 .. 31
  OBVIOUS
<1> HIDE DEF n
<1>7. len = 4 + n
  BY <1>2, <1>5
<1>8. len \in Nat /\ w * len \in 0 .. 70
  BY <1>m, <1>6, <1>7, FrameSize
<1> QED BY <1>6, <1>8 DEF MaxFrame, r, len, w
(* A gate leads to code of the level, or of an inner one.                  *)
LEMMA GateLevel ==
    ASSUME SoundMachine(c), NEW t, RegsOk(t.r), NEW sel, Known(sel), Desc(sel).kind = "code",
           Desc(sel).dpl <= cpl(t.r)
    PROVE  /\ ~Inner(Desc(sel), cpl(t.r)) => Desc(sel).dpl = cpl(t.r)
           /\ Inner(Desc(sel), cpl(t.r)) => Desc(sel).dpl \in 0 .. 2
<1>1. IsSegment(Desc(sel)) /\ ~Desc(sel).conf
  BY CodeSound
<1>2. Desc(sel).dpl \in 0 .. 3 /\ cpl(t.r) \in 0 .. 3
  BY <1>1, CplRange DEF IsSegment, RegsOk
<1> QED BY <1>1, <1>2 DEF Inner

LEMMA CallLegacyGuarded ==
    ASSUME SoundMachine(c), NEW t, IsCpu(t), RegsOk(t.r), t.m64 => c.long, ~c.long, c.pe, "VM" \notin t.r.fl,
           NEW sel, NEW d \in CallGates, d.params \in 0 .. 31, Ok(call_gate_legacy(t, sel, d))
    PROVE  \/ Kept(t.r, call_gate_legacy(t, sel, d).r)
           \/ /\ Inward(CallGates, cpl(t.r), call_gate_legacy(t, sel, d).r)
              /\ cpl(call_gate_legacy(t, sel, d).r) < cpl(t.r)
<1> DEFINE gd == Desc(d.gsel)
           k == gd.dpl
           args == [i \in 1 .. d.params |-> Fetch(t, StackAt(t, Params(t, d)[i]), GateWidth(d))]
           a0 == check_gate(t, sel, d)
           a == check_gate_target(a0, d.gsel)
           b == tss_stack(a, k)
           r == ReadParams(b, d)
           w == switch_stack(r, c.tss.ss[k], InnerSp(k), k)
           vs == <<Sel(t.r, "SS"), stack_ptr(t)>> \o Reverse(args) \o <<Sel(w.r, "CS"), w.r.rip>>
           f == PushAll(w, GateWidth(d), vs)
           z == Enter(f, d.gsel, gd, k, gate_off(d))
           hs == <<Sel(t.r, "CS"), t.r.rip>>
           h == PushAll(a, GateWidth(d), hs)
           y == Enter(h, d.gsel, gd, cpl(t.r), gate_off(d))
           j == call_gate_legacy(t, sel, d)
<1>0. j = IF ~Ok(a) THEN a ELSE IF Inner(gd, cpl(t.r)) THEN z ELSE y
  BY Zenon DEF call_gate_legacy, push_gate_frame
<1>v. Len(vs) \in Nat /\ GateWidth(d) \in Int /\ GateWidth(d) * Len(vs) \in 0 .. MaxFrame
  <2> HIDE DEF w
  <2>1. DOMAIN args = 1 .. d.params /\ args = [i \in 1 .. d.params |-> args[i]]
    OBVIOUS
  <2> HIDE DEF args
  <2> QED BY <2>1, GateFrame
<1>h. Len(hs) \in Nat
  BY TupleSeq, SeqLen
<1> HIDE DEF j, vs, hs
<1>j. Ok(j)
  BY DEF j
<1>a. Met(t, a0) /\ (Ok(a0) => d.p /\ d.dpl >= cpl(t.r))
  BY GateMet
<1> HIDE DEF a0
<1>1. /\ Met(t, a)
      /\ Ok(a) => Ok(a0) /\ Known(d.gsel) /\ gd.kind = "code" /\ gd.dpl <= cpl(t.r)
  BY <1>a, GateTargetMet
<1> HIDE DEF a
<1>2. /\ a = t /\ Ok(t) /\ d.p /\ d.dpl >= cpl(t.r) /\ Known(d.gsel) /\ gd.kind = "code"
      /\ gd.dpl <= cpl(t.r) /\ j = IF Inner(gd, cpl(t.r)) THEN z ELSE y
  BY <1>0, <1>a, <1>1, <1>j DEF Met
<1>3. /\ ~Inner(gd, cpl(t.r)) => k = cpl(t.r)
      /\ Inner(gd, cpl(t.r)) => k \in 0 .. 2
  BY <1>2, GateLevel
<1>4. ASSUME ~Inner(gd, cpl(t.r)) PROVE Kept(t.r, j.r)
  <2>1. Moves({}, t, h)
    BY <1>2, <1>h, MovesRefl, PushAllStep
  <2> HIDE DEF h
  <2>2. IsCpu(h) /\ Kept(t.r, h.r)
    BY <2>1, QuietKept, MovesCpu
  <2>3. Ok(h)
    <3>1. Moves({"CS"}, h, y)
      BY <2>2, MovesRefl, MovesMore, EnterStep
    <3> QED BY <1>2, <1>4, <1>j, <3>1 DEF Moves
  <2>4. gd.dpl = cpl(h.r) /\ RegsOk(h.r)
    BY <1>3, <1>4, <2>2 DEF Kept
  <2>5. Kept(h.r, y.r)
    BY <1>2, <2>2, <2>3, <2>4, EnterKept
  <2> QED BY <1>2, <1>4, <2>2, <2>5, KeptTrans
<1>5. ASSUME Inner(gd, cpl(t.r)) PROVE Inward(CallGates, cpl(t.r), j.r) /\ cpl(j.r) < cpl(t.r)
  <2>1. Moves({}, t, b)
    BY <1>2, MovesRefl, TableStep
  <2> HIDE DEF b
  <2>2. Moves({}, t, r)
    BY <2>1, ReadParamsStep
  <2> HIDE DEF r
  <2>3. IsCpu(r) /\ ~r.m64 /\ r.r.seg = t.r.seg /\ r.r.fl = t.r.fl
    BY <2>2, QuietRegs DEF Moves
  <2>4. IsCpu(w) /\ Moves({}, w, f)
    <3>1. Moves({"SS"}, r, w)
      BY <2>3, MovesRefl, MovesMore, SwitchStep
    <3> HIDE DEF w
    <3>2. IsCpu(w)
      BY Zenon, <3>1, MovesCpu
    <3> QED BY <1>v, <3>2, MovesRefl, PushAllStep
  <2>5. Ok(f) /\ IsCpu(f) /\ Ok(w)
    <3> HIDE DEF f
    <3>1. Moves({"CS"}, f, z)
      BY <2>4, MovesCpu, MovesRefl, MovesMore, EnterStep
    <3>2. Ok(f)
      BY <1>2, <1>5, <1>j, <3>1 DEF Moves
    <3> QED BY Zenon, <2>4, <3>2 DEF Moves
  <2>k. k \in 0 .. 2
    BY <1>3, <1>5
  <2>6. Switched(r, w, InnerSp(k), k)
    <3> HIDE DEF k
    <3> QED BY <2>k, <2>3, <2>5, SwitchValue
  <2> HIDE DEF w
  <2>7. InnerSp(k) \in Int
    <3>1. W16 \in Nat \ {0} /\ c.tss.sp[k] \in Int
      BY <1>3, <1>5, Widths DEF SoundMachine
    <3>2. c.tss.sp[k] % W16 \in Int
      BY <3>1
    <3> QED BY <3>1, <3>2 DEF InnerSp
  <2> DEFINE n == GateWidth(d) * Len(vs)
             sp == InnerSp(k)
  <2>8. f.r.rsp = (sp - n) % W32
    <3> HIDE DEF sp
    <3>1. sp \in Int
      BY <2>7 DEF sp
    <3>2. w.r.rsp = sp % W32 /\ Stack32(w)
      BY <2>6 DEF sp, Switched
    <3> QED BY <1>v, <2>4, <2>5, <3>1, <3>2, PushAllValue
  <2>9. f.r.seg = w.r.seg /\ f.r.fl = w.r.fl
    BY <2>4, QuietRegs
  <2> HIDE DEF f, sp, n
  <2>10. /\ z.r.seg["CS"] = Loaded(Code(d.gsel) + k, Used(gd)) /\ z.r.rip = gate_off(d)
         /\ \A i \in SegNames \ {"CS"} : z.r.seg[i] = f.r.seg[i]
         /\ z.r.fl = f.r.fl /\ z.r.rsp = f.r.rsp
    BY <2>5, EnterValue
  <2> HIDE DEF z
  <2>11. /\ \A i \in DataSegs : z.r.seg[i] = t.r.seg[i]
         /\ z.r.seg["SS"] = w.r.seg["SS"]
    BY <2>3, <2>6, <2>9, <2>10 DEF SegNames, DataSegs, Switched
  <2>12. \A i \in DataSegs \cup {"SS"} : {"sel", "d"} \subseteq DOMAIN z.r.seg[i] /\ IsSegment(z.r.seg[i].d)
    BY <2>6, <2>11 DEF RegsOk, SegsOk, SegNames, Switched
  <2>13. /\ z.r.seg["SS"].d.p /\ z.r.seg["SS"].d.dpl = k /\ z.r.seg["SS"].d.db /\ "VM" \notin z.r.fl
    BY <2>3, <2>6, <2>9, <2>10, <2>11 DEF Stack32, Switched
  <2>14. n \in 0 .. MaxFrame /\ z.r.rsp = (InnerSp(k) - n) % W32
    BY <1>v, <2>8, <2>10 DEF n, sp
  <2>15. Inward(CallGates, cpl(t.r), z.r) /\ cpl(z.r) = k
    BY <1>2, <1>3, <1>5, <2>10, <2>12, <2>13, <2>14, InwardLegacy
  <2> QED BY <1>2, <1>5, <2>15 DEF Inner
<1> QED BY <1>4, <1>5 DEF j

LEMMA NullSsValue ==
    ASSUME NEW t, IsCpu(t), Ok(t), NEW k
    PROVE  OneSeg(t, set_null_ss(t, k), "SS", Loaded(k, NullD))
BY SetSegValue DEF set_null_ss, SegNames

LEMMA TableMet ==
    ASSUME NEW t, IsCpu(t), NEW k
    PROVE  Met(t, tss_stack(t, k)) /\ Met(t, tss_rsp(t, k)) /\ Met(t, tss_ist(t, k))
<1>1. \A ok : Met(t, Need(t, ok, Ts(Code(c.tss.sel))))
  BY MetSelf, MetNeed DEF Ts
<1> QED BY <1>1 DEF tss_stack, tss_rsp, tss_ist

(* Onto a null stack segment, the frame at the 64-bit address sp.          *)
FlatFramed(t, f, k, sp, n) ==
    /\ IsCpu(f) /\ Ok(f) /\ Ok(t) /\ f.r.fl = t.r.fl /\ f.r.rsp = FlatSlot(sp, n)
    /\ f.r.seg["SS"] = Loaded(k, NullD)
    /\ \A i \in SegNames \ {"SS"} : f.r.seg[i] = t.r.seg[i]

LEMMA FlatFrame ==
    ASSUME NEW t, IsCpu(t), NEW a, Met(t, a), NEW k, NEW sp, NEW vs, Len(vs) \in Nat,
           Ok(push64_at(set_null_ss(a, k), sp, vs))
    PROVE  FlatFramed(t, push64_at(set_null_ss(a, k), sp, vs), k, sp, Len(vs))
<1> DEFINE b == set_null_ss(a, k)
           f == push64_at(b, sp, vs)
<1>1. IsCpu(b) /\ (Ok(b) => Ok(a))
  <2>1. Moves({"SS"}, a, b)
    BY MovesRefl, MovesMore, NullSsStep DEF Met
  <2> QED BY <2>1 DEF Moves
<1>2. Moves({}, b, f)
  BY <1>1, MovesRefl, Push64Step
<1>3. Ok(b) /\ a = t /\ Ok(t)
  BY <1>1, <1>2 DEF Moves, Met
<1>4. OneSeg(t, b, "SS", Loaded(k, NullD))
  BY <1>3, NullSsValue
<1>5. f.r.rsp = FlatSlot(sp, Len(vs))
  BY <1>1, Push64Value
<1> HIDE DEF b
<1>6. IsCpu(f) /\ f.r.seg = b.r.seg /\ f.r.fl = b.r.fl
  BY <1>1, <1>2, QuietRegs, MovesCpu
<1>7. Ok(f)
  BY DEF b
<1> HIDE DEF f
<1>8. FlatFramed(t, f, k, sp, Len(vs))
  BY <1>3, <1>4, <1>5, <1>6, <1>7 DEF FlatFramed, OneSeg
<1> QED BY <1>8 DEF f, b

(* A gate of gates that level may use, to code of an inner level.          *)
Open(gates, g, level) ==
    /\ g \in gates /\ g.p /\ g.dpl >= level
    /\ Known(g.gsel) /\ Desc(g.gsel).kind = "code" /\ Desc(g.gsel).dpl \in 0 .. 2
    /\ c.long => Desc(g.gsel).l

(* Code entered through gate g with the stack that is in f.                *)
Through(g, f, b) ==
    /\ b.seg["CS"] = Loaded(Code(g.gsel) + Desc(g.gsel).dpl, Used(Desc(g.gsel)))
    /\ \A i \in SegNames \ {"CS"} : b.seg[i] = f.r.seg[i]
    /\ b.rsp = f.r.rsp /\ b.rip = gate_off(g) /\ "VM" \notin b.fl

LEMMA FlatInward ==
    ASSUME SoundMachine(c), c.long, NEW gates, NEW g, NEW level, Open(gates, g, level),
           NEW t, RegsOk(t.r), NEW top \in {InnerSp(Desc(g.gsel).dpl)} \cup Range(c.tss.ist), top \in Int,
           NEW m \in 0 .. 7, NEW len \in 0 .. 6, NEW f, NEW y, FlatFramed(t, f, y, top - m, len),
           NEW b, Through(g, f, b)
    PROVE  Inward(gates, level, b) /\ cpl(b) = Desc(g.gsel).dpl
<1> DEFINE n == m + 4 * len
<1>1. n \in 0 .. MaxFrame /\ (top - m) - 4 * len = top - n
  BY DEF MaxFrame
<1>2. b.rsp = (top - n) % W64
  BY <1>1 DEF FlatFramed, FlatSlot, Through
<1> HIDE DEF n
<1>3. \A i \in DataSegs : {"sel", "d"} \subseteq DOMAIN b.seg[i] /\ IsSegment(b.seg[i].d)
  BY DEF FlatFramed, RegsOk, SegsOk, SegNames, DataSegs, Through
<1>4. b.seg["SS"] = Loaded(y, NullD)
  BY DEF FlatFramed, SegNames, Through
<1>5. /\ g \in gates /\ g.p /\ g.dpl >= level /\ Known(g.gsel) /\ Desc(g.gsel).kind = "code"
      /\ Desc(g.gsel).dpl \in 0 .. 2 /\ Desc(g.gsel).l
      /\ b.seg["CS"] = Loaded(Code(g.gsel) + Desc(g.gsel).dpl, Used(Desc(g.gsel)))
      /\ b.rip = gate_off(g) /\ "VM" \notin b.fl
  BY DEF Open, Through
<1> QED BY <1>1, <1>2, <1>3, <1>4, <1>5, InwardLong

LEMMA CallLongGuarded ==
    ASSUME SoundMachine(c), NEW t, IsCpu(t), RegsOk(t.r), c.long, c.pe, "VM" \notin t.r.fl,
           NEW sel, NEW d \in CallGates, Ok(call_gate_long(t, sel, d))
    PROVE  \/ Kept(t.r, call_gate_long(t, sel, d).r)
           \/ /\ Inward(CallGates, cpl(t.r), call_gate_long(t, sel, d).r)
              /\ cpl(call_gate_long(t, sel, d).r) < cpl(t.r)
<1> DEFINE gd == Desc(d.gsel)
           k == gd.dpl
           k1 == canonical(gate_off(d))
           a0 == check_gate(t, sel, d)
           a1 == check_gate_target(a0, d.gsel)
           a == Need(a1, k1, Gp(0))
           b == tss_rsp(a, k)
           vs == <<Sel(t.r, "SS"), stack_ptr(t), Sel(t.r, "CS"), t.r.rip>>
           top == c.tss.sp[k]
           f == push64_at(set_null_ss(b, k), top, vs)
           z == Enter(f, d.gsel, gd, k, gate_off(d))
           hs == <<Sel(t.r, "CS"), t.r.rip>>
           h == PushAll(a, 4, hs)
           y == Enter(h, d.gsel, gd, cpl(t.r), gate_off(d))
           j == call_gate_long(t, sel, d)
<1>0. j = IF ~Ok(a) THEN a ELSE IF Inner(gd, cpl(t.r)) THEN z ELSE y
  BY Zenon DEF call_gate_long
<1>h. Len(hs) \in Nat /\ Len(vs) = 4
  OBVIOUS
<1> HIDE DEF j, vs, hs, k1
<1>j. Ok(j)
  BY DEF j
<1>a. Met(t, a0) /\ (Ok(a0) => d.p /\ d.dpl >= cpl(t.r))
  BY GateMet
<1> HIDE DEF a0
<1>b. /\ Met(t, a1)
      /\ Ok(a1) => /\ Ok(a0) /\ Known(d.gsel) /\ gd.kind = "code" /\ gd.dpl <= cpl(t.r)
                   /\ c.long => gd.l
  BY <1>a, GateTargetMet
<1> HIDE DEF a1
<1>1. Met(t, a) /\ (Ok(a) => Ok(a1))
  BY <1>b, MetNeed DEF Gp
<1> HIDE DEF a
<1>2. /\ a = t /\ Ok(t) /\ d.p /\ d.dpl >= cpl(t.r) /\ Known(d.gsel) /\ gd.kind = "code" /\ gd.l
      /\ gd.dpl <= cpl(t.r) /\ j = IF Inner(gd, cpl(t.r)) THEN z ELSE y
  BY <1>0, <1>a, <1>b, <1>1, <1>j DEF Met
<1>3. /\ ~Inner(gd, cpl(t.r)) => k = cpl(t.r)
      /\ Inner(gd, cpl(t.r)) => k \in 0 .. 2
  BY <1>2, GateLevel
<1>4. ASSUME ~Inner(gd, cpl(t.r)) PROVE Kept(t.r, j.r)
  <2>1. Moves({}, t, h)
    BY <1>2, <1>h, MovesRefl, PushAllStep
  <2> HIDE DEF h
  <2>2. IsCpu(h) /\ Kept(t.r, h.r)
    BY <2>1, QuietKept, MovesCpu
  <2>3. Ok(h)
    <3>1. Moves({"CS"}, h, y)
      BY <2>2, MovesRefl, MovesMore, EnterStep
    <3> QED BY <1>2, <1>4, <1>j, <3>1 DEF Moves
  <2>4. gd.dpl = cpl(h.r) /\ RegsOk(h.r)
    BY <1>3, <1>4, <2>2 DEF Kept
  <2>5. Kept(h.r, y.r)
    BY <1>2, <2>2, <2>3, <2>4, EnterKept
  <2> QED BY <1>2, <1>4, <2>2, <2>5, KeptTrans
<1>5. ASSUME Inner(gd, cpl(t.r)) PROVE Inward(CallGates, cpl(t.r), j.r) /\ cpl(j.r) < cpl(t.r)
  <2>1. Met(t, b)
    BY <1>1, <1>2, TableMet
  <2> HIDE DEF b
  <2>2. Ok(f) /\ IsCpu(f)
    <3>1. Moves({"SS"}, b, f)
      BY <1>h, <2>1, MovesRefl, MovesMore, NullSsStep, Push64Step DEF Met
    <3> HIDE DEF f
    <3>2. IsCpu(f)
      BY <3>1, MovesCpu
    <3>3. Moves({"CS"}, f, z)
      BY <3>2, MovesRefl, MovesMore, EnterStep
    <3> QED BY <1>2, <1>5, <1>j, <3>2, <3>3 DEF Moves
  <2>3. FlatFramed(t, f, k, top, 4)
    <3>1. Len(vs) \in Nat
      BY <1>h
    <3>2. FlatFramed(t, f, k, top, Len(vs))
      BY <2>1, <2>2, <3>1, FlatFrame
    <3> QED BY <1>h, <3>2
  <2>4. top \in Int /\ top = InnerSp(k)
    BY <1>3, <1>5 DEF SoundMachine, InnerSp
  <2> HIDE DEF f
  <2>5. /\ z.r.seg["CS"] = Loaded(Code(d.gsel) + k, Used(gd)) /\ z.r.rip = gate_off(d)
        /\ \A i \in SegNames \ {"CS"} : z.r.seg[i] = f.r.seg[i]
        /\ z.r.fl = f.r.fl /\ z.r.rsp = f.r.rsp
    BY <2>2, EnterValue
  <2> HIDE DEF z, top
  <2>6. Open(CallGates, d, cpl(t.r))
    BY <1>2, <1>3, <1>5 DEF Open
  <2>7. Through(d, f, z.r)
    BY <2>3, <2>5 DEF Through, FlatFramed
  <2>8. top \in {InnerSp(k)} \cup Range(c.tss.ist)
    BY <2>4
  <2> HIDE DEF k, gd
  <2>9. PICK m : m = 0
    OBVIOUS
  <2>10. top - m = top /\ m \in 0 .. 7 /\ 4 \in 0 .. 6
    BY <2>4, <2>9
  <2>11. Inward(CallGates, cpl(t.r), z.r) /\ cpl(z.r) = k
    BY <2>3, <2>4, <2>6, <2>7, <2>8, <2>10, FlatInward DEF k, gd
  <2> QED BY <1>2, <1>5, <2>11 DEF Inner, k
<1> QED BY <1>4, <1>5 DEF j

LEMMA CallFarGuarded ==
    ASSUME SoundMachine(c), NEW t, IsCpu(t), RegsOk(t.r), t.m64 => c.long, NEW sel, NEW off,
           Ok(call_far(t, sel, off))
    PROVE  \/ Kept(t.r, call_far(t, sel, off).r)
           \/ /\ protected_mode(t.r) /\ Inward(CallGates, cpl(t.r), call_far(t, sel, off).r)
              /\ cpl(call_far(t, sel, off).r) < cpl(t.r)
<1> DEFINE d == Desc(sel)
           here == <<Sel(t.r, "CS"), t.r.rip>>
           n == Need(t, ~IsNull(sel), Gp(0))
           a == read_descriptor(n, sel)
           b == DirectTarget(a, sel, off)
           h == PushAll(b, t.osize, here)
           y1 == Enter(h, sel, d, cpl(t.r), off)
           y2 == call_gate_long(a, sel, d)
           y3 == call_gate_legacy(a, sel, d)
           y4 == Need(a, FALSE, Gp(Code(sel)))
           r == PushAll(t, t.osize, here)
           y5 == far_real(r, sel, off)
           j == call_far(t, sel, off)
<1>0. /\ ~protected_mode(t.r) => j = y5
      /\ protected_mode(t.r) /\ ~Ok(a) => j = a
      /\ protected_mode(t.r) /\ Ok(a) /\ d.kind = "code" => j = y1
      /\ protected_mode(t.r) /\ Ok(a) /\ d.kind = "callgate" /\ c.long /\ d.wide => j = y2
      /\ protected_mode(t.r) /\ Ok(a) /\ d.kind = "callgate" /\ ~c.long => j = y3
      /\ protected_mode(t.r) /\ Ok(a) /\ d.kind # "code" /\ ~CallGate(d) => j = y4
  BY DEF call_far, CallGate
<1>h. Len(here) \in Nat
  OBVIOUS
<1> HIDE DEF j, here
<1>j. Ok(j)
  BY DEF j
<1>1. ASSUME ~protected_mode(t.r) PROVE Kept(t.r, j.r)
  <2>1. Moves({}, t, r)
    BY <1>h, MovesRefl, PushAllStep
  <2> HIDE DEF r
  <2>2. IsCpu(r) /\ Kept(t.r, r.r) /\ r.r.fl = t.r.fl
    BY <2>1, QuietKept, QuietRegs, MovesCpu
  <2>3. ~protected_mode(r.r) /\ RegsOk(r.r) /\ j = y5
    BY <1>0, <1>1, <2>2 DEF Kept, protected_mode
  <2>4. Kept(r.r, y5.r)
    BY <1>j, <2>2, <2>3, FarRealKept
  <2> QED BY <2>2, <2>3, <2>4, KeptTrans
<1>2. ASSUME protected_mode(t.r)
      PROVE  Kept(t.r, j.r) \/ (Inward(CallGates, cpl(t.r), j.r) /\ cpl(j.r) < cpl(t.r))
  <2>a. Met(t, n)
    BY MetSelf, MetNeed DEF Gp
  <2> HIDE DEF n
  <2>1. Met(t, a) /\ (Ok(a) => Known(sel))
    BY <2>a, ReadMet
  <2> HIDE DEF a
  <2>2. Ok(a) /\ a = t /\ Ok(t) /\ Known(sel)
    BY <1>0, <1>2, <1>j, <2>1 DEF Met
  <2>p. c.pe /\ "VM" \notin t.r.fl
    BY <1>2 DEF protected_mode
  <2>3. ASSUME d.kind = "code" PROVE Kept(t.r, j.r)
    <3>1. j = y1
      BY <1>0, <1>2, <2>2, <2>3
    <3>2. Met(t, b) /\ (Ok(b) => d.conf \/ d.dpl = cpl(t.r))
      BY <2>2, DirectMet
    <3> HIDE DEF b
    <3>h. Moves({}, b, h)
      BY <1>h, <3>2, MovesRefl, PushAllStep DEF Met
    <3> HIDE DEF h
    <3>3. Ok(h)
      <4>1. Moves({"CS"}, h, y1)
        BY <3>h, MovesCpu, MovesRefl, MovesMore, EnterStep
      <4> QED BY <1>j, <3>1, <4>1 DEF Moves
    <3>4. b = t /\ d.dpl = cpl(t.r)
      BY <2>2, <2>3, <3>2, <3>3, <3>h, CodeSound DEF Met, Moves
    <3>5. IsCpu(h) /\ Kept(t.r, h.r)
      BY <3>h, <3>4, QuietKept, MovesCpu
    <3>6. RegsOk(h.r) /\ d.dpl = cpl(h.r)
      BY <3>4, <3>5 DEF Kept
    <3>7. Kept(h.r, y1.r)
      BY <2>2, <2>3, <3>3, <3>5, <3>6, EnterKept
    <3> QED BY <3>1, <3>5, <3>7, KeptTrans
  <2>4. ASSUME d.kind # "code", ~CallGate(d) PROVE FALSE
    <3>1. Met(t, y4) /\ (Ok(y4) => FALSE)
      BY <2>1, MetNeed DEF Gp
    <3> QED BY <1>0, <1>2, <1>j, <2>2, <2>4, <3>1
  <2>5. ASSUME CallGate(d) PROVE Kept(t.r, j.r) \/ (Inward(CallGates, cpl(t.r), j.r) /\ cpl(j.r) < cpl(t.r))
    <3>1. d.kind = "callgate" /\ d \in CallGates /\ d.params \in 0 .. 31
      BY <2>2, <2>5, KnownSound DEF CallGate
    <3>2. CASE c.long
      <4>1. j = y2
        BY <1>0, <1>2, <2>2, <2>5, <3>1, <3>2 DEF CallGate
      <4> QED BY <1>j, <2>2, <2>p, <3>1, <3>2, <4>1, CallLongGuarded
    <3>3. CASE ~c.long
      <4>1. j = y3
        BY <1>0, <1>2, <2>2, <3>1, <3>3
      <4> QED BY <1>j, <2>2, <2>p, <3>1, <3>3, <4>1, CallLegacyGuarded
    <3> QED BY <3>2, <3>3
  <2> QED BY <2>3, <2>4, <2>5
<1> QED BY <1>1, <1>2 DEF j

-----------------------------------------------------------------------------
(* Outward by a return.                                                    *)

(* A stack segment of the level rpl loaded, or a null one.                 *)
OuterStack(t, u, rpl) ==
    /\ IsCpu(u) /\ Ok(u) /\ Ok(t) /\ u.r.fl = t.r.fl
    /\ \A i \in SegNames \ {"SS"} : u.r.seg[i] = t.r.seg[i]
    /\ {"sel", "d"} \subseteq DOMAIN u.r.seg["SS"] /\ IsSegment(u.r.seg["SS"].d)
    /\ IF u.r.seg["SS"].d.p THEN u.r.seg["SS"].d.dpl = rpl ELSE c.long /\ rpl # 3

LEMMA OneStack ==
    ASSUME NEW t, Ok(t), NEW a, NEW sel, NEW d, OneSeg(t, a, "SS", Loaded(sel, d)), IsSegment(d), NEW rpl,
           IF d.p THEN d.dpl = rpl ELSE c.long /\ rpl # 3,
           NEW u, IsCpu(u), Ok(u), u.r.seg = a.r.seg, u.r.fl = a.r.fl
    PROVE  OuterStack(t, u, rpl)
<1> DEFINE x == Loaded(sel, d)
<1>1. x.d = d /\ {"sel", "d"} \subseteq DOMAIN x
  BY DEF Loaded
<1>2. OneSeg(t, a, "SS", x)
  OBVIOUS
<1> HIDE DEF x
<1> QED BY <1>1, <1>2 DEF OuterStack, OneSeg

LEMMA OuterSsValue ==
    ASSUME SoundMachine(c), NEW t, IsCpu(t), NEW ss, NEW sp, NEW rpl, Ok(load_outer_ss(t, ss, sp, rpl))
    PROVE  OuterStack(t, load_outer_ss(t, ss, sp, rpl), rpl)
<1> DEFINE d == Desc(ss)
           k0 == c.long /\ rpl # 3 /\ Rpl(ss) = rpl
           k1 == Rpl(ss) = rpl
           k2 == WritableData(d) /\ d.dpl = rpl
           m == Need(t, k0, Gp(0))
           n == set_null_ss(m, rpl)
           y == [n EXCEPT !.r.rsp = sp]
           s0 == Need(t, k1, Gp(Code(ss)))
           s1 == read_descriptor(s0, ss)
           s2 == Need(s1, k2, Gp(Code(ss)))
           s3 == Need(s2, d.p, Ss(Code(ss)))
           a == commit_seg(s3, "SS", ss, d)
           z1 == [a EXCEPT !.r.rsp = sp]
           z2 == SetSp(a, d, sp)
           j == load_outer_ss(t, ss, sp, rpl)
<1>0. j = IF ~Ok(t) THEN t
          ELSE IF IsNull(ss) THEN IF Ok(m) THEN y ELSE m
          ELSE IF Ok(s3) THEN IF c.long /\ t.r.seg["CS"].d.l THEN z1 ELSE z2 ELSE s3
  BY Zenon DEF load_outer_ss
<1> HIDE DEF j, k0, k1, k2
<1>j. Ok(j)
  BY DEF j
<1>t. Ok(t)
  BY <1>0, <1>j
<1>1. ASSUME IsNull(ss) PROVE OuterStack(t, j, rpl)
  <2>1. Met(t, m) /\ (Ok(m) => k0)
    BY MetSelf, MetNeed DEF Gp
  <2> HIDE DEF m
  <2>2. m = t /\ k0 /\ j = y
    BY <1>0, <1>1, <1>j, <1>t, <2>1 DEF Met
  <2>3. OneSeg(t, n, "SS", Loaded(rpl, NullD))
    BY <1>t, <2>2, NullSsValue
  <2> HIDE DEF n
  <2>4. IsCpu(y) /\ Ok(y) /\ y.r.seg = n.r.seg /\ y.r.fl = n.r.fl
    BY <2>3, SpValue DEF OneSeg
  <2> HIDE DEF y
  <2>5. c.long /\ rpl # 3
    BY <2>2 DEF k0
  <2> QED BY <1>t, <2>2, <2>3, <2>4, <2>5, NullDesc, OneStack
<1>2. ASSUME ~IsNull(ss) PROVE OuterStack(t, j, rpl)
  <2>0. Met(t, s0)
    BY MetSelf, MetNeed DEF Gp
  <2> HIDE DEF s0
  <2>1. Met(t, s1) /\ (Ok(s1) => Known(ss))
    BY <2>0, ReadMet
  <2> HIDE DEF s1
  <2>2. Met(t, s2) /\ (Ok(s2) => k2 /\ Ok(s1))
    BY <2>1, MetNeed DEF Gp
  <2> HIDE DEF s2
  <2>3. Met(t, s3) /\ (Ok(s3) => Ok(s2))
    BY <2>2, MetNeed DEF Ss
  <2> HIDE DEF s3
  <2>4. Ok(s3) /\ s3 = t /\ Known(ss) /\ k2 /\ j = IF c.long /\ t.r.seg["CS"].d.l THEN z1 ELSE z2
    BY <1>0, <1>2, <1>j, <1>t, <2>1, <2>2, <2>3 DEF Met
  <2>5. IsSegment(d) /\ d.dpl = rpl
    BY <2>4, KnownSound DEF k2, WritableData, IsCodeData
  <2> DEFINE e == Used(d)
  <2>6. IsSegment(e) /\ e.p /\ e.dpl = rpl
    BY <2>5, UsedDesc
  <2>7. OneSeg(t, a, "SS", Loaded(ss, e))
    BY <1>t, <2>4, CommitValue DEF SegNames
  <2> HIDE DEF a, e, d
  <2>8. /\ IsCpu(z1) /\ Ok(z1) /\ z1.r.seg = a.r.seg /\ z1.r.fl = a.r.fl
        /\ IsCpu(z2) /\ Ok(z2) /\ z2.r.seg = a.r.seg /\ z2.r.fl = a.r.fl
    BY <2>7, SpValue, SetSpValue DEF OneSeg
  <2> HIDE DEF z1, z2
  <2>9. OuterStack(t, z1, rpl) /\ OuterStack(t, z2, rpl)
    BY <1>t, <2>6, <2>7, <2>8, OneStack
  <2> QED BY <2>4, <2>9
<1> QED BY <1>1, <1>2 DEF j

(* No data segment of an inner level is left.                              *)
Validated(t, u, level) ==
    /\ IsCpu(u) /\ Ok(t) /\ u.r.fl = t.r.fl
    /\ u.r.seg["CS"] = t.r.seg["CS"] /\ u.r.seg["SS"] = t.r.seg["SS"]
    /\ \A i \in DataSegs : /\ {"sel", "d"} \subseteq DOMAIN u.r.seg[i] /\ IsSegment(u.r.seg[i].d)
                           /\ u.r.seg[i].d.p => u.r.seg[i].d.dpl >= level

LEMMA ValidateValue ==
    ASSUME NEW t, IsCpu(t),
           \A i \in DataSegs : {"sel", "d"} \subseteq DOMAIN t.r.seg[i] /\ IsSegment(t.r.seg[i].d),
           NEW level \in 0 .. 3, Ok(validate_data_segs(t, level))
    PROVE  Validated(t, validate_data_segs(t, level), level)
<1> DEFINE inner(x) == x.d.p /\ ~Conforming(x.d) /\ x.d.dpl < level
           p == prepare_cold_write(t)
           x0 == [sel |-> 0, d |-> NullD]
           seg == [i \in DOMAIN p.r.seg |-> IF i \in DataSegs /\ inner(p.r.seg[i]) THEN x0 ELSE p.r.seg[i]]
           z == [p EXCEPT !.r.seg = seg]
           j == validate_data_segs(t, level)
<1>0. j = IF ~Ok(t) THEN t ELSE z
  BY DEF validate_data_segs
<1>1. IsCpu(p) /\ p.r = t.r
  BY ColdKeeps
<1> HIDE DEF p
<1>2. DOMAIN p.r.seg = SegNames
  BY <1>1 DEF IsCpu, IsRegs
<1>x. x0.d = NullD /\ {"sel", "d"} \subseteq DOMAIN x0
  OBVIOUS
<1> HIDE DEF x0
<1>3. /\ DOMAIN seg = SegNames
      /\ \A i \in DataSegs : seg[i] = IF inner(t.r.seg[i]) THEN x0 ELSE t.r.seg[i]
      /\ seg["CS"] = t.r.seg["CS"] /\ seg["SS"] = t.r.seg["SS"]
      /\ seg = [i \in SegNames |-> seg[i]]
  BY Zenon, <1>1, <1>2 DEF SegNames, DataSegs
<1>4. \A i \in DataSegs : /\ {"sel", "d"} \subseteq DOMAIN seg[i] /\ IsSegment(seg[i].d)
                          /\ seg[i].d.p => seg[i].d.dpl >= level
  <2> SUFFICES ASSUME NEW i \in DataSegs
               PROVE  /\ {"sel", "d"} \subseteq DOMAIN seg[i] /\ IsSegment(seg[i].d)
                      /\ seg[i].d.p => seg[i].d.dpl >= level
    BY Zenon
  <2> DEFINE y == t.r.seg[i]
  <2>1. CASE inner(y)
    <3>1. seg[i] = x0
      BY Zenon, <1>3, <2>1
    <3> HIDE DEF seg
    <3> QED BY Zenon, <1>x, <3>1, NullDesc
  <2>2. CASE ~inner(y)
    <3>1. seg[i] = y
      BY Zenon, <1>3, <2>2
    <3> HIDE DEF seg
    <3>2. IsSegment(y.d) /\ y.d.dpl \in 0 .. 3 /\ ~Conforming(y.d)
      BY DEF IsSegment
    <3> QED BY <2>2, <3>1, <3>2
  <2> QED BY Zenon, <2>1, <2>2
<1> HIDE DEF seg
<1>5. z.r.seg = seg /\ z.r.fl = p.r.fl /\ IsCpu(z)
  BY SMTT(30), <1>1, <1>3 DEF IsCpu, IsRegs, CpuNames, RegNames
<1> HIDE DEF z
<1>6. ASSUME Ok(t) PROVE Validated(t, j, level)
  BY <1>0, <1>1, <1>3, <1>4, <1>5, <1>6 DEF Validated
<1>7. Ok(t)
  BY <1>0
<1> QED BY <1>6, <1>7

(* The outer level b, with nothing of a level inside it in reach.          *)
Outward(a, b) ==
    /\ RegsOk(b) /\ cpl(b) > cpl(a)
    /\ \A i \in DataSegs : b.seg[i].d.p => b.seg[i].d.dpl >= cpl(b)

(* Code of level k loaded.                                                 *)
CodeLoaded(t, e, k) ==
    /\ IsCpu(e) /\ Ok(e) /\ e.r.fl = t.r.fl
    /\ {"sel", "d"} \subseteq DOMAIN e.r.seg["CS"] /\ IsSegment(e.r.seg["CS"].d)
    /\ e.r.seg["CS"].d.dpl = k
    /\ \A i \in SegNames \ {"CS"} : e.r.seg[i] = t.r.seg[i]

LEMMA LoadCsValue ==
    ASSUME SoundMachine(c), NEW t, IsCpu(t), Ok(t), NEW sel, Known(sel), Desc(sel).kind = "code",
           NEW y, NEW off
    PROVE  /\ CodeLoaded(t, load_cs(t, sel, Desc(sel), y), Desc(sel).dpl)
           /\ CodeLoaded(t, Enter(t, sel, Desc(sel), y, off), Desc(sel).dpl)
<1> DEFINE d == Desc(sel)
           e == Used(d)
           a == load_cs(t, sel, d, y)
           u == SetRip(a, off)
           x == Loaded(Code(sel) + y, e)
<1>1. IsSegment(e) /\ e.dpl = d.dpl
  BY CodeSound, UsedDesc
<1>2. x.d = e /\ {"sel", "d"} \subseteq DOMAIN x
  BY DEF Loaded
<1>3. OneSeg(t, a, "CS", x)
  BY CommitValue DEF load_cs, SegNames
<1>4. Enter(t, sel, d, y, off) = u
  BY DEF Enter
<1> HIDE DEF a, x, e
<1>5. /\ IsCpu(u) /\ Ok(u) /\ u.r.seg = a.r.seg /\ u.r.fl = a.r.fl
  BY <1>3, RipValue DEF OneSeg
<1> HIDE DEF u, d
<1>6. CodeLoaded(t, a, d.dpl)
  BY <1>1, <1>2, <1>3 DEF CodeLoaded, OneSeg
<1>7. CodeLoaded(t, u, d.dpl)
  BY <1>5, <1>6 DEF CodeLoaded
<1> QED BY <1>4, <1>6, <1>7 DEF a, u, d

LEMMA LeaveLevel ==
    ASSUME NEW t, RegsOk(t.r), "VM" \notin t.r.fl, c.pe, NEW k \in 0 .. 3, k > cpl(t.r),
           NEW q, q.r.seg = t.r.seg, q.r.fl = t.r.fl, NEW e, CodeLoaded(q, e, k),
           NEW u, OuterStack(e, u, k), NEW v, v.r.seg = u.r.seg, "VM" \notin v.r.fl,
           NEW w, Validated(v, w, k)
    PROVE  Outward(t.r, w.r)
<1>1. w.r.seg["CS"] = e.r.seg["CS"] /\ w.r.seg["SS"] = u.r.seg["SS"] /\ "VM" \notin w.r.fl
  BY DEF Validated, OuterStack, SegNames
<1>2. cpl(w.r) = k
  BY <1>1 DEF cpl, protected_mode, CodeLoaded
<1>3. SegsOk(w.r)
  BY <1>1 DEF SegsOk, SegNames, Validated, OuterStack, CodeLoaded
<1>4. StackSegOk(w.r)
  BY <1>1 DEF StackSegOk, OuterStack, CodeLoaded
<1> QED BY <1>2, <1>3, <1>4 DEF Outward, RegsOk, Validated

LEMMA DataStay ==
    ASSUME NEW t, RegsOk(t.r), NEW q, q.r.seg = t.r.seg, NEW k, NEW e, CodeLoaded(q, e, k),
           NEW u, OuterStack(e, u, k)
    PROVE  \A i \in DataSegs : {"sel", "d"} \subseteq DOMAIN u.r.seg[i] /\ IsSegment(u.r.seg[i].d)
BY DEF RegsOk, SegsOk, CodeLoaded, OuterStack, SegNames, DataSegs

LEMMA RetfGuarded ==
    ASSUME SoundMachine(c), NEW t, IsCpu(t), RegsOk(t.r), NEW n, Ok(retf(t, n))
    PROVE  Kept(t.r, retf(t, n).r) \/ Outward(t.r, retf(t, n).r)
<1> DEFINE p == PopAll(t, t.osize, 2)
           sel == p.v[2] % W16
           ip == p.v[1]
           k == Rpl(sel)
           r == ReturnTarget(p, sel, ip)
           a == adjust_sp(r, n)
           q == PopAll(a, t.osize, 2)
           b == Enter(q, sel, Desc(sel), k, ip)
           l == load_outer_ss(b, q.v[2] % W16, q.v[1], k)
           s0 == adjust_sp(l, n)
           x == adjust_sp(p, n)
           y1 == far_real(x, sel, ip)
           y2 == Enter(a, sel, Desc(sel), k, ip)
           y3 == validate_data_segs(s0, k)
           j == retf(t, n)
<1>0. j = IF ~Ok(p) THEN p
          ELSE IF protected_mode(t.r)
          THEN IF ~Ok(a) THEN a
               ELSE IF k = cpl(t.r) THEN y2
               ELSE IF ~Ok(q) THEN q ELSE y3
          ELSE y1
  BY Zenon DEF retf
<1> HIDE DEF j
<1>j. Ok(j)
  BY DEF j
<1>p. Moves({}, t, p)
  BY MovesRefl, PopAllStep
<1> HIDE DEF p, sel, ip, k
<1>1. IsCpu(p) /\ Kept(t.r, p.r) /\ p.r.seg = t.r.seg /\ p.r.fl = t.r.fl
  BY <1>p, QuietKept, QuietRegs, MovesCpu
<1>2. ASSUME ~protected_mode(t.r) PROVE Kept(t.r, j.r)
  <2>1. Moves({}, t, x)
    BY <1>p, AdjustStep
  <2> HIDE DEF x
  <2>2. IsCpu(x) /\ Kept(t.r, x.r) /\ x.r.fl = t.r.fl
    BY <2>1, QuietKept, QuietRegs, MovesCpu
  <2>3. ~protected_mode(x.r) /\ RegsOk(x.r) /\ j = y1
    BY <1>0, <1>2, <1>j, <2>2 DEF Kept, protected_mode
  <2>4. Kept(x.r, y1.r)
    BY <1>j, <2>2, <2>3, FarRealKept
  <2> QED BY <2>2, <2>3, <2>4, KeptTrans
<1>3. ASSUME protected_mode(t.r) PROVE Kept(t.r, j.r) \/ Outward(t.r, j.r)
  <2>1. /\ Met(p, r)
        /\ Ok(r) => /\ Known(sel) /\ Desc(sel).kind = "code" /\ k >= cpl(p.r)
                    /\ Desc(sel).conf \/ Desc(sel).dpl = k
    BY <1>1, ReturnMet DEF k
  <2> HIDE DEF r
  <2>2. Moves({}, r, a)
    BY <2>1, MovesRefl, AdjustStep DEF Met
  <2> HIDE DEF a
  <2>3. Ok(a) /\ Ok(r) /\ r = p /\ j = IF k = cpl(t.r) THEN y2 ELSE IF ~Ok(q) THEN q ELSE y3
    BY <1>0, <1>3, <1>j, <2>1, <2>2 DEF Met, Moves
  <2>4. IsCpu(a) /\ Kept(t.r, a.r) /\ a.r.seg = t.r.seg /\ a.r.fl = t.r.fl
    <3>1. RegsOk(p.r)
      BY <1>1 DEF Kept
    <3>2. IsCpu(a) /\ Kept(p.r, a.r) /\ a.r.seg = p.r.seg /\ a.r.fl = p.r.fl
      BY <1>1, <2>2, <2>3, <3>1, QuietKept, QuietRegs, MovesCpu
    <3> QED BY <1>1, <3>2, KeptTrans
  <2>5. Known(sel) /\ Desc(sel).kind = "code" /\ k >= cpl(t.r) /\ Desc(sel).dpl = k /\ k \in 0 .. 3
    <3>1. Known(sel) /\ Desc(sel).kind = "code" /\ k >= cpl(t.r) /\ Desc(sel).dpl = k
      BY <1>1, <2>1, <2>3, CodeSound DEF Kept
    <3>2. IsSegment(Desc(sel))
      BY <3>1, CodeSound
    <3> QED BY <3>1, <3>2 DEF IsSegment
  <2>6. ASSUME k = cpl(t.r) PROVE Kept(t.r, j.r)
    <3>1. RegsOk(a.r) /\ Desc(sel).dpl = cpl(a.r)
      BY <2>4, <2>5, <2>6 DEF Kept
    <3>2. Kept(a.r, y2.r)
      BY <2>3, <2>4, <2>5, <3>1, EnterKept
    <3> QED BY <2>3, <2>4, <2>6, <3>2, KeptTrans
  <2>7. ASSUME k # cpl(t.r) PROVE Outward(t.r, j.r)
    <3>1. Moves({}, a, q)
      BY <2>4, MovesRefl, PopAllStep
    <3> HIDE DEF q
    <3>2. IsCpu(q) /\ q.r.seg = t.r.seg /\ q.r.fl = t.r.fl
      BY <2>4, <3>1, QuietRegs, MovesCpu
    <3>3. j = y3 /\ Ok(q)
      BY <1>j, <2>3, <2>7
    <3>4. CodeLoaded(q, b, k)
      BY <2>5, <3>2, <3>3, LoadCsValue
    <3> HIDE DEF b
    <3>5. IsCpu(b) /\ IsCpu(l)
      <4>1. IsCpu(b)
        BY <3>4 DEF CodeLoaded
      <4>2. Moves({"SS"}, b, l)
        BY <4>1, MovesRefl, MovesMore, OuterSsStep
      <4> QED BY <4>1, <4>2, MovesCpu
    <3>6. Moves({}, l, s0)
      BY Zenon, <3>5, MovesRefl, AdjustStep
    <3>7. Ok(s0) /\ Ok(l)
      <4>1. Ok(s0)
        BY Zenon, <1>j, <3>3 DEF validate_data_segs
      <4> QED BY Zenon, <3>6, <4>1 DEF Moves
    <3>8. OuterStack(b, l, k)
      BY <3>5, <3>7, OuterSsValue
    <3> HIDE DEF l
    <3>9. s0.r.seg = l.r.seg /\ s0.r.fl = l.r.fl /\ IsCpu(s0)
      BY <3>5, <3>6, QuietRegs, MovesCpu
    <3> HIDE DEF s0
    <3>10. \A i \in DataSegs : {"sel", "d"} \subseteq DOMAIN s0.r.seg[i] /\ IsSegment(s0.r.seg[i].d)
      BY <3>2, <3>4, <3>8, <3>9, DataStay
    <3>11. Validated(s0, y3, k)
      BY <1>j, <2>5, <3>3, <3>9, <3>10, ValidateValue
    <3> HIDE DEF y3
    <3>12. "VM" \notin s0.r.fl /\ c.pe /\ "VM" \notin t.r.fl
      BY <1>3, <3>2, <3>4, <3>8, <3>9 DEF protected_mode, CodeLoaded, OuterStack
    <3>13. k > cpl(t.r)
      BY <2>5, <2>7, CplRange DEF RegsOk
    <3>14. Outward(t.r, y3.r)
      BY <2>5, <3>2, <3>4, <3>8, <3>9, <3>11, <3>12, <3>13, LeaveLevel
    <3> QED BY <3>3, <3>14
  <2> QED BY <2>6, <2>7
<1> QED BY <1>2, <1>3 DEF j

LEMMA VmStays ==
    ASSUME NEW fl, NEW v, NEW mask, "VM" \notin mask
    PROVE  "VM" \in LoadFlags(fl, v, mask) <=> "VM" \in fl
BY DEF LoadFlags

LEMMA VmMasked ==
    ASSUME NEW t, NEW level
    PROVE  "VM" \notin popf_mask(t) /\ "VM" \notin iret_flag_mask(t, level)
BY DEF popf_mask, iret_flag_mask

LEMMA FlagsKept ==
    ASSUME NEW t, IsCpu(t), RegsOk(t.r), NEW fl, "VM" \in fl <=> "VM" \in t.r.fl
    PROVE  Kept(t.r, SetFlags(t, fl).r)
<1> DEFINE u == SetFlags(t, fl)
<1>1. CASE ~Ok(t)
  BY <1>1 DEF SetFlags, Kept
<1>2. CASE Ok(t)
  <2>1. u.r.seg = t.r.seg /\ u.r.fl = fl
    BY <1>2, FlagsValue
  <2> HIDE DEF u
  <2>2. Kept(t.r, u.r)
    BY <2>1 DEF Kept, RegsOk, SegsOk, StackSegOk, cpl, protected_mode
  <2> QED BY <2>2 DEF u
<1> QED BY <1>1, <1>2

LEMMA IretRealKept ==
    ASSUME NEW t, IsCpu(t), RegsOk(t.r), ~protected_mode(t.r), Ok(IretReal(t))
    PROVE  Kept(t.r, IretReal(t).r)
<1> DEFINE mask == IF c.pe THEN popf_mask(t) \ {"IOPL", "VM"} ELSE popf_mask(t)
           p == PopAll(t, t.osize, 3)
           fl == LoadFlags(t.r.fl, p.v[3], mask)
           a == far_real(p, p.v[2] % W16, p.v[1])
           z == SetFlags(a, fl)
           j == IretReal(t)
<1>0. j = IF ~Ok(p) THEN p ELSE z
  BY Zenon DEF IretReal
<1> HIDE DEF j
<1>j. Ok(j)
  BY DEF j
<1>m. "VM" \notin mask
  BY VmMasked
<1> HIDE DEF mask
<1>f. "VM" \in fl <=> "VM" \in t.r.fl
  BY <1>m, VmStays
<1>p. Moves({}, t, p)
  BY MovesRefl, PopAllStep
<1> HIDE DEF p, fl
<1>1. IsCpu(p) /\ Kept(t.r, p.r) /\ p.r.seg = t.r.seg /\ p.r.fl = t.r.fl
  BY <1>p, QuietKept, QuietRegs, MovesCpu
<1>2. ~protected_mode(p.r) /\ RegsOk(p.r)
  BY <1>1 DEF Kept, protected_mode
<1>3. j = z /\ Ok(a)
  BY <1>0, <1>j DEF SetFlags
<1>4. IsCpu(a) /\ Kept(p.r, a.r) /\ a.r.fl = p.r.fl
  BY <1>1, <1>2, <1>3, FarRealKept
<1> HIDE DEF a
<1>5. Kept(a.r, z.r)
  BY <1>1, <1>4, <1>f, FlagsKept DEF Kept
<1> QED BY <1>1, <1>3, <1>4, <1>5, KeptTrans DEF j

LEMMA IretProtectedGuarded ==
    ASSUME SoundMachine(c), NEW t, IsCpu(t), RegsOk(t.r), protected_mode(t.r), Ok(IretProtected(t))
    PROVE  Kept(t.r, IretProtected(t).r) \/ Outward(t.r, IretProtected(t).r)
<1> DEFINE level == cpl(t.r)
           k0 == IF t.m64 THEN 3 ELSE 0
           n == IF t.m64 THEN 5 ELSE 3
           p == PopAll(t, t.osize, n)
           sel == p.v[2] % W16
           ip == p.v[1]
           k == Rpl(sel)
           outer == k > level
           a == ReturnTarget(p, sel, ip)
           q == IF outer /\ ~t.m64 THEN PopAll(a, t.osize, 2) ELSE a
           b == load_cs(q, sel, Desc(sel), k)
           l == IF outer \/ t.m64 THEN load_outer_ss(b, q.v[k0 + 2] % W16, q.v[k0 + 1], k) ELSE b
           w == SetRip(l, ip)
           fl == LoadFlags(t.r.fl, p.v[3], iret_flag_mask(t, level))
           f == SetFlags(w, fl)
           z == IF outer THEN validate_data_segs(f, k) ELSE f
           j == IretProtected(t)
<1>0. j = IF ~Ok(p) THEN p ELSE IF ~Ok(a) THEN a ELSE IF Ok(q) THEN z ELSE q
  BY ZenonT(60) DEF IretProtected
<1> HIDE DEF j
<1>j. Ok(j)
  BY DEF j
<1>f. "VM" \in fl <=> "VM" \in t.r.fl
  BY VmMasked, VmStays
<1>p. Moves({}, t, p)
  BY MovesRefl, PopAllStep
<1>v. c.pe /\ "VM" \notin t.r.fl
  BY DEF protected_mode
<1> HIDE DEF p, sel, ip, k, fl, n, k0
<1>1. IsCpu(p) /\ Kept(t.r, p.r) /\ p.r.seg = t.r.seg /\ p.r.fl = t.r.fl
  BY <1>p, QuietKept, QuietRegs, MovesCpu
<1>2. /\ Met(p, a)
      /\ Ok(a) => /\ Known(sel) /\ Desc(sel).kind = "code" /\ k >= cpl(p.r)
                  /\ Desc(sel).conf \/ Desc(sel).dpl = k
  BY <1>1, ReturnMet DEF k
<1> HIDE DEF a
<1>3. Ok(a) /\ a = p /\ Ok(q) /\ j = z
  BY <1>0, <1>j, <1>2 DEF Met
<1>4. Known(sel) /\ Desc(sel).kind = "code" /\ k >= level /\ Desc(sel).dpl = k /\ k \in 0 .. 3
  <2>1. Known(sel) /\ Desc(sel).kind = "code" /\ k >= level /\ Desc(sel).dpl = k
    BY <1>1, <1>2, <1>3, CodeSound DEF Kept
  <2>2. IsSegment(Desc(sel))
    BY <2>1, CodeSound
  <2> QED BY <2>1, <2>2 DEF IsSegment
<1>5. IsCpu(q) /\ q.r.seg = t.r.seg /\ q.r.fl = t.r.fl
  <2>1. Moves({}, p, q)
    BY <1>1, <1>3, MovesRefl, PopAllStep
  <2> HIDE DEF q
  <2> QED BY <1>1, <2>1, QuietRegs, MovesCpu
<1> HIDE DEF q
<1>6. CodeLoaded(q, b, k)
  BY <1>3, <1>4, <1>5, LoadCsValue
<1> HIDE DEF b
<1>l. level \in 0 .. 3
  BY CplRange DEF RegsOk
<1> DEFINE o == load_outer_ss(b, q.v[k0 + 2] % W16, q.v[k0 + 1], k)
<1>7. Ok(f) /\ Ok(l)
  <2>1. Ok(f)
    BY Zenon, <1>3, <1>j DEF validate_data_segs
  <2> QED BY Zenon, <2>1 DEF SetFlags, SetRip
<1>8. outer \/ t.m64 => OuterStack(b, l, k)
  <2>1. IsCpu(b)
    BY <1>6 DEF CodeLoaded
  <2> SUFFICES ASSUME outer \/ t.m64 PROVE OuterStack(b, o, k)
    OBVIOUS
  <2>2. Ok(o)
    BY <1>7
  <2> QED BY <2>1, <2>2, OuterSsValue
<1>9. ~(outer \/ t.m64) => l = b
  BY Zenon
<1>10. IsCpu(l)
  BY Zenon, <1>6, <1>8, <1>9 DEF CodeLoaded, OuterStack
<1> HIDE DEF l, o
<1>11. IsCpu(w) /\ Ok(w) /\ w.r.seg = l.r.seg
  BY <1>7, <1>10, RipValue
<1> HIDE DEF w
<1>12. IsCpu(f) /\ f.r.seg = l.r.seg /\ f.r.fl = fl
  BY <1>11, FlagsValue
<1> HIDE DEF f
<1>13. ASSUME outer PROVE Outward(t.r, z.r)
  <2>1. OuterStack(b, l, k) /\ z = validate_data_segs(f, k)
    BY <1>8, <1>13
  <2>2. \A i \in DataSegs : {"sel", "d"} \subseteq DOMAIN f.r.seg[i] /\ IsSegment(f.r.seg[i].d)
    BY <1>5, <1>6, <1>12, <2>1, DataStay
  <2>3. Validated(f, z, k)
    BY <1>3, <1>4, <1>j, <1>12, <2>1, <2>2, ValidateValue
  <2>4. "VM" \notin f.r.fl /\ k > cpl(t.r)
    BY <1>f, <1>v, <1>12, <1>13
  <2> HIDE DEF z
  <2> QED BY <1>v, <1>4, <1>5, <1>6, <1>12, <2>1, <2>3, <2>4, LeaveLevel
<1>14. ASSUME ~outer PROVE Kept(t.r, z.r)
  <2>1. k = level /\ z = f
    BY <1>4, <1>l, <1>14
  <2> HIDE DEF level
  <2>2. /\ f.r.seg["CS"] = b.r.seg["CS"] /\ "VM" \notin f.r.fl
        /\ \A i \in DataSegs : f.r.seg[i] = t.r.seg[i]
        /\ {"sel", "d"} \subseteq DOMAIN f.r.seg["CS"] /\ IsSegment(f.r.seg["CS"].d)
        /\ f.r.seg["CS"].d.dpl = level
    BY <1>f, <1>v, <1>5, <1>6, <1>8, <1>9, <1>12, <2>1 DEF OuterStack, CodeLoaded, SegNames, DataSegs
  <2>3. /\ {"sel", "d"} \subseteq DOMAIN f.r.seg["SS"] /\ IsSegment(f.r.seg["SS"].d)
        /\ IF f.r.seg["SS"].d.p THEN f.r.seg["SS"].d.dpl = level ELSE c.long /\ level # 3
    <3>1. CASE t.m64
      BY <1>8, <1>12, <2>1, <3>1 DEF OuterStack
    <3>2. CASE ~t.m64
      <4>1. f.r.seg["SS"] = t.r.seg["SS"]
        BY <1>5, <1>6, <1>9, <1>12, <1>14, <3>2 DEF CodeLoaded, SegNames
      <4>2. level = t.r.seg["CS"].d.dpl
        BY <1>v DEF level, cpl, protected_mode
      <4> QED BY <1>v, <4>1, <4>2 DEF RegsOk, SegsOk, StackSegOk, SegNames
    <3> QED BY <3>1, <3>2
  <2>4. SegsOk(f.r)
    BY <2>2, <2>3 DEF RegsOk, SegsOk, SegNames
  <2>5. StackSegOk(f.r) /\ cpl(f.r) = level
    BY <1>v, <2>2, <2>3 DEF StackSegOk, cpl, protected_mode
  <2> QED BY <2>1, <2>4, <2>5 DEF Kept, RegsOk, level
<1> HIDE DEF z
<1> QED BY <1>3, <1>13, <1>14 DEF j

LEMMA V86Outward ==
    ASSUME NEW a, cpl(a) = 0, NEW t, IsCpu(t), NEW ip, NEW cs, NEW fl, "VM" \in FromImage(fl),
           Ok(iret_to_v86(t, ip, cs, fl))
    PROVE  Outward(a, iret_to_v86(t, ip, cs, fl).r)
<1> DEFINE Seg(y) == [sel |-> y % W16, d |-> V86Seg(y % W16)]
           q == PopAll(prepare_cold_write(t), 2, 6)
           f == FromImage(fl)
           g == [CS |-> Seg(cs), SS |-> Seg(q.v[2]), ES |-> Seg(q.v[3]),
                 DS |-> Seg(q.v[4]), FS |-> Seg(q.v[5]), GS |-> Seg(q.v[6])]
           rr == [q.r EXCEPT !.fl = f, !.rip = ip % W16, !.rsp = q.v[1], !.seg = g]
           z == [q EXCEPT !.r = rr]
           j == iret_to_v86(t, ip, cs, fl)
<1>0. j = IF ~Ok(q) THEN q ELSE z
  BY Zenon DEF iret_to_v86
<1> HIDE DEF j
<1>j. Ok(j)
  BY DEF j
<1>v. "VM" \in f
  OBVIOUS
<1>1. Moves({}, t, q)
  BY MovesRefl, ColdStep, PopAllStep
<1> HIDE DEF q, f
<1>2. IsCpu(q)
  BY <1>1, MovesCpu
<1>3. \A y : {"sel", "d"} \subseteq DOMAIN Seg(y) /\ Seg(y).d = V86Seg(y % W16)
  OBVIOUS
<1> HIDE DEF Seg
<1>4. \A i \in SegNames : \E y : g[i] = Seg(y)
  BY DEF SegNames, DataSegs
<1> HIDE DEF g
<1>5. rr.seg = g /\ rr.fl = f
  BY <1>2 DEF IsCpu, IsRegs, RegNames
<1> HIDE DEF rr
<1>6. z.r = rr
  BY <1>2 DEF IsCpu, CpuNames
<1> HIDE DEF z
<1>7. \A i \in SegNames : /\ {"sel", "d"} \subseteq DOMAIN g[i] /\ IsSegment(g[i].d)
                          /\ g[i].d.p /\ g[i].d.dpl = 3
  BY <1>3, <1>4, V86Sound
<1>8. cpl(z.r) = 3
  BY <1>v, <1>5, <1>6 DEF cpl
<1>r. z.r.seg = g /\ "VM" \in z.r.fl
  BY <1>v, <1>5, <1>6
<1>s. RegsOk(z.r)
  BY <1>r, <1>7 DEF RegsOk, SegsOk, StackSegOk
<1>d. \A i \in DataSegs : z.r.seg[i].d.dpl = 3
  <2>1. \A i \in DataSegs : i \in SegNames
    BY DEF SegNames
  <2> QED BY <1>r, <1>7, <2>1
<1>9. Outward(a, z.r)
  BY <1>8, <1>s, <1>d DEF Outward
<1> QED BY <1>0, <1>j, <1>9 DEF j

LEMMA IretGuarded ==
    ASSUME SoundMachine(c), NEW t, IsCpu(t), RegsOk(t.r), Ok(iret(t))
    PROVE  Kept(t.r, iret(t).r) \/ Outward(t.r, iret(t).r)
<1> DEFINE p == PopAll(t, t.osize, 3)
           k1 == ~c.pe \/ ("VM" \in t.r.fl /\ Iopl(t.r.fl) = 3)
           k2 == "VM" \in t.r.fl \/ ("NT" \in t.r.fl /\ ~c.long)
           k3 == ~c.long /\ t.osize = 2 /\ "VM" \in FromImage(p.v[3]) /\ cpl(t.r) = 0
           y0 == IretReal(t)
           y1 == Need(t, FALSE, Gp(0))
           y2 == iret_to_v86(p, p.v[1], p.v[2], p.v[3])
           y3 == IretProtected(t)
           j == iret(t)
<1>0. j = IF k1 THEN y0 ELSE IF k2 THEN y1
          ELSE IF ~Ok(p) THEN p ELSE IF k3 THEN y2 ELSE y3
  BY Zenon DEF iret
<1> HIDE DEF j
<1>j. Ok(j)
  BY DEF j
<1>1. ASSUME k1 PROVE Kept(t.r, j.r)
  <2>1. ~protected_mode(t.r)
    BY <1>1 DEF protected_mode
  <2>2. j = y0
    BY <1>0, <1>1
  <2> QED BY <1>j, <2>1, <2>2, IretRealKept
<1>2. ASSUME ~k1 PROVE Kept(t.r, j.r) \/ Outward(t.r, j.r)
  <2>1. ~Ok(y1)
    <3>1. Ok(y1) => FALSE
      BY MetSelf, MetNeed DEF Gp
    <3> QED BY <3>1
  <2>2. ~k2 /\ Ok(p) /\ j = IF k3 THEN y2 ELSE y3
    BY <1>0, <1>2, <1>j, <2>1
  <2>3. protected_mode(t.r)
    BY <1>2, <2>2 DEF protected_mode
  <2>4. IsCpu(p)
    BY MovesRefl, PopAllStep, MovesCpu
  <2> HIDE DEF p
  <2>5. ASSUME k3 PROVE Outward(t.r, j.r)
    BY <1>j, <2>2, <2>4, <2>5, V86Outward
  <2>6. ASSUME ~k3 PROVE Kept(t.r, j.r) \/ Outward(t.r, j.r)
    BY <1>j, <2>2, <2>3, <2>6, IretProtectedGuarded
  <2> QED BY <2>5, <2>6
<1> QED BY <1>1, <1>2 DEF j

-----------------------------------------------------------------------------
(* The fast system calls.                                                  *)

FlatOk(x, sel, k) ==
    /\ {"sel", "d"} \subseteq DOMAIN x /\ IsSegment(x.d) /\ x.d.p /\ x.d.dpl = k /\ x.sel = sel

LEMMA FlatSound ==
    ASSUME NEW sel, NEW kind, NEW k \in 0 .. 3, NEW l, NEW db
    PROVE  FlatOk(Flat(sel, kind, k, l, db), sel, k)
BY DEF FlatOk, Flat, Segment, IsSegment, SegFields, Conforming

(* Code and stack segments of level k loaded at once.                      *)
LEMMA FastSound ==
    ASSUME NEW a, RegsOk(a), NEW k \in 0 .. 3, NEW x, NEW y, NEW b, NEW i, NEW j,
           FlatOk(x, i, k), FlatOk(y, j, k),
           b.seg["CS"] = x, b.seg["SS"] = y, \A n \in DataSegs : b.seg[n] = a.seg[n]
    PROVE  /\ RegsOk(b)
           /\ c.pe /\ "VM" \notin b.fl => cpl(b) = k
<1>1. SegsOk(b)
  BY DEF SegsOk, RegsOk, SegNames, FlatOk
<1>2. StackSegOk(b)
  BY DEF StackSegOk, FlatOk
<1> QED BY <1>1, <1>2 DEF RegsOk, cpl, protected_mode, FlatOk

(* Into the kernel at LSTAR.                                               *)
AtLstar(a, b) ==
    /\ RegsOk(b) /\ cpl(b) <= cpl(a)
    /\ b.rip = c.lstar /\ Sel(b, "CS") = Code(c.star.kernel)

LEMMA SyscallGuarded ==
    ASSUME SoundMachine(c), NEW t, IsCpu(t), RegsOk(t.r), t.m64 => c.long, Ok(syscall(t))
    PROVE  /\ syscall(t).ev = t.ev
           /\ Kept(t.r, syscall(t).r) \/ AtLstar(t.r, syscall(t).r)
<1> DEFINE k == t.m64 /\ c.sce
           a == Need(t, k, Ud)
           ra == Image(t.r.fl \ {"RF"})
           b == [a EXCEPT !.r.rcx = t.r.rip, !.r.r11 = ra]
           sel == Code(c.star.kernel)
           p == prepare_cold_write(b)
           cs == Flat(sel, "code", 0, TRUE, FALSE)
           ss == Flat(sel + 8, "data", 0, FALSE, TRUE)
           m == c.sfmask \cup {"RF"}
           f == p.r.fl \ m
           z == [p EXCEPT !.r.seg["CS"] = cs, !.r.seg["SS"] = ss, !.r.fl = f, !.r.rip = c.lstar]
           h == HostTrap(b, "Syscall")
           j == syscall(t)
<1>0. j = IF ~Ok(a) THEN a ELSE IF c.trap_syscall THEN h ELSE z
  <2>1. z = [p EXCEPT !.r.seg["CS"] = cs, !.r.seg["SS"] = ss, !.r.fl = @ \ m, !.r.rip = c.lstar]
    <3>1. IsCpu(p)
      <4>1. IsCpu(a)
        BY NeedMoves, MovesCpu
      <4> HIDE DEF a, ra
      <4>2. IsCpu(b)
        BY <4>1 DEF IsCpu, IsRegs, CpuNames, RegNames
      <4> QED BY <4>2, ColdKeeps
    <3> HIDE DEF p, cs, ss, m
    <3> QED BY <3>1 DEF IsCpu, IsRegs, CpuNames, RegNames
  <2> QED BY <2>1, Zenon DEF syscall
<1> HIDE DEF j, k
<1>j. Ok(j)
  BY DEF j
<1>1. Met(t, a) /\ (Ok(a) => k)
  BY MetSelf, MetNeed DEF Ud
<1> HIDE DEF a, ra
<1>2. a = t /\ k /\ j = IF c.trap_syscall THEN h ELSE z
  BY Zenon, <1>0, <1>j, <1>1 DEF Met
<1>3. IsCpu(b) /\ b.r.seg = t.r.seg /\ b.r.fl = t.r.fl /\ b.ev = t.ev
  BY Zenon, <1>2 DEF IsCpu, IsRegs, CpuNames, RegNames
<1> HIDE DEF b
<1>4. c.long /\ c.pe
  BY <1>2 DEF SoundMachine, k
<1>5. h.ev = t.ev /\ Kept(t.r, h.r)
  <2>1. h.r = b.r /\ h.ev = b.ev
    BY <1>3 DEF HostTrap, IsCpu, CpuNames
  <2> HIDE DEF h
  <2> QED BY <1>3, <2>1 DEF Kept, RegsOk, SegsOk, StackSegOk, cpl, protected_mode
<1>6. IsCpu(p) /\ p.r = b.r /\ p.ev = b.ev
  BY <1>3, ColdKeeps
<1> HIDE DEF p, m, h
<1>k. PICK k0 \in 0 .. 3 : k0 = 0
  OBVIOUS
<1>7. FlatOk(cs, sel, k0) /\ \E x : FlatOk(ss, x, k0)
  <2>1. \A x : FlatOk(Flat(x, "code", k0, TRUE, FALSE), x, k0) /\ FlatOk(Flat(x, "data", k0, FALSE, TRUE), x, k0)
    BY FlatSound
  <2> QED BY <1>k, <2>1
<1> HIDE DEF cs, ss, f
<1>8. /\ z.r.seg["CS"] = cs /\ z.r.seg["SS"] = ss /\ \A i \in DataSegs : z.r.seg[i] = p.r.seg[i]
      /\ z.r.fl = f /\ z.r.rip = c.lstar /\ z.ev = p.ev
  BY <1>6 DEF IsCpu, IsRegs, CpuNames, RegNames, SegNames, DataSegs
<1> HIDE DEF z
<1>9. \A i \in DataSegs : z.r.seg[i] = t.r.seg[i]
  BY <1>3, <1>6, <1>8
<1>10. RegsOk(z.r) /\ ("VM" \notin z.r.fl => cpl(z.r) = 0)
  BY <1>k, <1>4, <1>7, <1>8, <1>9, FastSound
<1>11. "VM" \in z.r.fl => "VM" \in t.r.fl
  BY <1>3, <1>6, <1>8 DEF f
<1>12. cpl(z.r) <= cpl(t.r)
  <2>1. CASE "VM" \in z.r.fl
    BY <1>11, <2>1 DEF cpl
  <2>2. CASE "VM" \notin z.r.fl
    <3>1. cpl(t.r) \in 0 .. 3 /\ cpl(z.r) = 0
      BY <1>10, <2>2, CplRange DEF RegsOk
    <3> QED BY <3>1
  <2> QED BY <2>1, <2>2
<1>13. AtLstar(t.r, z.r)
  BY <1>7, <1>8, <1>10, <1>12 DEF AtLstar, Sel, FlatOk
<1>14. z.ev = t.ev
  BY <1>3, <1>6, <1>8
<1> QED BY <1>2, <1>5, <1>13, <1>14 DEF j

LEMMA SysretGuarded ==
    ASSUME SoundMachine(c), NEW t, IsCpu(t), RegsOk(t.r), t.m64 => c.long, Ok(sysret(t))
    PROVE  /\ sysret(t).ev = t.ev
           /\ RegsOk(sysret(t).r) /\ cpl(sysret(t).r) = 3
<1> DEFINE base == c.star.user
           wide == t.osize = 4
           k1 == t.m64 /\ c.sce
           k2 == cpl(t.r) = 0
           k3 == wide => canonical(t.r.rcx)
           s1 == Need(t, k1, Ud)
           s2 == Need(s1, k2, Gp(0))
           a == Need(s2, k3, Gp(0))
           cs == IF wide THEN Flat(User(base + 16), "code", 3, TRUE, FALSE)
                 ELSE Flat(User(base), "code", 3, FALSE, TRUE)
           ss == Flat(User(base + 8), "data", 3, FALSE, TRUE)
           f == FromImage(t.r.r11) \ {"RF", "VM"}
           ip == IF wide THEN t.r.rcx ELSE t.r.rcx % W32
           p == prepare_cold_write(a)
           z == [p EXCEPT !.r.seg["CS"] = cs, !.r.seg["SS"] = ss, !.r.fl = f, !.r.rip = ip]
           j == sysret(t)
<1>0. j = IF ~Ok(a) THEN a ELSE z
  BY Zenon DEF sysret
<1> HIDE DEF j, k1, k2, k3
<1>j. Ok(j)
  BY DEF j
<1>1. Met(t, s1) /\ (Ok(s1) => k1)
  BY MetSelf, MetNeed DEF Ud
<1> HIDE DEF s1
<1>2. Met(t, s2) /\ (Ok(s2) => Ok(s1))
  BY <1>1, MetNeed DEF Gp
<1> HIDE DEF s2
<1>3. Met(t, a) /\ (Ok(a) => Ok(s2))
  BY <1>2, MetNeed DEF Gp
<1> HIDE DEF a
<1>4. a = t /\ k1 /\ j = z
  BY <1>0, <1>j, <1>1, <1>2, <1>3 DEF Met
<1>5. c.pe
  BY <1>4 DEF SoundMachine, k1
<1>6. IsCpu(p) /\ p.r = t.r /\ p.ev = t.ev
  BY <1>4, ColdKeeps
<1> HIDE DEF p
<1>k. PICK k0 \in 0 .. 3 : k0 = 3
  OBVIOUS
<1>7. (\E x : FlatOk(cs, x, k0)) /\ \E x : FlatOk(ss, x, k0)
  <2>1. \A x, l, db : FlatOk(Flat(x, "code", k0, l, db), x, k0) /\ FlatOk(Flat(x, "data", k0, l, db), x, k0)
    BY FlatSound
  <2> QED BY <1>k, <2>1
<1> HIDE DEF cs, ss, ip
<1>f. "VM" \notin f
  OBVIOUS
<1> HIDE DEF f
<1>8. /\ z.r.seg["CS"] = cs /\ z.r.seg["SS"] = ss /\ \A i \in DataSegs : z.r.seg[i] = p.r.seg[i]
      /\ z.r.fl = f /\ z.ev = p.ev
  BY <1>6 DEF IsCpu, IsRegs, CpuNames, RegNames, SegNames, DataSegs
<1> HIDE DEF z
<1>9. \A i \in DataSegs : z.r.seg[i] = t.r.seg[i]
  BY <1>6, <1>8
<1>10. RegsOk(z.r) /\ cpl(z.r) = 3
  BY <1>k, <1>5, <1>7, <1>8, <1>9, <1>f, FastSound
<1> QED BY <1>4, <1>6, <1>8, <1>10 DEF j

-----------------------------------------------------------------------------
(* Events.  Delivered, one leaves the level or enters an inner one at its  *)
(* own gate, which INT n may use.                                          *)

Caller(a, class) == IF class = "SoftInt" THEN cpl(a) ELSE 0
Delivers(a, vector, class, b) ==
    \/ Kept(a, b)
    \/ Inward({c.idt[vector]}, Caller(a, class), b) /\ cpl(b) < cpl(a)

IsCode(q) == IsSeq(q) /\ Len(q) \in 0 .. 1

LEMMA CodeAfter ==
    ASSUME NEW p, IsSeq(p), NEW q, IsCode(q)
    PROVE  Len(p \o q) \in Len(p) .. Len(p) + 1 /\ Len(p) \in Nat
<1>1. PICK V : p \in Seq(V)
  BY DEF IsSeq
<1>2. PICK W : q \in Seq(W)
  BY DEF IsCode, IsSeq
<1>3. p \in Seq(V \cup W) /\ q \in Seq(V \cup W)
  BY <1>1, <1>2
<1>4. Len(p \o q) = Len(p) + Len(q) /\ Len(p) \in Nat /\ Len(q) \in Nat
  BY <1>3, ConcatProperties, LenProperties
<1>5. PICK n \in Nat : n = Len(p)
  BY <1>4
<1>6. PICK m \in 0 .. 1 : m = Len(q)
  BY DEF IsCode
<1>7. n + m \in n .. n + 1
  BY <1>6
<1> QED BY <1>4, <1>5, <1>6, <1>7

(* What the checks of the gate have seen.                                  *)
Gated(t, g, class) ==
    LET gd == Desc(g.gsel)
    IN  /\ Ok(t) /\ Known(g.gsel) /\ gd.kind = "code" /\ ~gd.conf /\ g.gsel \in Int
        /\ c.long => gd.l
        /\ \/ gd.dpl = cpl(t.r)
           \/ gd.dpl < cpl(t.r) /\ gd.dpl \in 0 .. 2 /\ Open({g}, g, Caller(t.r, class))

LEMMA EventGate ==
    ASSUME SoundMachine(c), NEW t, IsCpu(t), RegsOk(t.r), NEW e, NEW class, Ok(IntGate(t, e, class))
    PROVE  /\ IntGate(t, e, class) = t /\ Gated(t, c.idt[e.vector], class)
           /\ c.idt[e.vector].ist \in {0} \cup DOMAIN c.tss.ist
<1> DEFINE g == c.idt[e.vector]
           gd == Desc(g.gsel)
<1>1. /\ Met(t, IntGate(t, e, class))
      /\ e.vector \in DOMAIN c.idt /\ g.p /\ (class = "SoftInt" => g.dpl >= cpl(t.r))
      /\ Known(g.gsel) /\ gd.kind = "code" /\ gd.dpl <= cpl(t.r)
      /\ c.long => gd.l
  BY IntGateMet
<1>2. IntGate(t, e, class) = t /\ Ok(t)
  BY <1>1 DEF Met
<1>3. g.gsel \in Int /\ g.dpl \in 0 .. 3 /\ g.ist \in {0} \cup DOMAIN c.tss.ist
  BY <1>1 DEF SoundMachine
<1>4. IsSegment(gd) /\ ~gd.conf
  BY <1>1, CodeSound
<1>5. gd.dpl \in 0 .. 3 /\ cpl(t.r) \in 0 .. 3
  BY <1>4, CplRange DEF IsSegment, RegsOk
<1>6. g.dpl >= Caller(t.r, class)
  BY <1>1, <1>3 DEF Caller
<1> HIDE DEF g
<1>7. gd.dpl < cpl(t.r) => gd.dpl \in 0 .. 2
  BY <1>5
<1>8. gd.dpl < cpl(t.r) => Open({g}, g, Caller(t.r, class))
  BY <1>1, <1>6, <1>7 DEF Open
<1>9. gd.dpl = cpl(t.r) \/ gd.dpl < cpl(t.r)
  BY <1>1, <1>5
<1>10. Gated(t, g, class)
  BY <1>1, <1>2, <1>3, <1>4, <1>7, <1>8, <1>9 DEF Gated
<1> QED BY <1>2, <1>3, <1>10 DEF g

LEMMA HandlerVm ==
    ASSUME NEW fl, NEW g
    PROVE  /\ "VM" \in HandlerFlags(fl, g) <=> "VM" \in fl
           /\ "VM" \notin HandlerFlags(fl, g) \ {"VM"}
BY DEF HandlerFlags

(* A handler of the level itself.                                          *)
LEMMA SameLevelEvent ==
    ASSUME SoundMachine(c), NEW t, IsCpu(t), RegsOk(t.r), NEW f, Moves({}, t, f), NEW g, Known(g.gsel),
           Desc(g.gsel).kind = "code", Desc(g.gsel).dpl = cpl(t.r), NEW level, NEW off, NEW fl,
           "VM" \in fl <=> "VM" \in t.r.fl, Ok(SetFlags(Enter(f, g.gsel, Desc(g.gsel), level, off), fl))
    PROVE  Kept(t.r, SetFlags(Enter(f, g.gsel, Desc(g.gsel), level, off), fl).r)
<1> DEFINE gd == Desc(g.gsel)
           w == Enter(f, g.gsel, gd, level, off)
           z == SetFlags(w, fl)
<1>1. IsCpu(f) /\ Kept(t.r, f.r) /\ f.r.fl = t.r.fl
  BY QuietKept, QuietRegs, MovesCpu
<1>2. Ok(w)
  BY DEF SetFlags
<1>3. Ok(f)
  <2>1. Moves({"CS"}, f, w)
    BY <1>1, MovesRefl, MovesMore, EnterStep
  <2> QED BY <1>2, <2>1 DEF Moves
<1>4. IsCpu(w) /\ w.r.fl = f.r.fl
  BY <1>1, <1>3, EnterValue
<1>5. RegsOk(f.r) /\ gd.dpl = cpl(f.r)
  BY <1>1 DEF Kept
<1>6. Kept(f.r, w.r)
  BY <1>1, <1>3, <1>5, EnterKept
<1> HIDE DEF w
<1>7. RegsOk(w.r) /\ ("VM" \in fl <=> "VM" \in w.r.fl)
  BY <1>1, <1>4, <1>6 DEF Kept
<1>8. Kept(w.r, z.r)
  BY <1>4, <1>7, FlagsKept
<1>9. Kept(t.r, z.r)
  BY <1>1, <1>6, <1>8, KeptTrans
<1> QED BY <1>9 DEF w

LEMMA LongGuarded ==
    ASSUME SoundMachine(c), c.long, NEW t, IsCpu(t), RegsOk(t.r), NEW e, IsCode(e.code), NEW class,
           Ok(interrupt_long(t, e, class))
    PROVE  Delivers(t.r, e.vector, class, interrupt_long(t, e, class).r)
<1> DEFINE g == c.idt[e.vector]
           gd == Desc(g.gsel)
           level == IF gd.conf THEN cpl(t.r) ELSE gd.dpl
           change == level < cpl(t.r)
           rsp == IF g.ist # 0 THEN c.tss.ist[g.ist] ELSE IF change THEN c.tss.sp[level] ELSE stack_ptr(t)
           vs == <<Sel(t.r, "SS"), stack_ptr(t), Image(t.r.fl), Sel(t.r, "CS"), t.r.rip>> \o e.code
           a == IntGate(t, e, class)
           b == IF g.ist # 0 THEN tss_ist(a, g.ist) ELSE IF change THEN tss_rsp(a, level) ELSE a
           n == IF change THEN set_null_ss(b, level) ELSE b
           f == push64_at(n, rsp - (rsp % 8), vs)
           w == Enter(f, g.gsel, gd, level, gate_off(g))
           fl == HandlerFlags(t.r.fl, g)
           z == SetFlags(w, fl)
           j == interrupt_long(t, e, class)
<1>0. j = IF ~Ok(a) THEN a ELSE z
  BY Zenon DEF interrupt_long
<1>v. Len(vs) \in 5 .. 6
  <2>0. Len(<<Sel(t.r, "SS"), stack_ptr(t), Image(t.r.fl), Sel(t.r, "CS"), t.r.rip>>) = 5
    OBVIOUS
  <2>1. PICK p : p = <<Sel(t.r, "SS"), stack_ptr(t), Image(t.r.fl), Sel(t.r, "CS"), t.r.rip>> /\ Len(p) = 5
    BY <2>0, Zenon
  <2>2. IsSeq(p)
    BY <2>1, TupleSeq
  <2>3. Len(p \o e.code) \in 5 .. 6
    BY <2>1, <2>2, CodeAfter
  <2> QED BY <2>1, <2>3
<1> HIDE DEF j, vs
<1>j. Ok(j)
  BY DEF j
<1>1. Ok(a) /\ j = z
  BY Zenon, <1>0, <1>j
<1>2. a = t /\ Gated(t, g, class) /\ g.ist \in {0} \cup DOMAIN c.tss.ist
  BY Zenon, <1>1, EventGate
<1> HIDE DEF a
<1>3. /\ level = gd.dpl /\ Known(g.gsel) /\ gd.kind = "code" /\ Ok(t)
      /\ ~change => gd.dpl = cpl(t.r)
      /\ change => gd.dpl \in 0 .. 2 /\ Open({g}, g, Caller(t.r, class))
  <2>0. cpl(t.r) \in 0 .. 3
    BY CplRange DEF RegsOk
  <2>1. ~gd.conf
    BY <1>2 DEF Gated
  <2>2. level = gd.dpl
    BY <2>1
  <2> HIDE DEF level, g, gd
  <2>3. /\ Known(g.gsel) /\ gd.kind = "code" /\ Ok(t)
        /\ \/ gd.dpl = cpl(t.r)
           \/ gd.dpl < cpl(t.r) /\ gd.dpl \in 0 .. 2 /\ Open({g}, g, Caller(t.r, class))
    BY <1>2 DEF Gated, gd
  <2> QED BY <2>0, <2>2, <2>3
<1>f. "VM" \in fl <=> "VM" \in t.r.fl
  BY HandlerVm
<1>b. Met(t, b)
  <2>1. Met(t, a)
    BY Zenon, <1>2, MetSelf
  <2> HIDE DEF change, level, g
  <2> QED BY <1>2, <2>1, TableMet
<1> HIDE DEF fl
<1>4. ASSUME ~change PROVE Kept(t.r, j.r)
  <2>1. Moves({}, t, b)
    BY <1>2, MovesRefl, TableStep
  <2>2. n = b
    BY <1>4
  <2> HIDE DEF b, n, rsp
  <2>3. Moves({}, t, f)
    BY <1>v, <2>1, <2>2, Push64Step
  <2> HIDE DEF f
  <2> QED BY Zenon, <1>1, <1>3, <1>4, <1>f, <1>j, <2>3, SameLevelEvent
<1>5. ASSUME change PROVE Delivers(t.r, e.vector, class, j.r)
  <2>n. n = set_null_ss(b, level)
    BY Zenon, <1>5
  <2> DEFINE sp == rsp - (rsp % 8)
  <2>r. rsp \in {InnerSp(gd.dpl)} \cup Range(c.tss.ist) /\ rsp \in Int
    <3>1. CASE g.ist # 0
      <4>1. g.ist \in DOMAIN c.tss.ist /\ rsp = c.tss.ist[g.ist]
        BY Zenon, <1>2, <3>1
      <4> QED BY Zenon, <4>1 DEF SoundMachine, Range
    <3>2. CASE g.ist = 0
      BY Zenon, <1>3, <1>5, <3>2 DEF SoundMachine, InnerSp
    <3> QED BY Zenon, <3>1, <3>2
  <2> HIDE DEF b, n, rsp
  <2>1. Moves({"SS"}, b, f)
    BY <1>b, <1>v, <2>n, MovesRefl, MovesMore, NullSsStep, Push64Step DEF Met
  <2> HIDE DEF f
  <2>2. IsCpu(f)
    BY Zenon, <2>1, MovesCpu
  <2>3. Ok(w)
    BY Zenon, <1>1, <1>j DEF SetFlags
  <2>4. Ok(f)
    <3>1. Moves({"CS"}, f, w)
      BY <2>2, MovesRefl, MovesMore, EnterStep
    <3> QED BY Zenon, <2>3, <3>1 DEF Moves
  <2>5. FlatFramed(t, f, level, sp, Len(vs))
    <3>1. f = push64_at(set_null_ss(b, level), sp, vs) /\ Len(vs) \in Nat
      BY <1>v, <2>n DEF f
    <3> HIDE DEF sp, level
    <3> QED BY <1>b, <2>4, <3>1, FlatFrame
  <2>6. /\ IsCpu(w)
        /\ w.r.seg["CS"] = Loaded(Code(g.gsel) + gd.dpl, Used(gd)) /\ w.r.rip = gate_off(g)
        /\ \A i \in SegNames \ {"CS"} : w.r.seg[i] = f.r.seg[i]
        /\ w.r.fl = f.r.fl /\ w.r.rsp = f.r.rsp
    <3> HIDE DEF level, g, gd
    <3> QED BY <1>3, <2>2, <2>4, EnterValue
  <2> HIDE DEF w
  <2>7. /\ z.r.seg = w.r.seg /\ z.r.fl = fl /\ z.r.rsp = w.r.rsp /\ z.r.rip = w.r.rip
    BY <2>3, <2>6, FlagsValue
  <2> HIDE DEF z
  <2>8. CASE "VM" \in t.r.fl
    <3>1. "VM" \in z.r.fl
      BY <1>f, <2>7, <2>8
    <3>2. cpl(z.r) = cpl(t.r) /\ StackSegOk(z.r)
      BY <2>8, <3>1 DEF cpl, StackSegOk
    <3>s. PICK y : y = Loaded(level, NullD)
      OBVIOUS
    <3>x. PICK x : x = Loaded(Code(g.gsel) + gd.dpl, Used(gd))
      OBVIOUS
    <3>3. IsSegment(Used(gd)) /\ IsSegment(NullD)
      BY <1>3, CodeSound, UsedDesc, NullDesc
    <3>4. {"sel", "d"} \subseteq DOMAIN x /\ IsSegment(x.d) /\ {"sel", "d"} \subseteq DOMAIN y /\ IsSegment(y.d)
      BY <3>s, <3>x, <3>3 DEF Loaded
    <3>5. z.r.seg["CS"] = x /\ z.r.seg["SS"] = y /\ \A i \in SegNames \ {"CS", "SS"} : z.r.seg[i] = t.r.seg[i]
      BY <2>5, <2>6, <2>7, <3>s, <3>x DEF FlatFramed, SegNames
    <3>6. SegsOk(z.r)
      BY <3>4, <3>5 DEF SegsOk, RegsOk
    <3>7. Kept(t.r, z.r)
      BY <3>2, <3>6 DEF Kept, RegsOk
    <3> QED BY <1>1, <3>7 DEF Delivers
  <2>9. CASE "VM" \notin t.r.fl
    <3>1. Through(g, f, z.r)
      BY <1>f, <2>6, <2>7, <2>9 DEF Through
    <3>2. PICK m : m = rsp % 8 /\ m \in 0 .. 7
      BY <2>r
    <3>3. PICK top : top = rsp /\ sp = top - m
      BY <3>2
    <3>4. PICK len \in 0 .. 6 : len = Len(vs)
      BY <1>v
    <3>5. FlatFramed(t, f, level, top - m, len)
      BY <2>5, <3>3, <3>4
    <3>g. top \in {InnerSp(gd.dpl)} \cup Range(c.tss.ist) /\ top \in Int
      BY <2>r, <3>3
    <3>o. Open({g}, g, Caller(t.r, class))
      BY <1>3, <1>5
    <3>i. gd.dpl < cpl(t.r)
      BY <1>3, <1>5
    <3> HIDE DEF level, change, g, sp
    <3>s. PICK gates : gates = {g}
      OBVIOUS
    <3>l. PICK low : low = Caller(t.r, class)
      OBVIOUS
    <3>p. Open(gates, g, low)
      BY <3>o, <3>s, <3>l
    <3> HIDE DEF gd
    <3>q. Inward(gates, low, z.r) /\ cpl(z.r) = gd.dpl
      BY ZenonT(60), <3>1, <3>2, <3>4, <3>5, <3>g, <3>p, FlatInward DEF gd
    <3>6. Inward({g}, Caller(t.r, class), z.r) /\ cpl(z.r) = gd.dpl
      BY <3>q, <3>s, <3>l
    <3>7. z.r = j.r /\ cpl(z.r) < cpl(t.r)
      BY <1>1, <3>6, <3>i
    <3> QED BY <3>6, <3>7 DEF Delivers, g
  <2> QED BY <2>8, <2>9
<1>6. Delivers(t.r, e.vector, class, j.r)
  BY <1>4, <1>5 DEF Delivers
<1> QED BY <1>6 DEF j

(* On the 32-bit stack of level k, a frame below the TSS's stack pointer.  *)
LegacyFramed(t, f, k) ==
    /\ IsCpu(f) /\ Ok(f) /\ f.r.fl = t.r.fl
    /\ {"sel", "d"} \subseteq DOMAIN f.r.seg["SS"] /\ IsSegment(f.r.seg["SS"].d)
    /\ f.r.seg["SS"].d.p /\ f.r.seg["SS"].d.dpl = k /\ f.r.seg["SS"].d.db
    /\ \A i \in SegNames \ {"SS"} : f.r.seg[i] = t.r.seg[i]
    /\ \E n \in 0 .. MaxFrame : f.r.rsp = (InnerSp(k) - n) % W32

LEMMA InnerSpInt ==
    ASSUME SoundMachine(c), NEW k \in 0 .. 2
    PROVE  InnerSp(k) \in Int
<1>1. W16 \in Nat \ {0} /\ c.tss.sp[k] \in Int
  BY Widths DEF SoundMachine
<1>2. c.tss.sp[k] % W16 \in Int
  BY <1>1
<1> QED BY <1>1, <1>2 DEF InnerSp

LEMMA FrameWords ==
    ASSUME NEW n, n \in {1, 2}, NEW len \in 0 .. 10
    PROVE  n * len \in 0 .. 70
<1>1. CASE n = 1
  BY <1>1
<1>2. CASE n = 2
  BY <1>2
<1> QED BY <1>1, <1>2

LEMMA LegacyFrame ==
    ASSUME SoundMachine(c), ~c.long, NEW k \in 0 .. 2, NEW t, NEW w, Switched(t, w, InnerSp(k), k),
           NEW g, NEW vs, Len(vs) \in 0 .. 10, Ok(PushAll(w, GateWidth(g), vs))
    PROVE  LegacyFramed(t, PushAll(w, GateWidth(g), vs), k)
<1> DEFINE n == GateWidth(g)
           f == PushAll(w, n, vs)
<1>1. n \in {1, 2}
  BY DEF GateWidth
<1>2. PICK len \in 0 .. 10 : len = Len(vs)
  OBVIOUS
<1>3. PICK sp \in Int : sp = InnerSp(k)
  BY InnerSpInt
<1>4. IsCpu(w) /\ Stack32(w) /\ w.r.rsp = sp % W32
  BY <1>3 DEF Switched
<1> HIDE DEF n
<1>5. Moves({}, w, f)
  BY <1>2, <1>4, MovesRefl, PushAllStep
<1>6. Ok(f)
  BY DEF n
<1>7. n \in Int /\ Len(vs) \in Nat
  BY <1>1, <1>2
<1>8. f.r.rsp = (sp - n * Len(vs)) % W32
  BY ZenonT(60), <1>4, <1>6, <1>7, PushAllValue
<1> HIDE DEF f
<1>9. IsCpu(f) /\ f.r.seg = w.r.seg /\ f.r.fl = w.r.fl
  BY <1>4, <1>5, QuietRegs, MovesCpu
<1>10. PICK m \in 0 .. MaxFrame : m = n * len
  BY <1>1, FrameWords DEF MaxFrame
<1>11. f.r.rsp = (InnerSp(k) - m) % W32
  BY <1>2, <1>3, <1>8, <1>10
<1>12. LegacyFramed(t, f, k)
  BY <1>6, <1>9, <1>11 DEF LegacyFramed, Switched, Stack32
<1> QED BY <1>12 DEF f, n

(* Code entered through gate g with the stack that is in f.                *)
Landed(g, f, b) ==
    /\ b.seg["CS"] = Loaded(Code(g.gsel) + Desc(g.gsel).dpl, Used(Desc(g.gsel)))
    /\ b.seg["SS"] = f.r.seg["SS"]
    /\ \A i \in DataSegs : {"sel", "d"} \subseteq DOMAIN b.seg[i] /\ IsSegment(b.seg[i].d)
    /\ b.rsp = f.r.rsp /\ b.rip = gate_off(g) /\ "VM" \notin b.fl

LEMMA LegacyInward ==
    ASSUME SoundMachine(c), c.pe, ~c.long, NEW gates, NEW g, NEW level, Open(gates, g, level),
           NEW t, NEW f, LegacyFramed(t, f, Desc(g.gsel).dpl), NEW b, Landed(g, f, b)
    PROVE  Inward(gates, level, b) /\ cpl(b) = Desc(g.gsel).dpl
<1> DEFINE k == Desc(g.gsel).dpl
<1>1. PICK n \in 0 .. MaxFrame : f.r.rsp = (InnerSp(k) - n) % W32
  BY DEF LegacyFramed
<1>2. \A i \in DataSegs \cup {"SS"} : {"sel", "d"} \subseteq DOMAIN b.seg[i] /\ IsSegment(b.seg[i].d)
  BY DEF Landed, LegacyFramed
<1>3. b.seg["SS"].d.p /\ b.seg["SS"].d.dpl = k /\ b.seg["SS"].d.db
  BY DEF Landed, LegacyFramed
<1>4. /\ g \in gates /\ g.p /\ g.dpl >= level /\ Known(g.gsel) /\ Desc(g.gsel).kind = "code"
      /\ Desc(g.gsel).dpl \in 0 .. 2
  BY DEF Open
<1>5. /\ b.seg["CS"] = Loaded(Code(g.gsel) + Desc(g.gsel).dpl, Used(Desc(g.gsel)))
      /\ b.rip = gate_off(g) /\ "VM" \notin b.fl
  BY DEF Landed
<1>6. b.rsp = (InnerSp(Desc(g.gsel).dpl) - n) % W32
  BY <1>1 DEF Landed
<1> QED BY <1>2, <1>3, <1>4, <1>5, <1>6, InwardLegacy

(* An inner stack for the handler, and its frame.                          *)
LEMMA EventFrame ==
    ASSUME NEW t, NEW outer, IsSeq(outer), Len(outer) \in 0 .. 2, NEW code, IsCode(code)
    PROVE  Len(outer \o <<Image(t.r.fl), Sel(t.r, "CS"), t.r.rip>> \o code) \in 0 .. 10
<1>1. PICK p : p = <<Image(t.r.fl), Sel(t.r, "CS"), t.r.rip>> /\ IsSeq(p) /\ Len(p) = 3
  <2>1. Len(<<Image(t.r.fl), Sel(t.r, "CS"), t.r.rip>>) = 3
    OBVIOUS
  <2> QED BY <2>1, TupleSeq, Zenon
<1>2. PICK V : outer \in Seq(V)
  BY DEF IsSeq
<1>3. PICK W : p \in Seq(W)
  BY <1>1 DEF IsSeq
<1>4. outer \in Seq(V \cup W) /\ p \in Seq(V \cup W)
  BY <1>2, <1>3
<1>5. PICK q : q = outer \o p
  OBVIOUS
<1>6. Len(q) = Len(outer) + Len(p) /\ IsSeq(q)
  <2>1. q \in Seq(V \cup W) /\ Len(q) = Len(outer) + Len(p)
    BY <1>4, <1>5, ConcatProperties
  <2> QED BY <2>1 DEF IsSeq
<1>7. Len(q \o code) \in Len(q) .. Len(q) + 1
  BY <1>6, CodeAfter
<1>8. Len(q) \in 0 .. 5
  <2>1. PICK l \in 0 .. 2 : l = Len(outer)
    OBVIOUS
  <2>2. l + 3 \in 0 .. 5
    OBVIOUS
  <2> QED BY <1>1, <1>6, <2>1, <2>2
<1>9. PICK m \in 0 .. 5 : m = Len(q)
  BY <1>8
<1>10. Len(q \o code) \in 0 .. 10
  BY <1>7, <1>9
<1> QED BY <1>1, <1>5, <1>10

(* Virtual-8086 mode: the data segments go, the handler is at level 0.     *)
LEMMA NulledValue ==
    ASSUME NEW t, IsCpu(t), Ok(t)
    PROVE  LET u == [t EXCEPT !.r.seg = [i \in DOMAIN @ |->
                       IF i \in DataSegs THEN [sel |-> 0, d |-> NullD] ELSE @[i]]]
           IN  /\ IsCpu(u) /\ Ok(u) /\ u.r.fl = t.r.fl /\ u.r.rsp = t.r.rsp
               /\ u.r.seg["SS"] = t.r.seg["SS"]
               /\ \A i \in DataSegs : {"sel", "d"} \subseteq DOMAIN u.r.seg[i] /\ IsSegment(u.r.seg[i].d)
<1> DEFINE nd == [sel |-> 0, d |-> NullD]
<1>0. {"sel", "d"} \subseteq DOMAIN nd /\ IsSegment(nd.d)
  BY NullDesc
<1> HIDE DEF nd
<1> DEFINE u == [t EXCEPT !.r.seg = [i \in DOMAIN @ |-> IF i \in DataSegs THEN nd ELSE @[i]]]
<1>1. IsCpu(u)
  BY DEF IsCpu, IsRegs, CpuNames, RegNames
<1>2. u.err = t.err
  BY DEF IsCpu, CpuNames
<1>3. u.r.fl = t.r.fl /\ u.r.rsp = t.r.rsp
  BY DEF IsCpu, IsRegs, CpuNames, RegNames
<1>4. u.r.seg["SS"] = t.r.seg["SS"] /\ \A i \in DataSegs : u.r.seg[i] = nd
  BY DEF IsCpu, IsRegs, CpuNames, RegNames, SegNames, DataSegs
<1> HIDE DEF u
<1>5. /\ IsCpu(u) /\ Ok(u) /\ u.r.fl = t.r.fl /\ u.r.rsp = t.r.rsp
      /\ u.r.seg["SS"] = t.r.seg["SS"]
      /\ \A i \in DataSegs : {"sel", "d"} \subseteq DOMAIN u.r.seg[i] /\ IsSegment(u.r.seg[i].d)
  BY <1>0, <1>1, <1>2, <1>3, <1>4 DEF Ok
<1> QED BY <1>5 DEF u, nd

LEMMA CodeSelector ==
    ASSUME NEW sel \in Int
    PROVE  Code(sel) + 0 = Code(sel)
BY DEF Code

LEMMA V86Words ==
    ASSUME NEW p, IsSeq(p), Len(p) = 9, NEW code, IsCode(code)
    PROVE  Len(p \o code) \in 0 .. 10
<1>1. Len(p \o code) \in Len(p) .. Len(p) + 1
  BY CodeAfter
<1> QED BY <1>1

LEMMA V86Guarded ==
    ASSUME SoundMachine(c), c.pe, ~c.long, NEW t, IsCpu(t), RegsOk(t.r), ~t.m64, "VM" \in t.r.fl,
           NEW e, IsCode(e.code), NEW g, NEW class, Gated(t, g, class),
           Ok(v86_interrupt(t, e, g, Desc(g.gsel), class))
    PROVE  /\ Inward({g}, Caller(t.r, class), v86_interrupt(t, e, g, Desc(g.gsel), class).r)
           /\ cpl(v86_interrupt(t, e, g, Desc(g.gsel), class).r) < cpl(t.r)
<1> DEFINE gd == Desc(g.gsel)
           k0 == gd.dpl = 0 /\ ~gd.conf
           a == Need(t, k0, Gp(Code(g.gsel) + Ext(class)))
           p == prepare_cold_write(a)
           x == tss_stack(p, 0)
           fl == HandlerFlags(t.r.fl, g) \ {"VM"}
           b == SetFlags(x, fl)
           w == switch_stack(b, c.tss.ss[0], InnerSp(0), 0)
           q == <<Sel(t.r, "GS"), Sel(t.r, "FS"), Sel(t.r, "DS"), Sel(t.r, "ES"), Sel(t.r, "SS"), stack_ptr(t),
                  Image(t.r.fl), Sel(t.r, "CS"), t.r.rip>>
           vs == q \o e.code
           f == PushAll(w, GateWidth(g), vs)
           n == [f EXCEPT !.r.seg = [i \in DOMAIN @ |->
                        IF i \in DataSegs THEN [sel |-> 0, d |-> NullD] ELSE @[i]]]
           k == commit_seg(n, "CS", Code(g.gsel), gd)
           z == SetRip(k, gate_off(g))
           j == v86_interrupt(t, e, g, gd, class)
<1>0. j = IF ~Ok(a) THEN a ELSE IF Ok(f) THEN z ELSE f
  BY Zenon DEF v86_interrupt, push_v86_frame
<1>v. Len(vs) \in 0 .. 10
  <2>1. Len(q) = 9
    OBVIOUS
  <2>2. IsSeq(q)
    <3> DEFINE V == {Sel(t.r, "GS"), Sel(t.r, "FS"), Sel(t.r, "DS"), Sel(t.r, "ES"), Sel(t.r, "SS"),
                     stack_ptr(t), Image(t.r.fl), Sel(t.r, "CS"), t.r.rip}
    <3>1. q \in Seq(V)
      OBVIOUS
    <3> QED BY <3>1 DEF IsSeq
  <2> HIDE DEF q
  <2> QED BY <2>1, <2>2, V86Words
<1> HIDE DEF j, q, vs, k0
<1>j. Ok(j)
  BY DEF j
<1>1. Met(t, a) /\ (Ok(a) => k0)
  BY MetSelf, MetNeed DEF Gp
<1> HIDE DEF a
<1>2. a = t /\ Ok(t) /\ Ok(f) /\ j = z /\ gd.dpl = 0
  BY Zenon, <1>0, <1>1, <1>j DEF Met, k0
<1>3. IsCpu(p) /\ p.r = t.r /\ p.m64 = t.m64
  BY <1>2, ColdKeeps
<1> HIDE DEF p
<1>4. Met(p, x)
  BY <1>3, TableMet
<1> HIDE DEF x, fl
<1>5. IsCpu(b) /\ (Ok(b) => Ok(x))
  <2>1. Moves({"FL"}, x, b)
    BY <1>4, MovesRefl, MovesMore, SetFlagsStep DEF Met
  <2> QED BY <2>1 DEF Moves
<1> HIDE DEF b
<1>6. Moves({"SS"}, b, w)
  BY <1>5, MovesRefl, MovesMore, SwitchStep
<1> HIDE DEF w
<1>7. Moves({}, w, f)
  BY <1>6, <1>v, MovesCpu, MovesRefl, PushAllStep
<1>8. Ok(w) /\ Ok(b) /\ Ok(x)
  BY <1>2, <1>5, <1>6, <1>7 DEF Moves
<1>9. x = p
  BY <1>4, <1>8 DEF Met
<1>10. b.r.seg = t.r.seg /\ b.r.fl = fl /\ ~b.m64
  <2>1. /\ SetFlags(x, fl).m64 = x.m64 /\ SetFlags(x, fl).r.seg = x.r.seg
        /\ SetFlags(x, fl).r.fl = fl
    BY <1>3, <1>8, <1>9, FlagsValue
  <2> QED BY <1>3, <1>9, <2>1 DEF b
<1>k. PICK k1 \in 0 .. 2 : k1 = 0
  OBVIOUS
<1>11. Switched(b, w, InnerSp(k1), k1)
  BY <1>5, <1>8, <1>10, <1>k, SwitchValue DEF w
<1>12. LegacyFramed(b, f, k1)
  BY <1>2, <1>11, <1>v, LegacyFrame
<1> HIDE DEF f
<1>13. IsCpu(f) /\ Ok(f) /\ f.r.fl = fl
  BY <1>10, <1>12 DEF LegacyFramed
<1>14. /\ IsCpu(n) /\ Ok(n) /\ n.r.fl = f.r.fl /\ n.r.rsp = f.r.rsp
       /\ n.r.seg["SS"] = f.r.seg["SS"]
       /\ \A i \in DataSegs : {"sel", "d"} \subseteq DOMAIN n.r.seg[i] /\ IsSegment(n.r.seg[i].d)
  BY <1>13, NulledValue
<1> HIDE DEF n
<1>15. OneSeg(n, k, "CS", Loaded(Code(g.gsel), Used(gd)))
  BY <1>14, CommitValue DEF SegNames
<1> HIDE DEF k
<1>16. /\ z.r.seg = k.r.seg /\ z.r.fl = k.r.fl /\ z.r.rsp = k.r.rsp /\ z.r.rip = gate_off(g)
  BY <1>15, RipValue DEF OneSeg
<1> HIDE DEF z
<1>17. Code(g.gsel) + gd.dpl = Code(g.gsel)
  BY <1>2, CodeSelector DEF Gated
<1>18. z.r.seg["CS"] = Loaded(Code(g.gsel) + gd.dpl, Used(gd))
  BY <1>15, <1>16, <1>17 DEF OneSeg
<1>19. z.r.seg["SS"] = f.r.seg["SS"] /\ \A i \in DataSegs : z.r.seg[i] = n.r.seg[i]
  BY <1>14, <1>15, <1>16 DEF OneSeg, SegNames, DataSegs
<1>20. z.r.rsp = f.r.rsp /\ z.r.rip = gate_off(g) /\ z.r.fl = fl
  BY <1>13, <1>14, <1>15, <1>16 DEF OneSeg
<1>21. Landed(g, f, z.r)
  BY <1>14, <1>18, <1>19, <1>20 DEF Landed, fl
<1>22. cpl(t.r) = 3
  BY DEF cpl
<1>23. Open({g}, g, Caller(t.r, class))
  BY <1>2, <1>22 DEF Gated
<1>24. k1 = Desc(g.gsel).dpl
  BY <1>2, <1>k
<1>25. Inward({g}, Caller(t.r, class), z.r) /\ cpl(z.r) = k1
  <2>1. PICK gates : gates = {g}
    OBVIOUS
  <2>2. PICK low : low = Caller(t.r, class)
    OBVIOUS
  <2>3. Open(gates, g, low) /\ LegacyFramed(b, f, Desc(g.gsel).dpl)
    BY <1>12, <1>23, <1>24, <2>1, <2>2
  <2> HIDE DEF gd
  <2>4. Inward(gates, low, z.r) /\ cpl(z.r) = Desc(g.gsel).dpl
    BY <1>21, <2>3, LegacyInward
  <2> QED BY <1>24, <2>1, <2>2, <2>4
<1> QED BY <1>2, <1>22, <1>25, <1>k DEF j

LEMMA LegacyGuarded ==
    ASSUME SoundMachine(c), c.pe, ~c.long, NEW t, IsCpu(t), RegsOk(t.r), ~t.m64, NEW e, IsCode(e.code),
           NEW class, Ok(interrupt_legacy(t, e, class))
    PROVE  Delivers(t.r, e.vector, class, interrupt_legacy(t, e, class).r)
<1> DEFINE g == c.idt[e.vector]
           gd == Desc(g.gsel)
           lv == gd.dpl
           a == IntGate(t, e, class)
           x == tss_stack(a, lv)
           w == switch_stack(x, c.tss.ss[lv], InnerSp(lv), lv)
           os == <<Sel(t.r, "SS"), stack_ptr(t)>>
           ivs == os \o <<Image(w.r.fl), Sel(w.r, "CS"), w.r.rip>> \o e.code
           f == push_int_frame(w, g, os, e.code)
           h == push_int_frame(a, g, <<>>, e.code)
           fl == HandlerFlags(t.r.fl, g)
           y == Enter(f, g.gsel, gd, lv, gate_off(g))
           z == SetFlags(y, fl)
           o == SetFlags(Enter(h, g.gsel, gd, cpl(t.r), gate_off(g)), fl)
           v == v86_interrupt(a, e, g, gd, class)
           j == interrupt_legacy(t, e, class)
<1>0. j = IF ~Ok(a) THEN a ELSE IF "VM" \in t.r.fl THEN v
          ELSE SetFlags(IF Inner(gd, cpl(t.r)) THEN y ELSE Enter(h, g.gsel, gd, cpl(t.r), gate_off(g)), fl)
  BY Zenon DEF interrupt_legacy
<1> HIDE DEF j
<1>j. Ok(j)
  BY Zenon DEF j
<1>1. Ok(a) /\ ("VM" \in t.r.fl => j = v)
      /\ ("VM" \notin t.r.fl => j = IF Inner(gd, cpl(t.r)) THEN z ELSE o)
  BY Zenon, <1>0, <1>j
<1>2. a = t /\ Gated(t, g, class)
  BY <1>1, EventGate
<1> HIDE DEF a
<1>3. Known(g.gsel) /\ gd.kind = "code" /\ ~gd.conf /\ Ok(t)
  BY <1>2 DEF Gated
<1>f. "VM" \in fl <=> "VM" \in t.r.fl
  BY HandlerVm
<1>4. CASE "VM" \in t.r.fl
  <2>1. Ok(v86_interrupt(t, e, g, Desc(g.gsel), class)) /\ v = v86_interrupt(t, e, g, Desc(g.gsel), class)
    BY <1>1, <1>2, <1>4, <1>j
  <2>2. j = v
    BY <1>1, <1>4
  <2> HIDE DEF v, g
  <2>3. /\ Inward({g}, Caller(t.r, class), v.r) /\ cpl(v.r) < cpl(t.r)
    BY <1>2, <1>4, <2>1, V86Guarded
  <2> QED BY <2>2, <2>3 DEF Delivers, g, j
<1> HIDE DEF v
<1>c. cpl(t.r) \in 0 .. 3
  BY CplRange DEF RegsOk
<1>5. CASE "VM" \notin t.r.fl /\ ~Inner(gd, cpl(t.r))
  <2>1. j = o
    BY <1>1, <1>5
  <2>2. gd.dpl = cpl(t.r)
    <3>1. gd.dpl = cpl(t.r) \/ gd.dpl < cpl(t.r)
      BY <1>2 DEF Gated
    <3> QED BY <1>3, <1>5, <3>1 DEF Inner
  <2>3. Moves({}, t, h)
    <3>1. Moves({}, t, t)
      BY MovesRefl
    <3> QED BY <1>2, <3>1, FrameStep, TupleSeq DEF IsCode
  <2> HIDE DEF h, fl, g
  <2>4. Kept(t.r, j.r)
    BY <1>3, <1>f, <1>j, <2>1, <2>2, <2>3, SameLevelEvent
  <2> QED BY <2>4 DEF Delivers, j
<1>6. CASE "VM" \notin t.r.fl /\ Inner(gd, cpl(t.r))
  <2>1. j = z
    BY <1>1, <1>6
  <2>2. lv \in 0 .. 2 /\ lv < cpl(t.r) /\ Open({g}, g, Caller(t.r, class))
    <3>1. lv < cpl(t.r)
      BY <1>6 DEF Inner
    <3>2. lv # cpl(t.r)
      BY <1>c, <3>1
    <3> QED BY <1>2, <3>1, <3>2 DEF Gated
  <2>n. f = PushAll(w, GateWidth(g), ivs)
    BY DEF push_int_frame
  <2>l. Len(ivs) \in 0 .. 10
    <3>1. Len(os) = 2
      OBVIOUS
    <3>2. IsSeq(os)
      BY TupleSeq
    <3>3. IsSeq(os) /\ Len(os) \in 0 .. 2
      BY <3>1, <3>2
    <3> HIDE DEF os, w
    <3> QED BY <3>3, EventFrame
  <2> HIDE DEF ivs
  <2>3. Met(t, x)
    BY <1>2, TableMet
  <2> HIDE DEF x, fl
  <2>4. Moves({"SS"}, x, w)
    BY <2>3, MovesRefl, MovesMore, SwitchStep DEF Met
  <2> HIDE DEF w
  <2>5. Moves({}, w, f)
    BY <2>4, <2>n, <2>l, MovesCpu, MovesRefl, PushAllStep
  <2> HIDE DEF f
  <2>6. IsCpu(f)
    BY Zenon, <2>5, MovesCpu
  <2>7. Ok(y)
    BY Zenon, <1>j, <2>1 DEF SetFlags
  <2>8. Ok(f) /\ Ok(w) /\ Ok(x)
    <3>1. Moves({"CS"}, f, y)
      BY <2>6, MovesRefl, MovesMore, EnterStep
    <3> QED BY Zenon, <2>4, <2>5, <2>7, <3>1 DEF Moves
  <2>9. x = t
    BY <2>3, <2>8 DEF Met
  <2>10. LegacyFramed(t, f, lv)
    <3> DEFINE ss == c.tss.ss[lv]
    <3>1. PICK k \in 0 .. 2 : k = lv
      BY <2>2
    <3>2. w = switch_stack(t, ss, InnerSp(k), k)
      BY <2>9, <3>1 DEF w
    <3> HIDE DEF ss
    <3>3. Switched(t, w, InnerSp(k), k)
      BY <2>8, <3>2, SwitchValue
    <3>4. LegacyFramed(t, f, k)
      BY <2>8, <2>l, <2>n, <3>3, LegacyFrame
    <3> QED BY <3>1, <3>4
  <2>11. /\ IsCpu(y)
         /\ y.r.seg["CS"] = Loaded(Code(g.gsel) + gd.dpl, Used(gd)) /\ y.r.rip = gate_off(g)
         /\ \A i \in SegNames \ {"CS"} : y.r.seg[i] = f.r.seg[i]
         /\ y.r.fl = f.r.fl /\ y.r.rsp = f.r.rsp
    <3> HIDE DEF g, gd
    <3> QED BY <2>6, <2>8, EnterValue
  <2> HIDE DEF y
  <2>12. /\ z.r.seg = y.r.seg /\ z.r.fl = fl /\ z.r.rsp = y.r.rsp /\ z.r.rip = y.r.rip
    BY <2>7, <2>11, FlagsValue
  <2> HIDE DEF z
  <2>13. \A i \in DataSegs : {"sel", "d"} \subseteq DOMAIN z.r.seg[i] /\ IsSegment(z.r.seg[i].d)
    <3>1. \A i \in DataSegs : z.r.seg[i] = t.r.seg[i] /\ i \in SegNames
      BY <2>10, <2>11, <2>12 DEF LegacyFramed, SegNames, DataSegs
    <3> QED BY <3>1 DEF RegsOk, SegsOk
  <2>14. Landed(g, f, z.r)
    <3>1. z.r.seg["SS"] = f.r.seg["SS"]
      BY <2>11, <2>12 DEF SegNames
    <3> QED BY <1>6, <1>f, <2>11, <2>12, <2>13, <3>1 DEF Landed
  <2>15. Inward({g}, Caller(t.r, class), z.r) /\ cpl(z.r) = lv
    <3>1. PICK gates : gates = {g}
      OBVIOUS
    <3>2. PICK low : low = Caller(t.r, class)
      OBVIOUS
    <3>3. Open(gates, g, low) /\ LegacyFramed(t, f, Desc(g.gsel).dpl)
      BY <2>2, <2>10, <3>1, <3>2
    <3> HIDE DEF gd, g
    <3>4. Inward(gates, low, z.r) /\ cpl(z.r) = Desc(g.gsel).dpl
      BY <2>14, <3>3, LegacyInward
    <3> QED BY <3>1, <3>2, <3>4 DEF gd
  <2>16. j.r = z.r
    BY <2>1
  <2> HIDE DEF lv
  <2> QED BY <2>2, <2>15, <2>16 DEF Delivers, j
<1>7. Delivers(t.r, e.vector, class, j.r)
  BY <1>4, <1>5, <1>6 DEF j
<1> QED BY <1>7 DEF j

(* The vector table of real mode: the attributes of CS stay.               *)
LEMMA RealGuarded ==
    ASSUME ~c.pe, NEW t, IsCpu(t), RegsOk(t.r), NEW vector, NEW class, Ok(interrupt_real(t, vector, class))
    PROVE  Kept(t.r, interrupt_real(t, vector, class).r)
<1> DEFINE g == c.idt[vector]
           p == prepare_cold_write(t)
           k0 == vector \in DOMAIN c.idt
           vs == <<Image(t.r.fl), Sel(t.r, "CS"), t.r.rip>>
           a == Need(p, k0, Gp(vector * 8 + 2 + Ext(class)))
           b == PushAll(a, 1, vs)
           q == RealSelector(b.r.seg["CS"], g.gsel)
           z == [b EXCEPT !.r.fl = @ \ {"IF", "TF"}, !.r.rip = g.goff,
                          !.r.seg["CS"] = RealSelector(@, g.gsel)]
<1>1. interrupt_real(t, vector, class) = IF ~Ok(b) THEN b ELSE z
  BY Zenon DEF interrupt_real
<1>2. IsCpu(p) /\ p.r = t.r
  BY ColdKeeps
<1>v. Len(vs) \in Nat
  BY TupleSeq, SeqLen
<1> HIDE DEF p, k0, g, vs
<1>3. IsCpu(a) /\ a.r = t.r
  BY <1>2, NeedMoves, MovesCpu, NeedRegs
<1> HIDE DEF a
<1>4. Moves({}, a, b)
  BY <1>3, <1>v, MovesRefl, PushAllStep
<1> HIDE DEF b
<1>5. IsCpu(b) /\ b.r.seg = t.r.seg /\ b.r.fl = t.r.fl
  BY <1>3, <1>4, QuietRegs, MovesCpu
<1>6. interrupt_real(t, vector, class) = z
  BY <1>1
<1>7. /\ z.r.seg["CS"] = q /\ z.r.fl = b.r.fl \ {"IF", "TF"}
      /\ \A i \in SegNames \ {"CS"} : z.r.seg[i] = b.r.seg[i]
  BY <1>5 DEF IsCpu, IsRegs, CpuNames, RegNames, SegNames
<1> HIDE DEF z
<1>8. {"sel", "d"} \subseteq DOMAIN q /\ IsSegment(q.d)
  <2>1. {"sel", "d"} \subseteq DOMAIN t.r.seg["CS"] /\ IsSegment(t.r.seg["CS"].d)
    BY DEF RegsOk, SegsOk, SegNames
  <2> DEFINE y == t.r.seg["CS"]
             d1 == [y.d EXCEPT !.base = g.gsel * 8]
  <2>2. IsSegment(d1)
    BY <2>1 DEF IsSegment, SegFields, Conforming
  <2>3. q.d = d1 /\ DOMAIN q = DOMAIN y
    <3>1. q = [y EXCEPT !.sel = g.gsel, !.d.base = g.gsel * 8]
      BY <1>5 DEF RealSelector
    <3> HIDE DEF q
    <3> QED BY <2>1, <3>1
  <2> HIDE DEF q, d1, y
  <2> QED BY <2>1, <2>2, <2>3 DEF y
<1> HIDE DEF q
<1>9. SegsOk(z.r) /\ StackSegOk(z.r)
  BY <1>5, <1>7, <1>8 DEF RegsOk, SegsOk, StackSegOk
<1>10. cpl(z.r) = cpl(t.r)
  BY <1>5, <1>7 DEF cpl, protected_mode
<1> QED BY <1>6, <1>9, <1>10 DEF Kept, RegsOk

LEMMA AttemptedGuarded ==
    ASSUME SoundMachine(c), NEW t, IsCpu(t), RegsOk(t.r), t.m64 => c.long, NEW e, IsCode(e.code), NEW class,
           Ok(Attempted(t, e, class))
    PROVE  Delivers(t.r, e.vector, class, Attempted(t, e, class).r)
<1>1. CASE ~c.pe
  <2>1. Attempted(t, e, class) = interrupt_real(t, e.vector, class)
    BY <1>1 DEF Attempted
  <2>2. Kept(t.r, interrupt_real(t, e.vector, class).r)
    BY <1>1, <2>1, RealGuarded
  <2> QED BY <2>1, <2>2 DEF Delivers
<1>2. CASE c.pe /\ c.long
  <2>1. Attempted(t, e, class) = interrupt_long(t, e, class)
    BY <1>2 DEF Attempted, interrupt_protected
  <2> QED BY <1>2, <2>1, LongGuarded
<1>3. CASE c.pe /\ ~c.long
  <2>1. Attempted(t, e, class) = interrupt_legacy(t, e, class)
    BY <1>3 DEF Attempted, interrupt_protected
  <2> QED BY <1>3, <2>1, LegacyGuarded
<1> QED BY <1>1, <1>2, <1>3

LEMMA RaiseGuarded ==
    ASSUME SoundMachine(c), NEW t, IsCpu(t), RegsOk(t.r), t.m64 => c.long, NEW e, IsCode(e.code), NEW class,
           Ok(raise(t, e, class))
    PROVE  Delivers(t.r, e.vector, class, raise(t, e, class).r)
<1> DEFINE a == Attempted(t, e, class)
           ev == [vector |-> e.vector, code |-> e.code, class |-> class]
           d == [a EXCEPT !.ev = ev]
           f == [a EXCEPT !.r = t.r]
<1>1. IsSeq(e.code)
  BY DEF IsCode
<1>2. IsCpu(a)
  BY <1>1, AttemptedStep, MovesCpu
<1>3. raise(t, e, class) = IF Ok(a) THEN d ELSE f
  BY DEF raise, Delivered
<1> HIDE DEF a, ev
<1>4. d.r = a.r /\ f.err = a.err
  BY <1>2 DEF IsCpu, CpuNames
<1> HIDE DEF d, f
<1>5. Ok(a) /\ raise(t, e, class) = d
  BY <1>3, <1>4 DEF Ok
<1>6. Delivers(t.r, e.vector, class, a.r)
  BY <1>5, AttemptedGuarded DEF a
<1> QED BY <1>4, <1>5, <1>6

LEMMA ExceptionCode ==
    ASSUME NEW err
    PROVE  IsCode(Exception(err).code)
<1>1. Len(<<err[2]>>) = 1 /\ Len(<<>>) = 0
  OBVIOUS
<1>2. IsSeq(<<err[2]>>) /\ IsSeq(<<>>)
  BY TupleSeq
<1>3. IsCode(<<err[2]>>) /\ IsCode(<<>>)
  BY <1>1, <1>2 DEF IsCode
<1> QED BY <1>3 DEF Exception

LEMMA DoubleCode == IsCode(<<0>>) /\ IsCode(<<>>)
<1>1. Len(<<0>>) = 1 /\ Len(<<>>) = 0
  OBVIOUS
<1>2. IsSeq(<<0>>) /\ IsSeq(<<>>)
  BY TupleSeq
<1> QED BY <1>1, <1>2 DEF IsCode

(* Where the event y delivered, if it did, has taken t.                    *)
Taken(t, y) == y.ev # NoEvent => Delivers(t.r, y.ev.vector, y.ev.class, y.r)

Guarding(t, y) ==
    /\ Delivering(t, y) /\ IsCode(y.e.code) /\ y.s.m64 = t.m64 /\ Taken(t, y.s)

LEMMA AttemptGuarded ==
    ASSUME SoundMachine(c), NEW t, RegsOk(t.r), t.m64 => c.long, NEW y, Guarding(t, y)
    PROVE  Guarding(t, Attempt(y))
<1>d. Delivering(t, y) /\ Delivering(t, Attempt(y))
  BY AttemptStep DEF Guarding
<1> SUFFICES ASSUME ~y.over, y.s.ev = NoEvent PROVE Guarding(t, Attempt(y))
  BY DEF Attempt
<1> DEFINE u == raise(y.s, y.e, y.class)
<1>0. Attempt(y) = Raised(y, u)
  BY DEF Attempt
<1>1. /\ IsCpu(y.s) /\ y.s.r = t.r /\ (y.s.m64 => c.long) /\ IsSeq(y.e.code)
      /\ y = [n \in {"s", "e", "class", "df", "over"} |-> y[n]]
  BY <1>d DEF Delivering, Guarding
<1>2. /\ IsCpu(u) /\ u.m64 = t.m64
      /\ Ok(u) => u.ev = [vector |-> y.e.vector, code |-> y.e.code, class |-> y.class]
  BY <1>1, RaiseStep DEF Guarding
<1>3. Ok(u) => Delivers(t.r, y.e.vector, y.class, u.r)
  BY <1>1, RaiseGuarded DEF Guarding
<1> HIDE DEF u
<1>4. ASSUME Ok(u) PROVE Guarding(t, Raised(y, u))
  <2> DEFINE z == [y EXCEPT !.s = u]
  <2>1. Raised(y, u) = z
    BY <1>4 DEF Raised
  <2>2. z.s = u /\ z.e = y.e
    BY <1>1
  <2> HIDE DEF z
  <2>3. Taken(t, u)
    BY <1>2, <1>3, <1>4 DEF Taken
  <2> QED BY <1>d, <1>0, <1>2, <2>1, <2>2, <2>3 DEF Guarding
<1>5. ASSUME ~Ok(u) PROVE Guarding(t, Raised(y, u))
  <2> DEFINE w == [u EXCEPT !.err = NoErr]
             df == is_double_fault(y.e.vector, y.class, u.err[1])
             e == IF df THEN [vector |-> 8, code |-> <<0>>] ELSE Exception(u.err)
             z == [s |-> w, class |-> "Fault", df |-> df, over |-> y.df, e |-> e]
  <2>1. Raised(y, u) = z
    BY <1>5, Zenon DEF Raised, Second
  <2>2. w.m64 = t.m64 /\ w.ev = u.ev
    BY <1>2 DEF IsCpu, CpuNames
  <2>3. IsCode(e.code)
    BY DoubleCode, ExceptionCode
  <2>e. u.ev = NoEvent
    <3>1. Moves({}, y.s, u)
      BY <1>1, <1>5, RaiseStep DEF u
    <3> QED BY <3>1 DEF Moves
  <2> HIDE DEF w, df, e
  <2>4. z.s = w /\ z.e = e
    OBVIOUS
  <2> HIDE DEF z
  <2>5. Taken(t, w)
    BY <2>2, <2>e DEF Taken
  <2> QED BY <1>d, <1>0, <2>1, <2>2, <2>3, <2>4, <2>5 DEF Guarding
<1> QED BY <1>0, <1>4, <1>5

LEMMA DeliverGuarded ==
    ASSUME SoundMachine(c), NEW t, IsCpu(t), Ok(t), RegsOk(t.r), t.m64 => c.long, NEW e, IsCode(e.code),
           NEW class, class # "none", t.ev = NoEvent
    PROVE  /\ Taken(t, deliver(t, e, class)) /\ deliver(t, e, class).m64 = t.m64
           /\ deliver(t, e, class).ev = NoEvent => deliver(t, e, class).r = t.r
<1> DEFINE b == [s |-> t, e |-> e, class |-> class, df |-> FALSE, over |-> FALSE]
<1>1. Guarding(t, b)
  <2>1. /\ b.s = t /\ b.e = e /\ b.class = class
        /\ b = [n \in {"s", "e", "class", "df", "over"} |-> b[n]]
    OBVIOUS
  <2> HIDE DEF b
  <2> QED BY <2>1 DEF Guarding, Delivering, Preserved, Taken, IsCode
<1> HIDE DEF b
<1> DEFINE a1 == Attempt(b)
           a2 == Attempt(a1)
           a3 == Attempt(a2)
           a4 == Attempt(a3)
           h == [k \in 0 .. 4 |-> IF k = 0 THEN b ELSE IF k = 1 THEN a1 ELSE IF k = 2 THEN a2
                                  ELSE IF k = 3 THEN a3 ELSE a4]
           f == CHOOSE f : f = [k \in 0 .. 4 |-> IF k = 0 THEN b ELSE Attempt(f[k - 1])]
<1>2. h = [k \in 0 .. 4 |-> IF k = 0 THEN b ELSE Attempt(h[k - 1])]
  OBVIOUS
<1>3. f = [k \in 0 .. 4 |-> IF k = 0 THEN b ELSE Attempt(f[k - 1])]
  BY <1>2
<1>4. deliver(t, e, class) = IF f[4].s.ev # NoEvent THEN f[4].s ELSE [f[4].s EXCEPT !.shutdown = TRUE]
  BY DEF deliver, b
<1> HIDE DEF f, h, a1, a2, a3, a4
<1>5. f[0] = b /\ f[1] = Attempt(f[0]) /\ f[2] = Attempt(f[1]) /\ f[3] = Attempt(f[2]) /\ f[4] = Attempt(f[3])
  BY <1>3
<1>6. Guarding(t, f[4])
  BY <1>1, <1>5, AttemptGuarded
<1> DEFINE u == f[4].s
           w == [u EXCEPT !.shutdown = TRUE]
<1>7. IsCpu(u) /\ Taken(t, u) /\ u.m64 = t.m64 /\ (u.ev = NoEvent => u.r = t.r)
  BY <1>6 DEF Guarding, Delivering
<1> HIDE DEF u
<1>8. w.ev = u.ev /\ w.r = u.r /\ w.m64 = u.m64
  BY <1>7 DEF IsCpu, IsRegs, CpuNames
<1> HIDE DEF w
<1>9. deliver(t, e, class) = IF u.ev # NoEvent THEN u ELSE w
  BY <1>4 DEF u, w
<1>10. Taken(t, w) /\ (w.ev = NoEvent => w.r = t.r)
  BY <1>7, <1>8 DEF Taken
<1> QED BY <1>7, <1>8, <1>9, <1>10

(* Software interrupts: to the host, or through a gate the code may use.   *)
LEMMA SoftwareIntGuarded ==
    ASSUME SoundMachine(c), NEW t, IsCpu(t), Ok(t), RegsOk(t.r), t.m64 => c.long, t.ev = NoEvent, NEW vector,
           Ok(software_int(t, vector))
    PROVE  \/ software_int(t, vector).r = t.r /\ software_int(t, vector).ev = NoEvent
           \/ /\ software_int(t, vector).ev # NoEvent
              /\ Taken(t, software_int(t, vector))
<1> DEFINE e == [vector |-> vector, code |-> <<>>]
           u == raise(t, e, "SoftInt")
           z == [t EXCEPT !.trap = "Syscall"]
           j == software_int(t, vector)
<1>1. j = IF c.syscall_int = vector THEN z ELSE u
  BY Zenon DEF software_int, HostTrap
<1>2. z.r = t.r /\ z.ev = t.ev
  BY DEF IsCpu, CpuNames
<1>3. e.code = <<>> /\ e.vector = vector
  OBVIOUS
<1>4. IsCode(e.code) /\ IsSeq(e.code)
  BY <1>3, DoubleCode DEF IsCode
<1> HIDE DEF e
<1>5. Ok(u) => u.ev = [vector |-> e.vector, code |-> e.code, class |-> "SoftInt"]
  BY <1>4, RaiseStep
<1>6. Ok(u) => Delivers(t.r, e.vector, "SoftInt", u.r)
  BY <1>4, RaiseGuarded
<1> HIDE DEF u, z
<1>7. NoEvent.class = "none"
  BY DEF NoEvent
<1>8. Ok(u) => u.ev # NoEvent /\ Taken(t, u)
  BY <1>5, <1>6, <1>7 DEF Taken
<1> HIDE DEF j
<1>j. Ok(j)
  BY DEF j
<1>9. \/ j.r = t.r /\ j.ev = NoEvent
      \/ j.ev # NoEvent /\ Taken(t, j)
  BY <1>1, <1>2, <1>8, <1>j
<1> QED BY <1>9 DEF j

LEMMA IntGuarded ==
    ASSUME SoundMachine(c), NEW t, IsCpu(t), Ok(t), RegsOk(t.r), t.m64 => c.long, t.ev = NoEvent, NEW vector,
           Ok(int_n(t, vector))
    PROVE  \/ int_n(t, vector).r = t.r /\ int_n(t, vector).ev = NoEvent
           \/ /\ int_n(t, vector).ev # NoEvent
              /\ Taken(t, int_n(t, vector))
<1> DEFINE k == "VM" \in t.r.fl => Iopl(t.r.fl) = 3
           a == Need(t, k, Gp(0))
<1>1. int_n(t, vector) = IF Ok(a) THEN software_int(a, vector) ELSE a
  BY Zenon DEF int_n
<1> HIDE DEF k
<1>2. Ok(a) => a = t
  BY NeedMet DEF Gp
<1> HIDE DEF a
<1>3. int_n(t, vector) = software_int(t, vector)
  BY <1>1, <1>2
<1> QED BY <1>3, SoftwareIntGuarded

-----------------------------------------------------------------------------
(* The doors between the levels.                                           *)

(* What PrivilegeGuarded asks of a step that made a of b and left x.       *)
Guard(a, b, x) ==
    /\ cpl(b) < cpl(a) => EntersInward(b, cpl(a), x)
    /\ cpl(b) > cpl(a) /\ x.kind # "sysret" => \A i \in DataSegs :
          b.seg[i].d.p => Conforming(b.seg[i].d) \/ b.seg[i].d.dpl >= cpl(b)
    /\ protected_mode(b) =>
          IF b.seg["SS"].d.p THEN b.seg["SS"].d.dpl = cpl(b) ELSE c.long /\ cpl(b) # 3

Door(a, b, x) ==
    /\ RegsOk(b)
    /\ \/ cpl(b) = cpl(a)
       \/ Outward(a, b)
       \/ cpl(b) < cpl(a) /\ EntersInward(b, cpl(a), x)
       \/ cpl(b) = 3 /\ x.kind = "sysret"

LEMMA DoorGuards ==
    ASSUME NEW a, RegsOk(a), NEW b, NEW x, Door(a, b, x)
    PROVE  Guard(a, b, x)
<1>1. cpl(a) \in 0 .. 3 /\ cpl(b) \in 0 .. 3
  BY CplRange DEF RegsOk, Door
<1>2. protected_mode(b) => IF b.seg["SS"].d.p THEN b.seg["SS"].d.dpl = cpl(b) ELSE c.long /\ cpl(b) # 3
  <2>1. protected_mode(b) => c.pe /\ "VM" \notin b.fl /\ cpl(b) = b.seg["CS"].d.dpl
    BY DEF protected_mode, cpl
  <2> QED BY <2>1 DEF Door, RegsOk, StackSegOk
<1>3. cpl(b) < cpl(a) => EntersInward(b, cpl(a), x)
  BY <1>1 DEF Door, Outward
<1>4. cpl(b) > cpl(a) /\ x.kind # "sysret" => Outward(a, b)
  BY <1>1 DEF Door
<1>5. Outward(a, b) => \A i \in DataSegs : b.seg[i].d.p => b.seg[i].d.dpl >= cpl(b)
  BY DEF Outward
<1> QED BY <1>2, <1>3, <1>4, <1>5 DEF Guard

(* An event's door, its frame's level being where it was raised.           *)
LEMMA EventDoor ==
    ASSUME NEW a, NEW a1, cpl(a1) = cpl(a), NEW ev, NEW b, Delivers(a1, ev.vector, ev.class, b),
           NEW x, x.kind = "event", x.ev = ev
    PROVE  Door(a, b, x)
<1>1. CASE Kept(a1, b)
  BY <1>1 DEF Kept, Door
<1>2. CASE Inward({c.idt[ev.vector]}, Caller(a1, ev.class), b) /\ cpl(b) < cpl(a1)
  <2>1. EntersByGate({c.idt[ev.vector]}, IF ev.class = "SoftInt" THEN cpl(a) ELSE 0, b)
    BY <1>2 DEF Inward, Caller
  <2>2. EntersInward(b, cpl(a), x)
    BY <2>1 DEF EntersInward
  <2> QED BY <1>2, <2>2 DEF Door, Inward
<1> QED BY <1>1, <1>2 DEF Delivers

LEMMA KeptDoor ==
    ASSUME NEW a, NEW b, Kept(a, b), NEW x
    PROVE  Door(a, b, x)
BY DEF Kept, Door

(* A fault goes back to the start of its instruction before it is          *)
(* delivered.                                                              *)
LEMMA RewindGuarded ==
    ASSUME SoundMachine(c), NEW t, IsCpu(t), RegsOk(t.r), NEW z, Starting(t, z), NEW u, Outcome(z, u), ~Ok(u)
    PROVE  /\ fault_epilogue(t, u).m64 => c.long
           /\ \/ fault_epilogue(t, u).r = t.r
              \/ /\ fault_epilogue(t, u).ev # NoEvent /\ fault_epilogue(t, u).trap = "none"
                 /\ Delivers(t.r, fault_epilogue(t, u).ev.vector, fault_epilogue(t, u).ev.class,
                             fault_epilogue(t, u).r)
<1>1. PICK w : /\ IsCpu(w) /\ Ok(w) /\ w.r = t.r /\ w.ev = NoEvent /\ w.trap = "none" /\ w.m64 = u.m64
               /\ fault_epilogue(t, u) = IF c.trap_faults THEN [w EXCEPT !.trap = "Exception"]
                                         ELSE deliver(w, Exception(u.err), "Fault")
  BY Rewound
<1> DEFINE h == [w EXCEPT !.trap = "Exception"]
           e == Exception(u.err)
           y == deliver(w, e, "Fault")
<1>2. h.r = t.r /\ h.m64 = w.m64
  BY <1>1 DEF IsCpu, CpuNames
<1>3. IsCode(e.code) /\ IsSeq(e.code)
  BY ExceptionCode DEF IsCode
<1>4. w.m64 => c.long
  BY <1>1 DEF Outcome, Starting
<1> HIDE DEF e
<1>5. y.trap = "none"
  BY <1>1, <1>3, DeliverStep
<1>6. Taken(w, y) /\ y.m64 = w.m64 /\ (y.ev = NoEvent => y.r = w.r)
  BY <1>1, <1>3, <1>4, DeliverGuarded
<1> HIDE DEF y, h
<1>7. fault_epilogue(t, u) = IF c.trap_faults THEN h ELSE y
  BY <1>1 DEF h, y, e
<1> QED BY <1>1, <1>2, <1>4, <1>5, <1>6, <1>7 DEF Taken

(* An instruction that began in z and ended in u without a fault.          *)
Done(z, u, call) ==
    \/ u.ev # NoEvent /\ Taken(z, u)
    \/ u.ev = NoEvent /\ Door(z.r, u.r, call)

LEMMA EndGuarded ==
    ASSUME TypeOK, SoundMachine(c), LevelsOk(c, s), NEW z, Starting(s, z), NEW u, Outcome(z, u),
           NEW call, Ok(u) => Done(z, u, call), step_fast(u, call)
    PROVE  /\ UNCHANGED c /\ LevelsOk(c, s')
           /\ Guard(s.r, s'.r, last')
<1> DEFINE y == IF Ok(u) THEN u ELSE fault_epilogue(s, u)
           q == Settled(y)
           x == Transfer(s, y, call)
<1>1. s' = q /\ last' = x /\ c' = c
  BY DEF step_fast
<1>2. IsCpu(y) /\ Ok(y)
  BY Rewinds DEF TypeOK, Outcome
<1>3. RegsOk(s.r) /\ IsCpu(s)
  BY LevelsAreRegs DEF TypeOK
<1>4. cpl(z.r) = cpl(s.r) /\ (z.m64 => c.long)
  BY DEF Starting, cpl, protected_mode
<1>5. Door(s.r, y.r, x) /\ (y.m64 => c.long)
  <2>1. CASE Ok(u)
    <3>1. y = u /\ u.trap # "Exception" /\ u.m64 = z.m64
      BY <2>1 DEF Outcome
    <3>2. CASE u.ev # NoEvent
      <4>1. x.kind = "event" /\ x.ev = u.ev
        BY <3>1, <3>2 DEF Transfer
      <4>2. Delivers(z.r, u.ev.vector, u.ev.class, u.r)
        BY <2>1, <3>2 DEF Done, Taken
      <4> HIDE DEF x, y
      <4> QED BY <1>4, <3>1, <4>1, <4>2, EventDoor
    <3>3. CASE u.ev = NoEvent
      <4>1. x = call
        BY <3>1, <3>3 DEF Transfer
      <4>2. Door(z.r, u.r, call)
        BY <2>1, <3>3 DEF Done
      <4> HIDE DEF x, y
      <4>3. Door(s.r, u.r, call)
        BY <1>4, <4>2 DEF Door, Outward
      <4> QED BY <1>4, <3>1, <4>1, <4>3
    <3> QED BY <3>2, <3>3
  <2>2. CASE ~Ok(u)
    <3> DEFINE f == fault_epilogue(s, u)
    <3>1. y = f
      BY <2>2
    <3>2. /\ f.m64 => c.long
          /\ \/ f.r = s.r
             \/ /\ f.ev # NoEvent /\ f.trap = "none"
                /\ Delivers(s.r, f.ev.vector, f.ev.class, f.r)
      BY <1>3, <2>2, RewindGuarded
    <3> HIDE DEF f
    <3>3. CASE f.r = s.r
      BY <1>3, <3>1, <3>2, <3>3 DEF Door
    <3>4. CASE f.ev # NoEvent /\ f.trap = "none" /\ Delivers(s.r, f.ev.vector, f.ev.class, f.r)
      <4>1. x.kind = "event" /\ x.ev = f.ev
        BY <3>1, <3>4 DEF Transfer
      <4> HIDE DEF x, y
      <4> QED BY <3>1, <3>2, <3>4, <4>1, EventDoor
    <3> QED BY <3>2, <3>3, <3>4
  <2> QED BY <2>1, <2>2
<1> HIDE DEF x, y
<1>6. q.r = y.r /\ q.m64 = y.m64
  BY <1>2 DEF Settled, IsCpu, CpuNames
<1> HIDE DEF q
<1>7. Guard(s.r, q.r, x)
  BY <1>3, <1>5, <1>6, DoorGuards
<1>8. LevelsOk(c, q)
  BY <1>5, <1>6, LevelsAreRegs DEF Door
<1> QED BY <1>1, <1>7, <1>8

LevelsInv == TypeOK /\ SoundMachine(c) /\ LevelsOk(c, s)

(* The instruction's start is at the level of the registers before it.     *)
Started(z) == IsCpu(z) /\ Ok(z) /\ RegsOk(z.r) /\ (z.m64 => c.long) /\ z.ev = NoEvent /\ Begun(z)

LEMMA InstructionGuarded ==
    ASSUME LevelsInv, Ready, NEW p, NEW u,
           Begun(exec_one(s, p)) /\ Ok(exec_one(s, p)) => Outcome(exec_one(s, p), u),
           NEW call,
           Started(exec_one(s, p)) /\ Ok(u) => Done(exec_one(s, p), u, call),
           step_fast(IF Ok(exec_one(s, p)) THEN u ELSE exec_one(s, p), call)
    PROVE  UNCHANGED c /\ LevelsOk(c, s') /\ Guard(s.r, s'.r, last')
<1> DEFINE z == exec_one(s, p)
           t == IF Ok(z) THEN u ELSE z
<1>1. Starting(s, z)
  BY ExecOne DEF LevelsInv, TypeOK, Ready
<1>2. step_fast(t, call)
  OBVIOUS
<1>3. Begun(z) /\ Ok(z) => Outcome(z, u)
  OBVIOUS
<1>4. Started(z) /\ Ok(u) => Done(z, u, call)
  OBVIOUS
<1> HIDE DEF z
<1>5. Outcome(z, t)
  BY <1>1, <1>3, BegunMoves, MovesOutcome DEF Starting
<1>6. RegsOk(s.r)
  BY LevelsAreRegs DEF LevelsInv
<1>7. RegsOk(z.r)
  BY <1>1, <1>6 DEF Starting, RegsOk, SegsOk, StackSegOk
<1>8. Ok(z) => Started(z)
  BY <1>1, <1>7 DEF Started, Starting, Begun
<1>9. Ok(t) => Done(z, t, call)
  BY <1>4, <1>8
<1> HIDE DEF t
<1> QED BY <1>1, <1>2, <1>5, <1>9, EndGuarded DEF LevelsInv

LEMMA BoundaryGuarded ==
    ASSUME LevelsInv, NEW e, IsCode(e.code), Boundary(e)
    PROVE  UNCHANGED c /\ LevelsOk(c, s') /\ Guard(s.r, s'.r, last')
<1> DEFINE t == [s EXCEPT !.ev = NoEvent]
           y == deliver(t, e, "External")
           w == Settled(y)
           q == [w EXCEPT !.inhibit = FALSE]
           x == IF y.ev = NoEvent THEN NoTransfer
                ELSE [kind |-> "event", ev |-> y.ev, pre |-> s.r, by |-> s.r,
                      exact |-> s.m64 = mode64(s.r)]
<1>1. s' = q /\ c' = c /\ last' = x
  BY DEF Boundary
<1>2. IsCpu(t) /\ Ok(t) /\ t.ev = NoEvent /\ t.r = s.r /\ t.m64 = s.m64
  BY DEF LevelsInv, TypeOK, IsCpu, IsRegs, CpuNames, Ok
<1>3. RegsOk(s.r) /\ (s.m64 => c.long)
  BY LevelsAreRegs DEF LevelsInv
<1>x. /\ y.ev # NoEvent => x.kind = "event" /\ x.ev = y.ev
  OBVIOUS
<1> HIDE DEF t, x
<1>4. IsCpu(y) /\ Ok(y)
  BY <1>2, DeliverStep DEF IsCode
<1>5. Taken(t, y) /\ y.m64 = t.m64 /\ (y.ev = NoEvent => y.r = t.r)
  BY <1>2, <1>3, DeliverGuarded DEF LevelsInv
<1> HIDE DEF y
<1>6. Door(s.r, y.r, x)
  <2>1. CASE y.ev = NoEvent
    BY <1>2, <1>3, <1>5, <2>1 DEF Door
  <2>2. CASE y.ev # NoEvent
    <3>1. Delivers(s.r, y.ev.vector, y.ev.class, y.r)
      BY <1>2, <1>5, <2>2 DEF Taken
    <3> QED BY <1>x, <2>2, <3>1, EventDoor
  <2> QED BY <2>1, <2>2
<1>7. IsCpu(w) /\ Ok(w) /\ w.r = y.r /\ w.m64 = y.m64
  BY <1>4 DEF Settled, IsCpu, IsRegs, CpuNames, Ok
<1> HIDE DEF w
<1>8. q.r = y.r /\ q.m64 = y.m64
  BY <1>7 DEF IsCpu, CpuNames
<1> HIDE DEF q
<1>9. Guard(s.r, q.r, x)
  BY <1>3, <1>6, <1>8, DoorGuards
<1>10. LevelsOk(c, q)
  BY <1>2, <1>3, <1>5, <1>6, <1>8, LevelsAreRegs DEF Door
<1> QED BY <1>1, <1>9, <1>10

(* Instructions that end in a transfer, each with its door.                *)
LEMMA KeptDone ==
    ASSUME NEW z, Started(z), NEW u, u.ev = NoEvent, Kept(z.r, u.r) \/ Outward(z.r, u.r), NEW call
    PROVE  Done(z, u, call)
BY DEF Done, Door, Kept, Outward

LEMMA MovesEv == ASSUME NEW S, NEW z, Started(z), NEW u, Moves(S, z, u) PROVE u.ev = NoEvent
BY DEF Moves, Started

LEMMA StartedMoves ==
    ASSUME NEW z, Started(z)
    PROVE  Moves(SegNames, z, z) /\ Moves({}, z, z)
BY BegunMoves, MovesRefl DEF Started

LEMMA JumpFarDone ==
    ASSUME SoundMachine(c), NEW z, Started(z), NEW sel, NEW off, Ok(jump_far(z, sel, off)), NEW call
    PROVE  Done(z, jump_far(z, sel, off), call)
<1>1. Moves(SegNames, z, jump_far(z, sel, off))
  BY StartedMoves, JumpFarStep DEF SegNames
<1>2. Kept(z.r, jump_far(z, sel, off).r)
  BY JumpFarKept DEF Started
<1>3. jump_far(z, sel, off).ev = NoEvent
  BY <1>1, MovesEv
<1> QED BY <1>2, <1>3, KeptDone

LEMMA CallFarDone ==
    ASSUME IsMachine(c), SoundMachine(c), NEW z, Started(z), NEW sel, NEW off, Ok(call_far(z, sel, off)),
           NEW call, call.kind = "call"
    PROVE  Done(z, call_far(z, sel, off), call)
<1> DEFINE u == call_far(z, sel, off)
<1>1. Moves(SegNames, z, u)
  BY StartedMoves, CallFarStep DEF SegNames
<1>2. u.ev = NoEvent
  BY <1>1, MovesEv
<1>3. Kept(z.r, u.r) \/ (Inward(CallGates, cpl(z.r), u.r) /\ cpl(u.r) < cpl(z.r))
  BY CallFarGuarded DEF Started
<1> HIDE DEF u
<1>4. ASSUME Kept(z.r, u.r) PROVE Done(z, u, call)
  BY <1>2, <1>4, KeptDone
<1>5. ASSUME Inward(CallGates, cpl(z.r), u.r), cpl(u.r) < cpl(z.r) PROVE Done(z, u, call)
  <2>1. RegsOk(u.r) /\ EntersByGate(CallGates, cpl(z.r), u.r)
    BY <1>5 DEF Inward
  <2>2. EntersInward(u.r, cpl(z.r), call)
    BY <2>1 DEF EntersInward
  <2> QED BY <1>2, <1>5, <2>1, <2>2 DEF Done, Door
<1> QED BY <1>3, <1>4, <1>5 DEF u

LEMMA RetfDone ==
    ASSUME SoundMachine(c), NEW z, Started(z), NEW n, Ok(retf(z, n)), NEW call
    PROVE  Done(z, retf(z, n), call)
<1>1. Moves(SegNames, z, retf(z, n))
  BY StartedMoves, RetfStep
<1>2. Kept(z.r, retf(z, n).r) \/ Outward(z.r, retf(z, n).r)
  BY RetfGuarded DEF Started
<1>3. retf(z, n).ev = NoEvent
  BY <1>1, MovesEv
<1> QED BY <1>2, <1>3, KeptDone

LEMMA IretDone ==
    ASSUME SoundMachine(c), NEW z, Started(z), Ok(iret(z)), NEW call
    PROVE  Done(z, iret(z), call)
<1>1. iret(z).ev = NoEvent
  BY IretOutcome DEF Started
<1>2. Kept(z.r, iret(z).r) \/ Outward(z.r, iret(z).r)
  BY IretGuarded DEF Started
<1> QED BY <1>1, <1>2, KeptDone

LEMMA IntDone ==
    ASSUME SoundMachine(c), NEW z, Started(z), NEW v, NEW call
    PROVE  /\ Ok(int_n(z, v)) => Done(z, int_n(z, v), call)
           /\ Ok(software_int(z, v)) => Done(z, software_int(z, v), call)
<1>1. RegsOk(z.r)
  BY DEF Started
<1>2. \A u : u.r = z.r /\ u.ev = NoEvent => Done(z, u, call)
  BY <1>1 DEF Done, Door
<1>3. \A u : u.ev # NoEvent /\ Taken(z, u) => Done(z, u, call)
  BY DEF Done
<1>4. ASSUME Ok(int_n(z, v)) PROVE Done(z, int_n(z, v), call)
  BY <1>2, <1>3, <1>4, IntGuarded DEF Started
<1>5. ASSUME Ok(software_int(z, v)) PROVE Done(z, software_int(z, v), call)
  BY <1>2, <1>3, <1>5, SoftwareIntGuarded DEF Started
<1> QED BY <1>4, <1>5

LEMMA SyscallDone ==
    ASSUME SoundMachine(c), NEW z, Started(z), Ok(syscall(z)), NEW call, call.kind = "syscall"
    PROVE  Done(z, syscall(z), call)
<1> DEFINE u == syscall(z)
<1>1. u.ev = NoEvent /\ (Kept(z.r, u.r) \/ AtLstar(z.r, u.r))
  BY SyscallGuarded DEF Started
<1> HIDE DEF u
<1>2. CASE Kept(z.r, u.r)
  BY <1>1, <1>2, KeptDone DEF u
<1>3. CASE AtLstar(z.r, u.r)
  <2>1. cpl(u.r) \in 0 .. 3 /\ cpl(z.r) \in 0 .. 3
    BY <1>3, CplRange DEF AtLstar, Started, RegsOk
  <2>2. EntersInward(u.r, cpl(z.r), call)
    BY <1>3 DEF EntersInward, AtLstar
  <2>3. cpl(u.r) = cpl(z.r) \/ cpl(u.r) < cpl(z.r)
    BY <1>3, <2>1 DEF AtLstar
  <2>4. RegsOk(u.r)
    BY <1>3 DEF AtLstar
  <2>5. Done(z, u, call)
    BY <1>1, <2>2, <2>3, <2>4 DEF Done, Door
  <2> QED BY <2>5 DEF u
<1> QED BY <1>1, <1>2, <1>3

LEMMA SysretDone ==
    ASSUME SoundMachine(c), NEW z, Started(z), Ok(sysret(z)), NEW call, call.kind = "sysret"
    PROVE  Done(z, sysret(z), call)
<1> DEFINE u == sysret(z)
<1>1. u.ev = NoEvent /\ RegsOk(u.r) /\ cpl(u.r) = 3
  BY SysretGuarded DEF Started
<1> HIDE DEF u
<1>2. Done(z, u, call)
  BY <1>1 DEF Done, Door
<1> QED BY <1>2 DEF u

LEMMA SwapgsDone ==
    ASSUME NEW z, Started(z), Ok(swapgs(z)), NEW call
    PROVE  Done(z, swapgs(z), call)
<1>1. swapgs(z).ev = NoEvent
  BY SwapgsOutcome DEF Started
<1>2. Kept(z.r, swapgs(z).r)
  BY SwapgsKept DEF Started
<1> QED BY <1>1, <1>2, KeptDone

LEMMA MovSegDone ==
    ASSUME SoundMachine(c), NEW z, Started(z), NEW i \in SegNames \ {"CS"}, NEW sel,
           Ok(HoldOff(load_seg(z, i, sel), i)), NEW call
    PROVE  Done(z, HoldOff(load_seg(z, i, sel), i), call)
<1> DEFINE a == load_seg(z, i, sel)
           h == [a EXCEPT !.inhibit = TRUE]
           u == HoldOff(a, i)
<1>1. Moves(SegNames, z, a)
  BY StartedMoves, LoadSegStep
<1>2. a.ev = NoEvent /\ IsCpu(a)
  BY <1>1, MovesEv, MovesCpu
<1>3. Ok(a) => Kept(z.r, a.r)
  BY LoadSegKept DEF Started
<1> HIDE DEF a
<1>4. h.r = a.r /\ h.ev = a.ev
  BY <1>2 DEF IsCpu, CpuNames
<1>5. (u = h /\ Ok(a)) \/ u = a
  BY DEF HoldOff
<1> HIDE DEF h
<1>6. u.ev = NoEvent /\ Kept(z.r, u.r)
  BY <1>2, <1>3, <1>4, <1>5 DEF a
<1> HIDE DEF u
<1>7. Done(z, u, call)
  BY <1>6, KeptDone
<1> QED BY <1>7 DEF u, a

LEMMA MovSpDone ==
    ASSUME NEW z, Started(z), NEW v, NEW call
    PROVE  Done(z, [z EXCEPT !.r.rsp = v], call)
<1> DEFINE u == [z EXCEPT !.r.rsp = v]
<1>1. Moves(SegNames, z, u)
  BY StartedMoves, FieldStep
<1>2. Kept(z.r, u.r)
  BY MovSpKept DEF Started
<1>3. u.ev = NoEvent
  BY <1>1, MovesEv
<1> HIDE DEF u
<1>4. Done(z, u, call)
  BY <1>2, <1>3, KeptDone
<1> QED BY <1>4 DEF u

LEMMA InOutDone ==
    ASSUME NEW z, Started(z), NEW port, NEW size, NEW call
    PROVE  Done(z, io_check(z, port, size), call)
<1>1. Moves(SegNames, z, io_check(z, port, size))
  BY StartedMoves, NeedStep DEF io_check
<1>2. Kept(z.r, io_check(z, port, size).r)
  BY IoKept DEF Started
<1>3. io_check(z, port, size).ev = NoEvent
  BY <1>1, MovesEv
<1> QED BY <1>2, <1>3, KeptDone

(* Every step of the system goes through a door.                           *)
LEMMA NextGuarded ==
    ASSUME LevelsInv, Next
    PROVE  UNCHANGED c /\ LevelsOk(c, s') /\ Guard(s.r, s'.r, last')
<1> DEFINE Goal == UNCHANGED c /\ LevelsOk(c, s') /\ Guard(s.r, s'.r, last')
<1>a. \A x : Begun(x) => Moves(SegNames, x, x)
  BY BegunMoves
<1>b. "CS" \in SegNames /\ "SS" \in SegNames /\ {"CS", "SS"} \subseteq SegNames
  BY DEF SegNames
<1>m. IsMachine(c) /\ SoundMachine(c)
  BY DEF LevelsInv, TypeOK
<1> HIDE DEF Goal
<1>1. CASE JumpFar
  <2>1. PICK x \in c.prog.far, p \in c.prog.prefixes :
          Execute(p, LAMBDA z : jump_far(z, x.sel, x.off % Width(z.osize)), NoTransfer)
    BY <1>1 DEF JumpFar
  <2> DEFINE z == exec_one(s, p)
             u == jump_far(z, x.sel, x.off % Width(z.osize))
  <2>2. Ready /\ step_fast(IF Ok(z) THEN u ELSE z, NoTransfer)
    BY <2>1 DEF Execute
  <2>3. Begun(z) /\ Ok(z) => Outcome(z, u)
    BY <1>a, <1>b, JumpFarStep, MovesOutcome
  <2>5. Started(z) /\ Ok(u) => Done(z, u, NoTransfer)
    BY <1>m, JumpFarDone
  <2> HIDE DEF u
  <2> QED BY <2>2, <2>3, <2>5, InstructionGuarded DEF Goal
<1>2. CASE CallFar
  <2>1. PICK x \in c.prog.far, p \in c.prog.prefixes : \E n, args :
          Execute(p, LAMBDA z : call_far(z, x.sel, x.off % Width(z.osize)),
                  [kind |-> "call", n |-> n, args |-> args, pre |-> Past(s.r), by |-> s.r])
    BY <1>2, Zenon DEF CallFar
  <2>a. PICK n, args :
          Execute(p, LAMBDA z : call_far(z, x.sel, x.off % Width(z.osize)),
                  [kind |-> "call", n |-> n, args |-> args, pre |-> Past(s.r), by |-> s.r])
    BY <2>1
  <2> DEFINE z == exec_one(s, p)
             u == call_far(z, x.sel, x.off % Width(z.osize))
             call == [kind |-> "call", n |-> n, args |-> args, pre |-> Past(s.r), by |-> s.r]
  <2>4. call.kind = "call"
    OBVIOUS
  <2>2. Ready /\ step_fast(IF Ok(z) THEN u ELSE z, call)
    BY <2>a DEF Execute
  <2>3. Begun(z) /\ Ok(z) => Outcome(z, u)
    BY <1>a, <1>b, <1>m, CallFarStep, MovesOutcome
  <2>5. Started(z) /\ Ok(u) => Done(z, u, call)
    BY <1>m, <2>4, CallFarDone
  <2> HIDE DEF u, call
  <2> QED BY <2>2, <2>3, <2>5, InstructionGuarded DEF Goal
<1>3. CASE Retf
  <2>1. PICK n \in c.prog.release, p \in c.prog.prefixes : Execute(p, LAMBDA z : retf(z, n), NoTransfer)
    BY <1>3 DEF Retf
  <2> DEFINE z == exec_one(s, p)
             u == retf(z, n)
  <2>2. Ready /\ step_fast(IF Ok(z) THEN u ELSE z, NoTransfer)
    BY <2>1 DEF Execute
  <2>3. Begun(z) /\ Ok(z) => Outcome(z, u)
    BY <1>a, RetfStep, MovesOutcome
  <2>5. Started(z) /\ Ok(u) => Done(z, u, NoTransfer)
    BY <1>m, RetfDone
  <2> HIDE DEF u
  <2> QED BY <2>2, <2>3, <2>5, InstructionGuarded DEF Goal
<1>4. CASE Iret
  <2>1. PICK p \in c.prog.prefixes : Execute(p, iret, NoTransfer)
    BY <1>4 DEF Iret
  <2> DEFINE z == exec_one(s, p)
             u == iret(z)
  <2>2. Ready /\ step_fast(IF Ok(z) THEN u ELSE z, NoTransfer)
    BY <2>1 DEF Execute
  <2>3. Begun(z) /\ Ok(z) => Outcome(z, u)
    BY IretOutcome
  <2>5. Started(z) /\ Ok(u) => Done(z, u, NoTransfer)
    BY <1>m, IretDone
  <2> HIDE DEF u
  <2> QED BY <2>2, <2>3, <2>5, InstructionGuarded DEF Goal
<1>5. CASE SoftInt
  <2>1. PICK v \in c.prog.ints : Execute("", LAMBDA z : int_n(z, v), NoTransfer)
    BY <1>5 DEF SoftInt
  <2> DEFINE z == exec_one(s, "")
             u == int_n(z, v)
  <2>2. Ready /\ step_fast(IF Ok(z) THEN u ELSE z, NoTransfer)
    BY <2>1 DEF Execute
  <2>3. Begun(z) /\ Ok(z) => Outcome(z, u)
    BY IntOutcome
  <2>5. Started(z) /\ Ok(u) => Done(z, u, NoTransfer)
    BY <1>m, IntDone
  <2> HIDE DEF u
  <2> QED BY <2>2, <2>3, <2>5, InstructionGuarded DEF Goal
<1>6. CASE Int3
  <2> DEFINE z == exec_one(s, "")
             u == software_int(z, 3)
  <2>2. Ready /\ step_fast(IF Ok(z) THEN u ELSE z, NoTransfer)
    BY <1>6 DEF Int3, Execute
  <2>3. Begun(z) /\ Ok(z) => Outcome(z, u)
    BY SoftwareIntOutcome
  <2>5. Started(z) /\ Ok(u) => Done(z, u, NoTransfer)
    BY <1>m, IntDone
  <2> HIDE DEF u
  <2> QED BY <2>2, <2>3, <2>5, InstructionGuarded DEF Goal
<1>7. CASE Syscall
  <2> DEFINE z == exec_one(s, "")
             u == syscall(z)
             call == [kind |-> "syscall", pre |-> Past(s.r), by |-> s.r]
  <2>4. call.kind = "syscall"
    OBVIOUS
  <2>2. Ready /\ step_fast(IF Ok(z) THEN u ELSE z, call)
    BY <1>7 DEF Syscall, Execute
  <2>3. Begun(z) /\ Ok(z) => Outcome(z, u)
    BY SyscallOutcome
  <2>5. Started(z) /\ Ok(u) => Done(z, u, call)
    BY <1>m, <2>4, SyscallDone
  <2> HIDE DEF u, call
  <2> QED BY <2>2, <2>3, <2>5, InstructionGuarded DEF Goal
<1>8. CASE Sysret
  <2>1. PICK p \in c.prog.prefixes : Execute(p, sysret, [kind |-> "sysret"])
    BY <1>8 DEF Sysret
  <2> DEFINE z == exec_one(s, p)
             u == sysret(z)
             call == [kind |-> "sysret"]
  <2>4. call.kind = "sysret"
    OBVIOUS
  <2>2. Ready /\ step_fast(IF Ok(z) THEN u ELSE z, call)
    BY <2>1 DEF Execute
  <2>3. Begun(z) /\ Ok(z) => Outcome(z, u)
    BY SysretOutcome
  <2>5. Started(z) /\ Ok(u) => Done(z, u, call)
    BY <1>m, <2>4, SysretDone
  <2> HIDE DEF u, call
  <2> QED BY <2>2, <2>3, <2>5, InstructionGuarded DEF Goal
<1>9. CASE Swapgs
  <2> DEFINE z == exec_one(s, "")
             u == swapgs(z)
  <2>2. Ready /\ step_fast(IF Ok(z) THEN u ELSE z, NoTransfer)
    BY <1>9 DEF Swapgs, Execute
  <2>3. Begun(z) /\ Ok(z) => Outcome(z, u)
    BY SwapgsOutcome
  <2>5. Started(z) /\ Ok(u) => Done(z, u, NoTransfer)
    BY SwapgsDone
  <2> HIDE DEF u
  <2> QED BY <2>2, <2>3, <2>5, InstructionGuarded DEF Goal
<1>10. CASE MovSeg
  <2>1. PICK i \in c.prog.segs, sel \in c.prog.sels :
          Execute("", LAMBDA z : HoldOff(load_seg(z, i, sel), i), NoTransfer)
    BY <1>10 DEF MovSeg
  <2> DEFINE z == exec_one(s, "")
             u == HoldOff(load_seg(z, i, sel), i)
  <2>2. Ready /\ step_fast(IF Ok(z) THEN u ELSE z, NoTransfer)
    BY <2>1 DEF Execute
  <2>3. Begun(z) /\ Ok(z) => Outcome(z, u)
    BY <1>m, MovSegOutcome DEF IsMachine
  <2>5. Started(z) /\ Ok(u) => Done(z, u, NoTransfer)
    BY <1>m, MovSegDone DEF IsMachine
  <2> HIDE DEF u
  <2> QED BY <2>2, <2>3, <2>5, InstructionGuarded DEF Goal
<1>11. CASE MovSp
  <2>1. PICK v \in c.prog.sps : \E p, w :
          step_fast(IF Ok(exec_one(s, p)) THEN [exec_one(s, p) EXCEPT !.r.rsp = w] ELSE exec_one(s, p),
                    NoTransfer)
    BY ZenonT(60), <1>11 DEF MovSp, Execute
  <2>a. PICK p, w :
          step_fast(IF Ok(exec_one(s, p)) THEN [exec_one(s, p) EXCEPT !.r.rsp = w] ELSE exec_one(s, p),
                    NoTransfer)
    BY <2>1
  <2> DEFINE z == exec_one(s, p)
             u == [z EXCEPT !.r.rsp = w]
  <2>2. Ready /\ step_fast(IF Ok(z) THEN u ELSE z, NoTransfer)
    BY <1>11, <2>a DEF MovSp, Execute
  <2>3. Begun(z) /\ Ok(z) => Outcome(z, u)
    BY MovSpOutcome
  <2>5. Started(z) /\ Ok(u) => Done(z, u, NoTransfer)
    BY MovSpDone
  <2> HIDE DEF u
  <2> QED BY <2>2, <2>3, <2>5, InstructionGuarded DEF Goal
<1>12. CASE InOut
  <2>1. PICK port \in c.prog.ports : Execute("", LAMBDA z : io_check(z, port, 2), NoTransfer)
    BY <1>12 DEF InOut
  <2> DEFINE z == exec_one(s, "")
             u == io_check(z, port, 2)
  <2>2. Ready /\ step_fast(IF Ok(z) THEN u ELSE z, NoTransfer)
    BY <2>1 DEF Execute
  <2>3. Begun(z) /\ Ok(z) => Outcome(z, u)
    BY IoOutcome
  <2>5. Started(z) /\ Ok(u) => Done(z, u, NoTransfer)
    BY InOutDone
  <2> HIDE DEF u
  <2> QED BY <2>2, <2>3, <2>5, InstructionGuarded DEF Goal
<1>13. CASE Nmi \/ Intr
  <2>1. PICK v : Boundary([vector |-> v, code |-> <<>>])
    BY <1>13 DEF Nmi, Intr
  <2> DEFINE e == [vector |-> v, code |-> <<>>]
  <2>2. IsCode(e.code)
    BY DoubleCode
  <2> HIDE DEF e
  <2> QED BY <2>1, <2>2, BoundaryGuarded DEF Goal, e
<1> QED
  BY <1>1, <1>2, <1>3, <1>4, <1>5, <1>6, <1>7, <1>8, <1>9, <1>10, <1>11, <1>12, <1>13 DEF Next, Goal

(* A level is left only by the doors, for every descriptor table, TSS,     *)
(* program and interrupt that SoundStarts admits: inward through a gate    *)
(* its caller may use, onto the stack the TSS names, or at LSTAR; outward  *)
(* by SYSRET or a return that leaves no data segment of the inner level    *)
(* loaded; and SS stays of the current level, or null in long mode.        *)
THEOREM LevelsGuarded == SoundStarts => (Spec => PrivilegeGuarded)
<1> SUFFICES ASSUME SoundStarts PROVE Spec => PrivilegeGuarded
  OBVIOUS
<1>1. Init => LevelsInv
  BY StartAssumption DEF Init, LevelsInv, TypeOK, SoundStarts
<1>2. LevelsInv /\ Next => LevelsInv'
  <2> SUFFICES ASSUME LevelsInv, Next PROVE LevelsInv'
    OBVIOUS
  <2>1. UNCHANGED c /\ LevelsOk(c, s')
    BY NextGuarded
  <2>2. TypeOK'
    BY NextStep DEF LevelsInv
  <2>3. SoundMachine(c')
    BY <2>1 DEF LevelsInv
  <2>4. LevelsOk(c', s')
    BY <2>1
  <2> QED BY <2>2, <2>3, <2>4 DEF LevelsInv
<1>3. LevelsInv /\ UNCHANGED vars => LevelsInv'
  <2> SUFFICES ASSUME LevelsInv, UNCHANGED vars PROVE LevelsInv'
    OBVIOUS
  <2>1. c' = c /\ s' = s
    BY DEF vars
  <2>2. TypeOK'
    BY <2>1 DEF LevelsInv, TypeOK
  <2>3. SoundMachine(c') /\ LevelsOk(c', s')
    BY <2>1 DEF LevelsInv
  <2> QED BY <2>2, <2>3 DEF LevelsInv
<1>4. LevelsInv /\ [Next]_vars => [GuardsLevels]_vars
  BY NextGuarded DEF Guard, GuardsLevels
<1> QED BY <1>1, <1>2, <1>3, <1>4, PTL DEF Spec, PrivilegeGuarded

=============================================================================
