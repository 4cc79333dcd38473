# A formal model of Remu

Remu is a Rust library of CPU emulators (6502, 8086, 80386, x86-64, ARM32) with
thin Linux layers on top of them. This directory holds TLA+ modules that model
its core logic, the TLC configurations that check them on small instances, and
TLAPS proofs of what holds for every size. `PROJECT.json` maps each definition
to the lines of Rust it stands for.

## 1. The system

| Component | State | Operations | Talks to |
|---|---|---|---|
| 80386 core, boundary (`x86_32/mod.rs`) | registers, `events` bits, `intr`, `halted`, `shutdown`, `host_trap`, per-instruction scratch (`start_eip`, `commit_on_fault`, `cold_saved`, `fault_regs`) | `step`, `run`, `trigger_nmi`, `assert_intr`, `clear_intr`, `reset`, delivery | the host that calls it; the IDT in guest memory |
| 80386 instruction cache (`icache.rs`, `decode.rs`) | 16384 entries, 16384 page stamps, `clock`, `inval` | probe, fill, `stamp_write_span`, `invalidate_icache` | every store of the core; host writes |
| 80386 paging (`paging.rs`) | 256-entry TLB, CR0/CR3, page tables in guest memory | `translate`, `walk`, `lin_read*`, `lin_write*`, `flush`, `peek` | the cache (stamps, probe); host accessors |
| 80386 protected mode (`protected.rs`) | segment caches, GDT/LDT/IDT/TSS in guest memory | segment loads, gates, IRET, task switch | delivery |
| 80386 instructions (`execute.rs`, `execute_0f.rs`, `alu.rs`) | registers, flags | one handler per opcode | all of the above |
| 80386 JIT (`jit/`) | block table, hot counters, code buffer | translate, lookup, enter, evict | cache stamps, `run` |
| x86-64 core (`x86_64/`) | as the 80386, plus MSRs, four-level tables | as the 80386, plus SYSCALL | the x86-64 Linux layer |
| 8086, 6502, ARM32 cores | registers, interrupt lines; ARM32 also banks and a cache | `step`, line setters | their buses |
| bus, memory, UART (`bus.rs`, `memory/`, `device/`) | RAM, device registers, receive queue | read, write, irq | the 6502 core |
| i386 and x86-64 Linux layers (`os/`, `os64/`) | frames, page tables, VMAs, brk, descriptors | load, fault handling, system calls | the core through `host_trap`, `invalidate_icache` |
| user-mode framework (`usermode/`) | chunked address space, descriptors | load, run, system calls | ARM32 and 80386 cores |
| Python bindings, command line | none of their own | conversions | everything |

Nothing in the library is multithreaded. What makes it hard is state mirrored
for speed and state that must survive in any order of events: decoded
instructions that outlive the bytes they came from, translations that outlive
the tables, event bits that mirror latches, registers written before a fault,
deliveries that fault themselves, and a host that acts between any two calls.
The hazards of `PROJECT.json` list these at the line where they bite.

What makes each component correct:

* fetch and cache: every instruction executed is the one whose bytes are in
  memory when it starts, and the segment limit is respected;
* paging: the TLB is invisible; a faulting access moves no data; every change
  of memory is stamped;
* JIT: `run` with it is `run` without it, instruction for instruction and flag
  for flag; a block never outlives its bytes; `run` always returns;
* ALU: results and flags are those of integer arithmetic, and compose to wider
  words; the condition codes decide what they are named for;
* boundary: no interrupt, trap or doorbell is lost or invented; a fault is
  precise; delivery is all or nothing; `run(n)` is n calls of `step`;
* x86-64 protected mode: what a call or an event saved, its return restores; a
  fault leaves no trace; privilege changes only by the doors;
* 6502 and ARM32: a program cannot tell that it was interrupted, cached or run
  in pieces; the UART loses, repeats and reorders nothing;
* Linux layers: frames stay disjoint, a call leaves the mappings it does not name
  as they were (but see point 10 of section 4), a transfer moves exactly the bytes
  it reports, descriptors do not disturb each other, each trap is served once and
  the caches never show the guest an old service;
* user-mode framework: the first bad access is reported exactly, and what the
  guest was given it keeps although memory comes in chunks of many pages.

## 2. Modules

| Module | Models |
|---|---|
| `Fetch386` | operators: bus wrap, linear address, limit check, decoding, stores |
| `Fused386` | abstract specification: the interpreter that re-fetches every byte |
| `Stamps386` | the validity clocks (page stamps, `inval`) that the cache and the JIT share |
| `ICache386` | the interpreter with the decoded-instruction cache; implements `Fused386` |
| `Stamps386_proofs` | lemmas on the clocks, on where the bytes of an instruction lie, on division and remainder |
| `ICache386_proofs` | the proofs about `ICache386` |
| `Paging386`, `Paging386_proofs` | walk, TLB, split accesses, flushes, host edits; the proofs |
| `Step386`, `Step386_proofs` | step/run boundary, events, fault rewind, delivery; the proofs |
| `Alu386`, `AluCheck386` | the arithmetic primitives as operators; short programs that compose them, compared with integer arithmetic |
| `Interp386` | abstract specification: what `run(n)` promises |
| `Jit386` | the JIT's dispatcher, translator and blocks; implements `Interp386` |
| `Jit386_proofs` | the proofs about `Jit386` |
| `JitEffects386` | the translator's flag tables, and the host instruction emitted for each row |
| `JitFlags386` | the translator's flag analysis and the flags of a running block |
| `JitFlags386_proofs` | the proofs about `JitFlags386` |
| `Segments64` | x86-64 segment registers, descriptor tables, stack, TSS |
| `Protected64` | far jumps, calls, gates, far returns, IRET |
| `Events64` | delivery in every mode, nested and double faults, rewind, INT n, SYSCALL, SYSRET, SWAPGS, I/O permission |
| `System64` | the x86-64 core executing those while NMIs and interrupts arrive |
| `System64_proofs` | the proofs that a fault leaves no trace and that privilege changes only by the doors |
| `Mos6502` | the UART; the 6502 core on the address decoder |
| `MosSystem` | a 6502 machine under a host, next to one that is never interrupted |
| `ArmDecode` | ARM32 shifter, ARM and Thumb decoders |
| `Arm32` | the ARM32 core: banked registers, execution, exceptions, run loop, instruction cache |
| `ArmSystem` | an ARM32 machine under an embedder, next to an uncached, uninterrupted one; the ARM instruction each Thumb one abbreviates |
| `ArmSystem_proofs` | the proofs about `ArmSystem` |
| `LinuxMemory`, `LinuxFiles`, `LinuxCalls` | both paged Linux layers: address space, files, system calls |
| `LinuxSystem` | loading and faults; a process under emulation: load, run in budgets, trap, serve |
| `UserMemory`, `UserProcess` | the user-mode framework: chunked memory and ELF, calls and entry stack |
| `UserSystem` | a process under it, one instruction at a time |
| `MC*` | instances for TLC (`Step386` needs only its two configurations) |

`Fetch386` and `Fused386` state what the cache may not change; `ICache386`
extends the former and instantiates the latter (`F == INSTANCE Fused386`, same
variable names, the cache variables hidden). `Paging386` models the part of the
store path the cache model leaves out: that every change of memory, the
accessed/dirty write-backs included, is stamped, which is what `ICache386`
assumes of a store, and that the cache's TLB probe finds what a fetch would.

### ICache386

`entries`, `stamps`, `clock` and `inval` are the fields of `ICache`. `executing`
and `executed` say that an instruction is under way and which decode products it
runs (or the #GP of its fetch). `FetchHit`, `FetchHot` and `FetchFused` are the
three ways through `exec_one`: cache hit, decoded and filled, and everything
else. `Write` is any store of the instruction or of the delivery of its fault;
`Retire` ends the step, with CS and EIP changed in any way. The host may write
memory (`HostWrite`), set CS:EIP, invalidate and reset between steps.
`hostDirty` is a history variable: the documented contract of
`invalidate_icache` is that a host write is followed by it before the next step.

Decode products are the bytes of the instruction and the decode context, the
finest thing a decoder could depend on; what they mean is not modelled. Cold
opcodes are those outside `Hot`.

### Paging386

A memory cell holds one table entry (a frame and the bits P, RW, US, A, D), so
tables, data and code are the same memory and tables may map themselves.
`Outcome(a)` is one `lin_read*`/`lin_write*`: translate the first page, then the
second if the access crosses, then stamp and move the data. `edited` is a
history variable: pages that are cached and whose tables somebody changed since,
for which the 386 promises nothing until a flush.

### Step386

The register file is EIP, one general register, one "cold" register (segments,
control and table registers: those that `prepare_cold_write` guards), IF and TF;
CR2, which a rewind deliberately keeps, is left out. `phase` says whether the
CPU is between units, inside an instruction or inside `deliver`. An instruction
is any sequence of register writes (`Body`) that ends in one of the `Retire*`
actions or in `Fault`; a delivery is any sequence of partial writes ending in
`RaiseOk`, `RaiseAgain` or `RaiseShutdown`. `mode` and `left` are the call the
host made and the units it has left.

### Alu386

A word has `W` bits and a decimal digit `Nibble` bits, so the same text stands
for the 8, 16 and 32-bit copies the macros of `alu.rs` generate. Each primitive
takes and returns the status flags. `AluCheck386` runs straight-line programs
(`add; adc`, `shl; rcl`, `mul; div`, `adc; daa`, ...) one instruction a step on
every operand and flag value, and the properties compare the end of a program
with the integers. The program "insn" is one instruction that the JIT translates.
Flags that the architecture leaves undefined are modelled as
the code sets them and no property speaks of them.

### Jit386

The variables of `Interp386` are the guest's memory, CS, EIP, the units `run`
still owes and one bit `pending` for everything that `boundary_pending` looks
at. Register-only instructions and near branches are one step; everything else
(stores, far transfers, faults, deliveries) is an open unit that may write and
continue anywhere. `Jit386` adds the block table, the blocks, the hot counters
and, inside a block, the host registers that hold the position (`pos`), the
retired count (`r8`) and the loop counter (`rcx`). `regs.eip` is stale inside a
block; the refinement maps the position to the EIP and the budget that the
interpreter would have.

Three things differ in form from the code. Paging is off, so `icache_phys` never
fails. `MAX_CODE_BYTES` is folded into `MAX_BLOCKS`: both only force a flush.
The stale exit of a block's prologue and `jit_evict` after it are not actions,
because `PrologueAgrees` and the check in `jit_lookup` show that they cannot
happen: nothing runs between lookup and entry. `jit_plan` is the set of the
non-empty prefixes of the plan, each as the offsets of its instructions; where
the flag analysis cuts the plan is left open in `Jit386` and modelled in
`JitFlags386`.

### JitFlags386

`sims` are the flag states of pass 2 of `jit_plan` after each accepted
candidate, `cut` the prefix chosen. The block then runs any number of times,
with the host's flags next to the interpreter's (`ref`): per instruction the
table row says which flags both compute alike, which the interpreter forces and
which are garbage in the host. `JitEffects386` holds the rows; `AluCheck386`
compares each with the interpreter's primitives of `Alu386` and with what the
x86 architecture defines of the host instruction (external).

### x86-64: Segments64, Protected64, Events64, System64

An operation maps a CPU state to a CPU state and leaves a fault in `err`, after
which every later operation of the same handler is skipped, as `?` does. The
core is scaled: a 16-bit word has `B` values and addresses count words, so 16,
32 and 64-bit operands take 1, 2 and 4 words and every truncation of the code is
a truncation of the model. `cold` and `saved` are the snapshot that
`prepare_cold_write` takes; `m64` is the cached mode, refreshed where the code
refreshes it. `c` is the machine around the CPU: tables, TSS, MSRs, unmapped
words (`bad`) and the host's choices. `last` remembers the transfer just made,
for the properties. One step is one instruction with its epilogue, or the
delivery of an NMI or interrupt at a boundary. `Settled` drops at the end of a step what
`exec_one` resets before the next use.

### 6502: Mos6502, MosSystem

A machine is a record and an instruction a function on it; reads of a device
change it, so a read returns value and machine. All 256 opcodes are there, the
ones without a definition halting as in the code. `MosSystem` runs the machine
under a host that moves the lines, feeds the UART and resets, next to `solo`, a
machine that executes only the instructions that are not inside an interrupt.

### ARM32

`gpr` is the window on the current mode's registers, spilled to and loaded from
the banks as in `registers.rs`. The decoders work on real encodings of 32 and 16
bits; the machine has narrower words, and the encoding that a memory word stands
for is looked up in a table, so that self-modifying code is an ordinary store.
A word is a number below 2^(4 `ByteBits`); AND, OR, EOR and BIC go through the set of
its bits. `CodeAssumption` says that no instruction of the tables shifts by a
constant beyond the word, which five bits of a 32-bit encoding cannot express;
`PowerAssumption` is a fact about `2^n` that the prover, which has no
exponentiation, is given and TLC evaluates. `ArmSystem` runs a program against `solo`, which has no cache, sees no interrupt
and has its calls served at once.

### Linux layers

A memory cell is a byte and also holds one table entry; tables are built in
guest frames, as in the code. The two layers differ by functions of the ABI
(depth of the tree, layout, calls). The guest is arbitrary: any access or call
of its scene at any time. Accesses go through a TLB, fetches through a cache of
decoded code. A service is the whole of `dispatch_syscall` or `handle_fault`
with the `invalidate_icache` after it; `Chunk` is the Python binding's loop over
budgets. The host file system is external: a small tree, and a sequence of
outcomes (full, short, error) of its reads and writes to come.

### User-mode framework

Memory is a set of mapped chunks and their non-zero bytes; pointers are four
little-endian bytes with 16 values each, so the address space has 2^16 bytes and
the wrap of 32-bit arithmetic happens in the model. A step executes whatever
opcode lies at one of several addresses, as an abstract instruction with its
accesses, then polls the system call, the CPU fault and the latch in the order
of `step_one`.

## 3. Runs

| Run | Instance | Shows |
|---|---|---|
| `icache` | 2 pages of 2 bytes, 1 entry, instructions of 1 and 2 bytes, 3 code segments, clock up to 3 | `NoStaleEntry`, and refinement of `Fused386` |
| `paging` | 4 pages of 2 cells, 2 TLB slots, self-mapping directory, 1 store | the four invariants of `Paging386` |
| `step` | run(n) up to 2, one value per register, fair | the doorbell of a trap, the shadow, and the two liveness properties |
| `step_faults` | two values per register, `step` and `run(0)` only | rewind, atomic delivery, triple fault |
| `alu` | W = 8; all words, packed digits, comparisons; boundary values for pairs and divisors; counts past the width and 31; every translatable instruction with every flag value | the programs of `AluCheck386`, the condition codes and the flag tables |
| `jit` | 2 pages of 3 bytes, 2 table slots, blocks of up to 2, flush at 2, run(4), fair | no stale block, agreement of slot and block, refinement of `Interp386`, every `run` returns |
| `jit_flags` | 3 flags, one instruction per kind of row, sequences of up to 3 | reads and exits exact |
| `mos6502` | four programs, two of them from the tests' shapes, five pairs of decimal operands, two host events | interrupts transparent, echo in order, decimal exact |
| `arm32` | 12-bit words, 80 of them; a tour of the instruction set with one event, its user half with two; 192 shifts; all 65536 Thumb halfwords | program undisturbed, cache exact, banks isolated, shifter and Thumb decoder exact |
| `linux` | pages of 8 cells, 19 scenes per ABI (mapping, mapping up to an image inside the arena, heap, lookups, threads, transfers with good and bad luck, loads good and malformed), three traps | caches coherent, traps served once, mappings, transfers, descriptors and entry stack exact |
| `usermode` | chunks of 512, pages of 128, six images, 58 calls, three steps | precise faults, memory given, transfers in order, entry image exact |
| `protected64` | B = 128, 12 machines (64-bit, compatibility, legacy with 16- and 32-bit TSS, V86, real, hosted, bad kernel stack), three steps | returns exact, faults transparent, privilege guarded |

Bounds. `MaxClock` cuts stores once the clock would pass it: three ticks let an
entry be filled, its page stamped by a crossing store (two ticks) and refilled.
One entry makes every fill an eviction. `MaxStores` bounds stores and host pokes
(one store already makes a cached page `edited`, remaps a directory or fills a
dirty page). `MaxRun` bounds the n of `run(n)`, `MaxShadow` the number of
shadow-arming instructions in a row; without the latter a guest that repeats STI
forever postpones an NMI forever, which is what the code does.

The JIT instance has one store value and address, three places to continue at
(two bases of a 32-bit segment, one 16-bit segment) and a clock of two: enough
for a block to be translated, its page stored to and the head translated again,
for two heads to share a slot, for a flush to drop a block another slot named,
and for the self loop to run out of budget in and at the end of an iteration.

`MaxEvents` (6502, ARM32) bounds what the host does besides running: two events
nest an NMI in an IRQ, or an FIQ in an IRQ, or patch code under an interrupt.
`MaxClock` of the ARM machine bounds its cache clock: eighteen lets the tour reach
its end with an interrupt on the way; five lets the loop of the user half patch
itself while a handler pushes, before or after the host's own patch.
`MaxTraps` and `MaxInsns` (Linux) bound the traps of a run and the instructions
between two of them: three calls are enough to map, unmap and map again, or to
open, move and transfer; two accesses let one warm the TLB before the call and
one use it after. `MaxSteps` is 3 for the user-mode process and the x86-64 core:
an instruction, the delivery of its fault and a second event, or a call, its use
and its undoing; every return is also evaluated in the property itself, which
does not count as a step. These five runs turn the deadlock check off because
their bounds, the end of a process and a shutdown stop the system.

Fairness. `JitFairSpec` has weak fairness of the dispatcher, of the steps of a
block and of the end of an open unit: `run_jit` is a sequential loop that waits
for nothing. The host is not fair: `RunReturns` speaks of runs that started. In
`FairSpec` of `Step386`, inside a call the CPU never
waits, so starting a due unit, ending an instruction, ending a delivery and
returning from `run` are weakly fair. (`string_op` yields to pending interrupts,
so no single instruction runs forever.) The host is assumed to keep asking for
units: strong fairness of `step()` or `run(n)` with n > 0, because a trap not
taken and `run(0)` may come in between.

The runs of the two Linux layers, the 6502, ARM32 and the x86-64 core state no
fairness: their properties are about what may happen.

## 4. Where code and comments disagree

Met while modelling; the models follow the code.

1. `LinearMemory` wraps at 16 MiB, the write stamps at 64 MiB. Two physical
   addresses 16 MiB apart reach one byte but have different stamps, so a store
   through one leaves an instruction cached through the other live and stale
   (`RamPages = 1` in `MCICache386.cfg` shows it). `icache.rs:37` says that
   aliasing causes "spurious re-decodes, never a stale hit"; that is true of stamp
   aliasing and not of RAM aliasing. The run has a RAM that does not wrap, the
   proofs assume `StampsCoverRam`. The ARM32 core has the same memory
   (`arm32/mod.rs:88`), the same stamps and the same comment (`arm32/icache.rs:37`),
   so a store 16 MiB above cached code leaves it stale there too. Its run has a
   RAM of whole stamp ranges, and its proofs cover both that and the default RAM
   used without its mirrors.
2. With `trap_faults` the single-step exception still goes through the IDT
   (`x86_32/mod.rs:803`), although the field's documentation (`mod.rs:508`) says a
   CPU exception is handed back instead.
3. An 80386 block is not tied to the CS limit it was decoded under
   (`jit/mod.rs:207`): after a load of a segment with the same base and a smaller
   limit it executes instructions that the interpreter would refuse to fetch, and
   its exits set EIP without the check of `set_ip`. `run_jit` is documented to be
   identical to the interpreter. The instruction cache does recheck the limit. The
   run `jit` has segments of one limit.
4. The shift group's /6 form with an immediate count is translated as SAR
   (`jit/emit.rs:637`); the interpreter executes it as SHL (`execute.rs:1440`). Its
   row of the flag table calls all flags garbage, so it only enters blocks in
   which a later instruction rewrites every flag.
5. x86-64: `m64` is refreshed only by `exec_one` (`mod.rs:1095`). An event taken
   at the boundary right after an instruction or a delivery that changed the size
   of CS masks RSP by the old mode (`mod.rs:1696`), although the comment of the
   delivery (`protected.rs:1079`) says "otherwise stay on the current stack".
   `ReturnsExactly` speaks of deliveries with a fresh `m64` (`last.exact`); without
   that condition TLC refutes it.
6. x86-64: a conforming code segment keeps its descriptor's DPL in the segment
   cache, from which `cpl()` is read, although `load_cs` says it "Forces CS.RPL =
   CPL" (`protected.rs:327`). The instances have no conforming segments of another
   DPL, and `SoundStarts` of the proof none at all.
7. x86-64: the 16-bit IRET mask contains AC and ID (`protected.rs:957`), which a
   16-bit frame does not hold, so a narrow IRET clears them; `popf_mask` keeps them.
8. i386 Linux: a generated `/proc` file read after a seek past its end panics the
   host (`os/fs/mod.rs:296`: the count is clamped, the slice's start is not). The
   model has the panic as an outcome; `TransferExact` excludes it.
9. User mode: `elf::load` computes a segment's end in 32 bits (`elf.rs:155`); an
   image at the top of memory panics in a debug build and wraps in a release one.
   `read_u32` keeps the mapped prefix of a value at the end of a chunk although its
   comment says 0 if unmapped.
10. Linux layers: an image can lie inside the mmap arena, and `mmap` does not look
   whether its range is free. On i386 `EXE_PIE_BASE` (0x5655_5000,
   `os/loader.rs:9`) is above `MMAP_BASE` (0x4000_0000, `os/memory.rs:207`); on
   x86-64 `INTERP_BASE` (`os64/loader.rs:17`) is above `MMAP_BASE`
   (`os64/memory.rs:73`). Once the cursor arrives there, after some 357 MB of
   mappings on i386 or after one fixed mapping just below the image, `mmap`
   (`os/memory.rs:400`, `os64/memory.rs:448`) hands out the image's own pages:
   `map_range` keeps their frames and contents and adds the write permission. The
   field's documentation calls `mmap_top` the "Next free `mmap` address"
   (`os/memory.rs:225`) and the constant's says that "any base works"
   (`os/memory.rs:205`, `os64/memory.rs:71`). `MappingsExact` therefore says what
   holds: a range `mmap` chose is free but for pages of an image. The scene
   `Arena` reaches the case on both ABIs, and TLC refutes the property without
   the exception. For the same reason an i386 PIE has no heap: its `brk_base` is
   above `MMAP_BASE`, so `set_brk` (`os/memory.rs:461`) refuses every break.

Behaviour of the layers that a reader of Linux would not expect and the models
keep: brk regrown and fixed mappings over mapped pages show the old contents;
munmap of part of a region keeps the region in the list, so `/proc/self/maps`
is stale; a fixed mapping does not move the mmap cursor, so a later mmap may
hand its pages out again (the user-mode `mmap`); `read` loses the bytes of the
chunk whose copy fails; getdents64 advances its cursor also when the copy fails;
set_thread_area consumes its slot before EFAULT; `mprotect` sets the user bit on
any page it is given; `build_stack` ignores writes that fail; a run that ends in
a shutdown or halt leaves `running` set.

The comment above the BCD section of `alu.rs` describes the 8086's AF-dependent
0x9F threshold, which the comment inside `daa` denies and the code does not have.

## 5. Proofs

Each theorem holds for every value of the constants that satisfies the named
`ASSUME`s of its module; these only say that sizes are positive (a word of the
x86-64 core has at least two values), sets have their types and initial states are
well formed, except where a hypothesis is named below. Every inductive invariant was
checked by TLC on the run's instance before it was proved.

| Module | Theorems | Property |
|---|---|---|
| `ICache386_proofs` | `NoStale`, `Implements` (given `StampsCoverRam`) | `NoStaleEntry`, `ImplementsFused` |
| `Jit386_proofs` | `NoStale` (given `StampsCoverRam`), `Implements` (also given `FlatSegments`) | `NoStaleBlock`, `ImplementsInterp` |
| `JitFlags386_proofs` | `ReadsCorrect`, `ExitCorrect` | `ReadsExact`, `ExitExact` |
| `Paging386_proofs` | `Coherent`, `FaultHarmless`, `ChangesStamped`, `TlbInvisible` | `TlbCoherent`, `FaultKeepsData`, `ChangesAreStamped`, `AccessIsWalk` |
| `Step386_proofs` | `AtomicDelivery`, `TripleFaultOnly`, `FaultsRewind`, `NothingPastTrap`, `ShadowMasks` | `DeliveryIsAtomic`, `ShutdownIsTripleFault`, `FaultRewinds`, `NoInsnPastTrap`, `ShadowHolds` |
| `System64_proofs` | `TypeCorrect`, `FaultsTransparent`, `LevelsGuarded` (given `SoundStarts`) | `FaultTransparent`, `PrivilegeGuarded` |
| `ArmSystem_proofs` | `MachineStays`, `CacheIsExact` (given `StampsCoverMemory`), `CacheIsExactAtHome`, `BanksStayIsolated` | `CacheExact`, `BanksIsolated` |

**Hypotheses.** `StampsCoverRam` says that physical addresses reaching one byte
of RAM share a stamp slot. It holds when RAM does not wrap (`FlatRamCovered` in
`Stamps386_proofs`), and is what point 1 of section 4 shows `LinearMemory` to
violate. `FlatSegments` says that code segments span the address space: neither
`jit_lookup` nor the exits of a block look at the CS limit (point 3), so without
it the refinement is false. Both are hypotheses of the theorems, not `ASSUME`s.
`StampsCoverMemory` is `StampsCoverRam` for the ARM32 core: the mirrors of a word
share its stamp, which `WholeRangesCovered` shows of a memory of whole stamp ranges
(64 MiB in the code, and the instance of the run). `CacheIsExactAtHome` has no such
hypothesis on the memory but one on the behaviour: every step is `AtHome`, that is, a
changed word is stamped at its own address unless the cache is invalidated, and no
decode is cached for an address beyond the memory. That is what the default memory
allows, and TLC finds it true of every step of the run.

**Instruction cache.** `NoStaleEntry` is not inductive: a store could hit the
second page of a page-crossing entry without stamping the first, and an entry
with a version in the future would survive any stamp. `IInv` adds `PageLocalInv`
(a filled entry lies within one page) and `ClockInv` (no version, stamp or
invalidation is newer than the clock; `inval` starts at 1, which is why zeroed
entries are dead). The step for a store: if the entry is still live, no stamp of
its slot moved, so by `StampsCoverRam` no byte of its page was written, so by
`PageLocalInv` none of its bytes was; hence it decodes as before. The refinement
follows: on a hit the entry is live, hence fresh, and the single comparison
against the limit equals the per-byte check because the entry's bytes do not
wrap. The lemmas on stores and bytes are in `Stamps386_proofs`, because the JIT
needs the same ones.

**JIT.** A block is validated by the stamp of one page, so `BlockShape` (it stays
in the page of its head; only its last instruction branches) takes the place of
`PageLocalInv`. `UnitInv` says that stores happen inside open units only, when no
block is running, and that host writes happen between runs. `CodeInv` ties the
host registers to the interpreter: the block was entered at its own EIP, `pos` is
inside it and `r8 + rcx * Len` is within the budget. That arithmetic is the heart
of the refinement: each instruction inside a block is one step of `Interp386`
whose EIP and budget the mapping reads off `pos`, `r8` and `rcx`; entering,
translating, evicting and looking up are stutters.

**Flags of a block.** `ExitExact` alone is not inductive. `ChainInv` records what
pass 2 did: the states are successive applications of the rows, reads are exact
where they happen, a touched flag stays touched, and the state at the cut has no
garbage. `BlockInv` says what that means while the block runs: exact flags agree,
forced ones have their value, and a flag the *whole* block leaves alone still
equals `regs.eflags`, which is what lets materialisation keep it after any number
of iterations. A new iteration starts from the empty state, so a flag only
computed by the previous iteration may not be read.

**Paging.** `TlbCoherent` with the types is inductive; the difficulty is inside
one step, which walks up to twice and writes accessed and dirty bits that may lie
in the very tables being walked. `MmuInv` is the invariant of the walk in
progress: memory differs from the beginning in accessed and dirty bits only,
every change is stamped, and every cached page that nobody edited, or that this
access walked itself, agrees with the tables as they are now. The other three
properties are read off it at the end of the access; `TlbInvisible` compares two
walks of the same access that start with different TLBs.

**Boundary of the 80386.** Each conjunct of `IInv` is needed by one property and
none holds without the others: `RewindInv` (the capture holds the cold registers
once one was written, the register file until then), `ChainInv` (a chain of
nested faults gets stricter with each attempt, so that the fourth can only be
#DF), `ShadowInv`, `TrapInv` and `DriveInv`.

**x86-64.** `Moves(S, x, t)` relates the start x of an instruction to a state t
in the middle of it: outside S nothing was written, no event was delivered, and
`Origin(t)`, the registers captured before the first cold write if there was one
and else the current ones, has the segments and KernelGSBase of x. One lemma per
operation of `Segments64`, `Protected64` and `Events64` shows that it continues
`Moves`. An instruction then ends in `Outcome`: if it faulted, `Moves` still holds
with the flags untouched, because flags, RCX, R11 and the event are written only
after the last thing that can fault. From that the epilogue gives back all seven
registers (`Rewinds`), which is what the `debug_assert` in `fault_epilogue` checks
at run time, and by `DeliverStep`, over up to four attempts each undone by
`raise`, the delivery changes only what its frame holds. Frames are pushed by
recursive functions over sequences of any length (a call gate has any number of
parameters); `Induction`, the induction principle on sets of naturals, is derived
from the well-foundedness of `<`, since a theorem with an operator for a
parameter cannot be applied.

*Levels.* `LevelsInv` joins `TypeOK` with `SoundMachine` (the hypothesis on the
tables, which no step changes) and `LevelsOk`: every segment register holds a
descriptor, SS is of the level of CS or, in long mode below 3, null, and the cached
`m64` implies long mode. `PrivilegeGuarded` speaks of the state before and after a
step only, yet needs `LevelsOk`: that a stack segment is of the level of the code is
what makes a same-level transfer keep it, an inner stack loaded from the TSS 32 bits
wide, and a stale `m64` harmless. Every operation that did not fault is shown to end
in one of five ways: `Kept` (the level is the same, the invariant holds), `Outward`
(a return, after `validate_data_segs` dropped what the new level may not use),
`Inward` (by a gate open to the caller, onto the TSS's stack), `AtLstar`, or at
level 3 for SYSRET. The hard cases are the gates, which change CS, SS and RSP in
three places with pushes in between: `Through`, `FlatFramed` and `LegacyFramed`
carry the code entered and the stack pointer, as the top less the words pushed so
far, across the frame of long mode, of a legacy inner level, of V86 (nine words, and
all four data segments nulled) and of a call gate copying up to 31 parameters. A
fault on the way is taken back first (`Rewound`), so its delivery starts at the
instruction's own level; only a software interrupt's gate has to be open to its
caller (`Caller`). `EndGuarded` and `BoundaryGuarded` put these at the end of an
instruction and at a boundary, `NextGuarded` adds one case per action. `SoundStarts`
says of the initial machines what the theorem cannot do without: no conforming code
(section 4, point 6), writable inner stacks with B set (a 16-bit inner stack takes
only the low word of the TSS's pointer), gate levels 0 to 3 and up to 31 parameters,
IST numbers the TSS has, stack pointers that are numbers, and in long mode a
protected machine with the 64-bit TSS. All twelve machines of the run satisfy it:
TLC evaluates `MCStartsSound` before it starts.

**ARM32.** `Consistent`, the inductive invariant, joins `IsMachine` (the shape of the
machine; no version, stamp or invalidation is newer than the clock; every cached
decode is one an encoding can give) with `CacheExact`. Neither
half is inductive alone: exactness needs the clock, and the types of a step's result
need a decode that came from memory. `Moves(s, t)` relates a machine in the middle of
an instruction to its start: cache entries are untouched, the clock only advances, a
word that changed carries a stamp newer than the clock was, and the private
registers and SPSRs of every mode but the first and the last have not moved. `Stays`
adds that the mode is the same. One lemma per instruction class, down to the folds of
LDM and STM over the register list (by `Induction`, as for the x86-64 core), shows
that it `Moves`; `raise` and `set_mode` leave through `BanksKept`, whose argument is
that a register is in the window or in its bank, never read from both. A step is then
a fill of the cache with what is in memory now (`FetchFills`) followed by moves, so an
entry that still hits has an unmoved stamp, hence unmoved bytes, hence its decode
(`Keeps`, `NextKeeps`). Reset and host patches invalidate the cache, after which
nothing hits.

**Only model-checked.** Liveness (`RunReturns` and the two of `Step386`), which is
out of the prover's reach. `ReturnsExactly`, which needs what each frame's words hold
in memory, at three widths, and memory that no push overlaps. The programs of `AluCheck386`, whose reference is the result
of whole instruction sequences over bounded words. Of the ARM32 core,
`ProgramUndisturbed`, which compares the machine with another over stretches of
interrupt handling of any length, and `InstructionsExact`, which compares all
encodings and shift amounts with a reference. The 6502, the Linux layers and the
user-mode framework: their modules reach `Bitwise` (`Mos6502`) or a RECURSIVE
operator (`LinuxCalls`, `UserProcess`), which the prover does not accept.

Worth proving next: `ReturnsExactly` for the frames of long mode, whose pushes are
all of one width, from `FlatFramed` and a lemma that reads back what `PushAll` wrote.

## 6. Not modelled

* The 8086 core: a sequential interpreter with neither cache nor protection,
  checked instruction by instruction by `tests/harte_8088.rs`; its boundary rules
  are those of `Step386` without faults.
* The x86-64 decoder, SSE, paging, instruction cache and JIT. Cache and JIT have
  the structure of the 80386 ones; the four-level walk is modelled as the Linux
  layer builds it (`LinuxMemory`), not as the core walks it. Task gates are not
  implemented in the code.
* 80386 task switches; the addressing forms and string instructions of both x86
  cores; the JIT under paging, where translation warms the TLB and moves stamps,
  so that a block may be stamped stale by its own decode.
* In `Protected64`: single-stepping, HLT, the partial progress of string
  instructions (both in `Step386` for the 80386), paging other than as words that
  fault.
* In the Linux layers: clear_tid, accessed and dirty bits, the text of generated
  files. In the user-mode framework: the register setup of the adapter.
* The register accessors and host-injected exceptions of the ARM32 core.
* Command line programs and the argument conversions of the Python bindings; cycle
  counts and performance counters.
