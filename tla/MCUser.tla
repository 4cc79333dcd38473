------------------------------- MODULE MCUser -------------------------------
(***************************************************************************)
(* A user-mode process in a 64 Ki address space of 16-valued bytes: chunks *)
(* of 512 bytes, pages of 128.                                             *)
(***************************************************************************)
EXTENDS UserSystem

(* 0x1100 text: opcodes at its PCs; 0x1140 data: strings, an iovec of two  *)
(* entries (the second reaches unmapped memory), user_desc.                *)
Text == <<1, 2, 3, 4, 5, 6, 0, 0>>
Str == <<9, 8, 0, 15, 9, 0, 8, 8>>
Iov == Le32(4420) \o Le32(5) \o Le32(4606) \o Le32(4)
Desc == Le32(65535) \o Le32(513) \o Le32(17) \o Le32(1)
Content == Text \o Str \o Iov \o Desc

Ph(l, off, va, fs, ms) ==
    [load |-> l, offset |-> off, vaddr |-> va, filesz |-> fs, memsz |-> ms]
Elf(phdrs, phoff) ==
    [magic |-> TRUE, class |-> 1, data |-> 1, type |-> 2, machine |-> EM_386, phentsize |-> PHENT,
     phoff |-> phoff, phdrs |-> phdrs, bytes |-> <<1, 2, 3, 4, 5, 6, 7, 8, 9, 10>> \o Content]
Covered == Elf(<<Ph(TRUE, 0, 4342, 50, 60)>>, 2)
Apart == Elf(<<Ph(FALSE, 0, 0, 0, 0), Ph(TRUE, 10, 4352, 40, 200)>>, 1)

MCImages == {
    [elf |-> Covered, argv |-> <<<<3, 4>>, <<5>>>>, envp |-> <<<<6>>>>],
    [elf |-> Apart, argv |-> <<<<3>>>>, envp |-> <<>>],
    [elf |-> [Covered EXCEPT !.type = 3], argv |-> <<>>, envp |-> <<>>],
    [elf |-> [Covered EXCEPT !.machine = 40], argv |-> <<>>, envp |-> <<>>],
    [elf |-> Elf(<<Ph(TRUE, 10, 65530, 6, 7)>>, 2), argv |-> <<>>, envp |-> <<>>],
    [elf |-> Elf(<<Ph(FALSE, 0, 0, 0, 0)>>, 2), argv |-> <<>>, envp |-> <<>>] }

T == 4352       \* the text
MCPCs == {T, T + 1, T + 2, T + 3, T + 5, 24576}

(* 0 add [eax], al; 1 int 0x80; 2 stores that may straddle a chunk; 3      *)
(* loads; 4 an invalid opcode; 6 a store into the text.                    *)
MCIsa == [op \in 0..15 |->
    CASE op = 0 -> {[acc |-> <<<<"r8", 0, 0>>, <<"w8", 0, 0>>>>, out |-> "next"]}
      [] op = 1 -> {[acc |-> <<>>, out |-> "syscall"]}
      [] op = 2 -> {[acc |-> <<<<"w32", a, 4660>>>>, out |-> "next"] : a \in {4605, 16894, 49151}}
                   \cup {[acc |-> <<<<"r16", 4607, 0>>, <<"w16", 16383, 257>>>>, out |-> "next"]}
      [] op = 3 -> {[acc |-> <<<<"r32", a, 0>>>>, out |-> "next"] : a \in {16893, 65533}}
                   \cup {[acc |-> <<<<"w16", 4607, 17>>, <<"r32", 20480, 0>>>>, out |-> "next"]}
      [] op = 6 -> {[acc |-> <<<<"w8", T + 1, 3>>>>, out |-> "next"]}
      [] OTHER -> {[acc |-> <<<<"r8", 0, 0>>>>, out |-> "fault"]}]

U == 65535      \* -1
MCCalls == {
    <<"write", 1, T + 8, 5>>, <<"write", 1, 4602, 8>>, <<"write", 0, T, 1>>, <<"write", 3, T, 1>>,
    <<"writev", 1, T + 16, 2>>, <<"writev", 1, T + 16, 3>>, <<"writev", 7, T + 16, 1>>,
    <<"read", 3, T + 2, 6>>, <<"read", 0, 4606, 3>>, <<"readv", 3, T + 16, 2>>,
    <<"readv", 9, T + 16, 1>>, <<"open", T + 8, 0>>, <<"open", T + 11, 0>>, <<"open", T + 8, 1>>,
    <<"open", T + 9, 0>>, <<"open", T + 20, 0>>,
    <<"open", 24576, 0>>, <<"openat", AT_FDCWD, T + 12, 0>>, <<"openat", 3, T + 8, 0>>,
    <<"close", 1>>, <<"close", 3>>, <<"lseek", 3, U, 2>>, <<"lseek", 3, U, 1>>,
    <<"lseek", 1, 0, 0>>, <<"fstat64", 3, 4606>>, <<"fstat64", 1, T + 40>>,
    <<"ioctl">>, <<"brk", 0>>, <<"brk", 5000>>, <<"brk", 16384>>,
    <<"mmap2", 0, 100, TRUE, FALSE, U>>, <<"mmap2", 0, 700, TRUE, FALSE, U>>,
    <<"mmap2", 0, 32000, TRUE, FALSE, U>>, <<"mmap2", 24576, 128, TRUE, TRUE, U>>,
    <<"mmap2", 24577, 1, TRUE, TRUE, U>>, <<"mmap2", 0, 100, FALSE, FALSE, 3>>,
    <<"munmap", 16384, 640>>, <<"munmap", 16512, 600>>, <<"munmap", 4096, 512>>,
    <<"munmap", 65024, 512>>, <<"munmap", 4096, U>>,
    <<"getpid">>, <<"uname", 24576>>, <<"time", 0>>, <<"gettimeofday", 4604>>,
    <<"clock_gettime", T + 48>>, <<"getrandom", T + 3, 9>>, <<"futex", 129>>, <<"futex", 0>>,
    <<"futex", 5>>, <<"ugetrlimit", 4600>>, <<"set_thread_area", T + 32>>,
    <<"set_thread_area", T + 36>>, <<"set_thread_area", 24576>>, <<"mprotect">>, <<"vfork">> }

MCMoods == {"full", "short", "error"}
MCHostFiles == (<<9, 8>> :> <<2, 1, 3, 3, 2, 1, 4>>) @@ (<<9>> :> <<>>)
MCRefused == {<<8>>}
MCBroken == {<<5>>}
MCStdIn == <<5, 6>>
MCSinks == {1, 4}
MCNow == <<77, 5000>>
=============================================================================
