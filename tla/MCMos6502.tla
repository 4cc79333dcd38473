------------------------------ MODULE MCMos6502 ------------------------------
(* Four guest programs behind a UART at $F000.  "hello" is the program of     *)
(* tests/uart_tests.rs with a message of two bytes; "echo" programs the        *)
(* divisor latch and then polls; "decimal" adds and subtracts two packed      *)
(* decimal numbers of four digits; "tour" executes the other operations and   *)
(* addressing modes, the wrapping pointers, JSR and BRK included.             *)
EXTENDS MosSystem

MCWindows == <<[start |-> 61440, len |-> WINDOW]>>

\* FlatMemory::load: bytes at consecutive addresses.
Load(a, bytes) == [c \in a .. a + Len(bytes) - 1 |-> bytes[c - a + 1]]

\* PHA; INC $10; LDA $10; PLA; RTI
NmiHandler == Load(1792, <<72, 230, 16, 165, 16, 104, 64>>)

\* PHA; TXA; PHA; TSX; LDA $0103,X; AND #$10; BNE +5; STA $11; CLC; BCC +2; INC $12;
\* PLA; TAX; PLA; RTI: the pushed B bit tells BRK (cell $12) from the line (cell $11).
IrqHandler ==
    Load(1824, <<72, 138, 72, 186, 189, 3, 1, 41, 16, 208, 5, 133, 17, 24, 144, 2, 230, 18,
                 104, 170, 104, 64>>)

\* NMI, RESET and IRQ vectors, low byte first: $0700, $0600, $0720.
Vectors == Load(65530, <<0, 7, 0, 6, 32, 7>>)

System(code) == Load(1536, code) @@ NmiHandler @@ IrqHandler @@ Vectors

Hello == System(<<162, 0, 173, 5, 240, 41, 32, 240, 249, 189, 21, 6, 240, 6, 141, 0, 240,
                  232, 208, 238, 2, 72, 105, 0>>)

\* LCR := $80; divisor := $000C; LCR := 3; CLI; then poll LSR, read RBR, write THR for ever.
Echo == System(<<169, 128, 141, 3, 240, 169, 12, 141, 0, 240, 169, 0, 141, 1, 240,
                 169, 3, 141, 3, 240, 88,
                 173, 5, 240, 41, 1, 240, 249, 173, 0, 240, 141, 0, 240, 76, 21, 6>>)

\* CLI; SED; CLC; $24,$25 := $20,$21 + $22,$23; SEC; $26,$27 := $20,$21 - $22,$23; KIL.
DecimalCode == System(<<88, 248, 24, 165, 32, 101, 34, 133, 36, 165, 33, 101, 35, 133, 37,
                        56, 165, 32, 229, 34, 133, 38, 165, 33, 229, 35, 133, 39, 2>>)
\* 9999 and 1, 0 and 1, 9550 and 450, 909 and 91, 1825 and 8976.
Operands == <<<<153, 153, 1, 0>>, <<0, 0, 1, 0>>, <<80, 149, 80, 4>>, <<9, 9, 145, 0>>,
              <<37, 24, 118, 137>>>>

\* The subroutine at $0680: PHP; PLA; PHA; PLP; RTS.
Subroutine == Load(1664, <<8, 104, 72, 40, 96>>)
Tour ==
    System(<<88, 162, 255, 154,               \* CLI; LDX #$FF; TXS
             169, 0, 133, 255, 169, 3, 133, 0, \* pointer $0300 at $FF/$00
             160, 2, 169, 165, 145, 255,       \* LDY #2; LDA #$A5; STA ($FF),Y
             162, 1, 161, 254,                 \* LDX #1; LDA ($FE,X)
             73, 255, 9, 1, 149, 47,           \* EOR #$FF; ORA #1; STA $2F,X
             184, 36, 48, 112, 1, 2,           \* CLV; BIT $30; BVS over KIL
             6, 48, 102, 48, 42, 106, 74, 38, 48, \* ASL $30; ROR $30; ROL; ROR; LSR; ROL $30
             32, 128, 6,                       \* JSR $0680
             0, 234,                           \* BRK and its padding
             120, 56, 233, 1, 105, 127, 88,    \* SEI; SEC; SBC #1; ADC #$7F; CLI
             170, 168, 138, 152, 186, 232, 202, 136, 200, \* transfers, INX DEX DEY INY
             246, 47, 214, 47,                 \* INC $2F,X; DEC $2F,X
             201, 128, 192, 2, 224, 255,       \* CMP #$80; CPY #2; CPX #$FF
             240, 1, 2, 16, 1, 2,              \* BEQ over KIL; BPL over KIL
             72, 8, 40, 104, 108, 255, 5>>)    \* PHA; PHP; PLP; PLA; JMP ($05FF): $0690, KIL
    @@ Subroutine @@ Load(1535, <<144>>) @@ Load(1280, <<6>>) @@ Load(1680, <<2>>)

MCImage ==
    (<<"hello", 1>> :> Hello) @@ (<<"echo", 1>> :> Echo) @@ (<<"tour", 1>> :> Tour)
    @@ [n \in {<<"decimal", k>> : k \in DOMAIN Operands} |-> Load(32, Operands[n[2]]) @@ DecimalCode]
MCFeed == [hello |-> <<>>, echo |-> <<65, 66>>, decimal |-> <<>>, tour |-> <<>>]
=============================================================================
