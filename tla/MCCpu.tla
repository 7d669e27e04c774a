-------------------------------- MODULE MCCpu -------------------------------
(* A ROM for the processor: a program that adds in decimal mode, calls a     *)
(* subroutine, keeps values on the stack across it, executes BRK, and is     *)
(* sensitive to every register and flag; an IRQ handler that tells BRK from  *)
(* IRQ by the pushed status; an NMI handler that disturbs A and the flags.   *)
EXTENDS Cpu

Place(base, code) == [i \in base..(base + Len(code) - 1) |-> code[i - base + 1]]

Main == Place(\h8000, <<
  \hA2, \hFD, \h9A, \hA9, \h00, \hA8, \* start: LDX #$FD; TXS; LDA #0; TAY
  \h85, \h00, \h85, \h01, \h85, \h06, \*        STA $00; STA $01; STA $06
  \h58,                               \*        CLI
  \hF8, \h18,                         \* loop:  SED; CLC
  \hA5, \h00, \h69, \h50, \h85, \h00, \*        LDA $00; ADC #$50; STA $00
  \hD8, \h48,                         \*        CLD; PHA
  \h20, \h26, \h80,                   \*        JSR sub
  \h68, \h26, \h01,                   \*        PLA; ROL $01
  \h08, \h00, \hEA, \h28,             \*        PHP; BRK; (padding); PLP
  \h66, \h01,                         \*        ROR $01
  \h4C, \h0D, \h80,                   \*        JMP loop
  \hA0, \h01, \h88, \hD0, \hFD,       \* sub:   LDY #1; DEY; BNE *-1
  \hB1, \h02, \h60 >>)                \*        LDA ($02),Y; RTS

IrqHandler == Place(\h8100, <<
  \h48, \h8A, \h48, \hBA,             \*        PHA; TXA; PHA; TSX
  \hBD, \h03, \h01, \h29, \h10,       \*        LDA $0103,X; AND #$10
  \hD0, \h04,                         \*        BNE brk
  \h46, \h05,                         \*        LSR $05
  \h10, \h06,                         \*        BPL out
  \hA5, \h06, \h49, \h01, \h85, \h06, \* brk:   LDA $06; EOR #1; STA $06
  \h68, \hAA, \h68, \h40 >>)          \* out:   PLA; TAX; PLA; RTI

NmiHandler == Place(\h8200, <<
  \h48, \hF8, \hA9, \h80, \h85, \h07, \*        PHA; SED; LDA #$80; STA $07
  \h68, \h40 >>)                      \*        PLA; RTI

Vectors == Place(\h03F4, << \h00, \h80 >>) @@ Place(\hFFFA, << \h00, \h82, \h00, \h80, \h00, \h81 >>)

RomBytes == Main @@ IrqHandler @@ NmiHandler @@ Vectors
RamAddresses == (0..7) \cup (\h01E0..\h01FF)
ProgramRam == {0, 1, 2, 3, 6}

Cleared == [a |-> 0, x |-> 0, y |-> 0, sp |-> 0, pc |-> 0, p |-> {},
            mem |-> [i \in RamAddresses |->
                       CASE i = 2 -> 1 [] i = 7 -> \h80 [] OTHER -> 0],
            uart |-> Silent]
BootMachine == [reset(Cleared) EXCEPT !.mem = Cleared.mem]
=============================================================================
