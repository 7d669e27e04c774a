----------------------------- MODULE PortProofs -----------------------------
(* The C port of the core is the Sage core: from any machine, on any ROM and  *)
(* with any interrupts, bytes received and resets, each instruction leaves    *)
(* the same registers, memory and serial bytes behind and takes as long.      *)
(*                                                                            *)
(* The proof compares the two opcode tables entry by entry, then the helpers  *)
(* (reads, writes, stack, addressing modes), then the operations, and puts    *)
(* them together as cpu_step and step() do.                                   *)
EXTENDS Port, AluProofs, SequenceTheorems

-----------------------------------------------------------------------------
(* The names of the operations, in the order of the ids of the C port *)
NAMES ==
  << "LDA", "LDX", "LDY", "STA", "STX", "STY", "TAX", "TXA", "TAY", "TYA", "TSX", "TXS",
     "PHA", "PHP", "PLA", "PLP", "ADC", "SBC", "AND", "ORA", "EOR", "BIT", "CMP", "CPX",
     "CPY", "INC", "DEC", "INX", "INY", "DEX", "DEY", "ASL", "LSR", "ROL", "ROR", "BCC",
     "BCS", "BEQ", "BMI", "BNE", "BPL", "BVC", "BVS", "JMP", "JSR", "RTS", "BRK", "RTI",
     "NOP", "CLC", "CLD", "CLI", "CLV", "SEC", "SED", "SEI" >>

NameOf(id) == NAMES[id + 1]

Id(code) == C!IDS[code + 1]
Name(code) == NameOf(Id(code))
Used(code) == Id(code) # 0 \/ code \in C!LDA_CODES

(* The operations there are of each addressing mode: of an operand byte, of   *)
(* the accumulator, branches, without operand, and of memory *)
IMMEDIATE == {0, 1, 2} \cup (16..20) \cup (22..24)
SHIFTS == 31..34
BRANCHES == 35..42
IMPLIED == (6..15) \cup (27..30) \cup (45..55)
MEMORY == (0..5) \cup (16..26) \cup SHIFTS \cup {43, 44}

ADDRESSED == {"ZP", "ZPX", "ZPY", "ABS", "ABSX", "ABSY", "INDX", "INDY", "IND"}
Fits(id, mode) ==
  \/ mode = "IMM" /\ id \in IMMEDIATE
  \/ mode = "ACC" /\ id \in SHIFTS
  \/ mode = "REL" /\ id \in BRANCHES
  \/ mode = "IMP" /\ id \in IMPLIED
  \/ mode \in ADDRESSED /\ id \in MEMORY

(* An entry of the C table, and an opcode it leaves undefined *)
Is(code, id, mode) == Used(code) /\ Id(code) = id /\ C!MODE(code) = mode

(* What the C table has for an opcode the Sage table has too. *)
Entry(code) ==
  Used(code) => /\ Name(code) \in DOMAIN OPCODES
                /\ C!MODE(code) \in DOMAIN OPCODES[Name(code)]
                /\ OPCODES[Name(code)][C!MODE(code)] = code
                /\ Fits(Id(code), C!MODE(code))

(* What the Sage table has for an operation the C table has too. *)
Column(op) ==
  \A mode \in DOMAIN OPCODES[op] :
    LET code == OPCODES[op][mode]
    IN code \in Byte /\ Used(code) /\ Name(code) = op /\ C!MODE(code) = mode

(* The cycles of an opcode, in the table of one core and by the rule of the   *)
(* other *)
Clock(code) ==
  /\ C!CY[code + 1] \in Nat
  /\ C!CY[code + 1] = IF Used(code) THEN defined_cycles(Name(code), C!MODE(code))
                      ELSE undefined_cycles(code)

LEMMA NamesOfIds ==
  /\ NameOf(0) = "LDA" /\ NameOf(1) = "LDX" /\ NameOf(2) = "LDY" /\ NameOf(3) = "STA"
  /\ NameOf(4) = "STX" /\ NameOf(5) = "STY" /\ NameOf(6) = "TAX" /\ NameOf(7) = "TXA"
  /\ NameOf(8) = "TAY" /\ NameOf(9) = "TYA" /\ NameOf(10) = "TSX" /\ NameOf(11) = "TXS"
  /\ NameOf(12) = "PHA" /\ NameOf(13) = "PHP" /\ NameOf(14) = "PLA" /\ NameOf(15) = "PLP"
  /\ NameOf(16) = "ADC" /\ NameOf(17) = "SBC" /\ NameOf(18) = "AND" /\ NameOf(19) = "ORA"
  /\ NameOf(20) = "EOR" /\ NameOf(21) = "BIT" /\ NameOf(22) = "CMP" /\ NameOf(23) = "CPX"
  /\ NameOf(24) = "CPY" /\ NameOf(25) = "INC" /\ NameOf(26) = "DEC" /\ NameOf(27) = "INX"
  /\ NameOf(28) = "INY" /\ NameOf(29) = "DEX" /\ NameOf(30) = "DEY" /\ NameOf(31) = "ASL"
  /\ NameOf(32) = "LSR" /\ NameOf(33) = "ROL" /\ NameOf(34) = "ROR" /\ NameOf(35) = "BCC"
  /\ NameOf(36) = "BCS" /\ NameOf(37) = "BEQ" /\ NameOf(38) = "BMI" /\ NameOf(39) = "BNE"
  /\ NameOf(40) = "BPL" /\ NameOf(41) = "BVC" /\ NameOf(42) = "BVS" /\ NameOf(43) = "JMP"
  /\ NameOf(44) = "JSR" /\ NameOf(45) = "RTS" /\ NameOf(46) = "BRK" /\ NameOf(47) = "RTI"
  /\ NameOf(48) = "NOP" /\ NameOf(49) = "CLC" /\ NameOf(50) = "CLD" /\ NameOf(51) = "CLI"
  /\ NameOf(52) = "CLV" /\ NameOf(53) = "SEC" /\ NameOf(54) = "SED" /\ NameOf(55) = "SEI"
BY DEF NameOf, NAMES

LEMMA OpNames ==
  DOMAIN OPCODES =
    {"LDA", "LDX", "LDY", "STA", "STX", "STY", "TAX", "TXA", "TAY", "TYA", "TSX", "TXS",
     "PHA", "PHP", "PLA", "PLP", "ADC", "SBC", "AND", "ORA", "EOR", "BIT", "CMP", "CPX",
     "CPY", "INC", "DEC", "INX", "INY", "DEX", "DEY", "ASL", "LSR", "ROL", "ROR", "BCC",
     "BCS", "BEQ", "BMI", "BNE", "BPL", "BVC", "BVS", "JMP", "JSR", "RTS", "BRK", "RTI",
     "NOP", "CLC", "CLD", "CLI", "CLV", "SEC", "SED", "SEI"}
BY DEF OPCODES

(* The Sage table, operation by operation *)
LEMMA LoadsTable ==
  /\ OPCODES["LDA"] = [IMM |-> \hA9, ZP |-> \hA5, ZPX |-> \hB5, ABS |-> \hAD,
                      ABSX |-> \hBD, ABSY |-> \hB9, INDX |-> \hA1, INDY |-> \hB1]
  /\ OPCODES["LDX"] = [IMM |-> \hA2, ZP |-> \hA6, ZPY |-> \hB6, ABS |-> \hAE, ABSY |-> \hBE]
  /\ OPCODES["LDY"] = [IMM |-> \hA0, ZP |-> \hA4, ZPX |-> \hB4, ABS |-> \hAC, ABSX |-> \hBC]
BY SMTT(60) DEF OPCODES

LEMMA StoresTable ==
  /\ OPCODES["STA"] = [ZP |-> \h85, ZPX |-> \h95, ABS |-> \h8D, ABSX |-> \h9D,
                      ABSY |-> \h99, INDX |-> \h81, INDY |-> \h91]
  /\ OPCODES["STX"] = [ZP |-> \h86, ZPY |-> \h96, ABS |-> \h8E]
  /\ OPCODES["STY"] = [ZP |-> \h84, ZPX |-> \h94, ABS |-> \h8C]
BY SMTT(60) DEF OPCODES

LEMMA TransfersTable ==
  /\ OPCODES["TAX"] = [IMP |-> \hAA]
  /\ OPCODES["TXA"] = [IMP |-> \h8A]
  /\ OPCODES["TAY"] = [IMP |-> \hA8]
  /\ OPCODES["TYA"] = [IMP |-> \h98]
  /\ OPCODES["TSX"] = [IMP |-> \hBA]
  /\ OPCODES["TXS"] = [IMP |-> \h9A]
  /\ OPCODES["PHA"] = [IMP |-> \h48]
  /\ OPCODES["PHP"] = [IMP |-> \h08]
  /\ OPCODES["PLA"] = [IMP |-> \h68]
  /\ OPCODES["PLP"] = [IMP |-> \h28]
BY ZenonT(30) DEF OPCODES

LEMMA SumsTable ==
  /\ OPCODES["ADC"] = [IMM |-> \h69, ZP |-> \h65, ZPX |-> \h75, ABS |-> \h6D,
                      ABSX |-> \h7D, ABSY |-> \h79, INDX |-> \h61, INDY |-> \h71]
  /\ OPCODES["SBC"] = [IMM |-> \hE9, ZP |-> \hE5, ZPX |-> \hF5, ABS |-> \hED,
                      ABSX |-> \hFD, ABSY |-> \hF9, INDX |-> \hE1, INDY |-> \hF1]
BY SMTT(60) DEF OPCODES

LEMMA LogicTable ==
  /\ OPCODES["AND"] = [IMM |-> \h29, ZP |-> \h25, ZPX |-> \h35, ABS |-> \h2D,
                      ABSX |-> \h3D, ABSY |-> \h39, INDX |-> \h21, INDY |-> \h31]
  /\ OPCODES["ORA"] = [IMM |-> \h09, ZP |-> \h05, ZPX |-> \h15, ABS |-> \h0D,
                      ABSX |-> \h1D, ABSY |-> \h19, INDX |-> \h01, INDY |-> \h11]
  /\ OPCODES["EOR"] = [IMM |-> \h49, ZP |-> \h45, ZPX |-> \h55, ABS |-> \h4D,
                      ABSX |-> \h5D, ABSY |-> \h59, INDX |-> \h41, INDY |-> \h51]
BY SMTT(60) DEF OPCODES

LEMMA ComparesTable ==
  /\ OPCODES["CMP"] = [IMM |-> \hC9, ZP |-> \hC5, ZPX |-> \hD5, ABS |-> \hCD,
                      ABSX |-> \hDD, ABSY |-> \hD9, INDX |-> \hC1, INDY |-> \hD1]
  /\ OPCODES["CPX"] = [IMM |-> \hE0, ZP |-> \hE4, ABS |-> \hEC]
  /\ OPCODES["CPY"] = [IMM |-> \hC0, ZP |-> \hC4, ABS |-> \hCC]
  /\ OPCODES["BIT"] = [ZP |-> \h24, ABS |-> \h2C]
BY SMTT(60) DEF OPCODES

LEMMA CountsTable ==
  /\ OPCODES["INC"] = [ZP |-> \hE6, ZPX |-> \hF6, ABS |-> \hEE, ABSX |-> \hFE]
  /\ OPCODES["DEC"] = [ZP |-> \hC6, ZPX |-> \hD6, ABS |-> \hCE, ABSX |-> \hDE]
  /\ OPCODES["INX"] = [IMP |-> \hE8]
  /\ OPCODES["INY"] = [IMP |-> \hC8]
  /\ OPCODES["DEX"] = [IMP |-> \hCA]
  /\ OPCODES["DEY"] = [IMP |-> \h88]
BY SMTT(60) DEF OPCODES

LEMMA ShiftsTable ==
  /\ OPCODES["ASL"] = [ACC |-> \h0A, ZP |-> \h06, ZPX |-> \h16, ABS |-> \h0E, ABSX |-> \h1E]
  /\ OPCODES["LSR"] = [ACC |-> \h4A, ZP |-> \h46, ZPX |-> \h56, ABS |-> \h4E, ABSX |-> \h5E]
  /\ OPCODES["ROL"] = [ACC |-> \h2A, ZP |-> \h26, ZPX |-> \h36, ABS |-> \h2E, ABSX |-> \h3E]
  /\ OPCODES["ROR"] = [ACC |-> \h6A, ZP |-> \h66, ZPX |-> \h76, ABS |-> \h6E, ABSX |-> \h7E]
BY SMTT(60) DEF OPCODES

LEMMA BranchesTable ==
  /\ OPCODES["BCC"] = [REL |-> \h90]
  /\ OPCODES["BCS"] = [REL |-> \hB0]
  /\ OPCODES["BEQ"] = [REL |-> \hF0]
  /\ OPCODES["BMI"] = [REL |-> \h30]
  /\ OPCODES["BNE"] = [REL |-> \hD0]
  /\ OPCODES["BPL"] = [REL |-> \h10]
  /\ OPCODES["BVC"] = [REL |-> \h50]
  /\ OPCODES["BVS"] = [REL |-> \h70]
BY SMTT(30) DEF OPCODES

LEMMA JumpsTable ==
  /\ OPCODES["JMP"] = [ABS |-> \h4C, IND |-> \h6C]
  /\ OPCODES["JSR"] = [ABS |-> \h20]
  /\ OPCODES["RTS"] = [IMP |-> \h60]
  /\ OPCODES["BRK"] = [IMP |-> \h00]
  /\ OPCODES["RTI"] = [IMP |-> \h40]
  /\ OPCODES["NOP"] = [IMP |-> \hEA]
BY SMTT(60) DEF OPCODES

LEMMA FlagOpsTable ==
  /\ OPCODES["CLC"] = [IMP |-> \h18]
  /\ OPCODES["CLD"] = [IMP |-> \hD8]
  /\ OPCODES["CLI"] = [IMP |-> \h58]
  /\ OPCODES["CLV"] = [IMP |-> \hB8]
  /\ OPCODES["SEC"] = [IMP |-> \h38]
  /\ OPCODES["SED"] = [IMP |-> \hF8]
  /\ OPCODES["SEI"] = [IMP |-> \h78]
BY ZenonT(30) DEF OPCODES

(* The C table, row by row of sixteen *)
LEMMA Row0 ==
  /\ Is(\h00, 46, "IMP") /\ Is(\h01, 19, "INDX") /\ Is(\h05, 19, "ZP")
  /\ Is(\h06, 31, "ZP") /\ Is(\h08, 13, "IMP") /\ Is(\h09, 19, "IMM")
  /\ Is(\h0A, 31, "ACC") /\ Is(\h0D, 19, "ABS") /\ Is(\h0E, 31, "ABS")
  /\ ~Used(\h02) /\ ~Used(\h03) /\ ~Used(\h04) /\ ~Used(\h07) /\ ~Used(\h0B) /\ ~Used(\h0C)
  /\ ~Used(\h0F)
BY SMTT(60) DEF C!IDS, C!LDA_CODES, C!MODE, C!regular_mode, Id, Used, Is

LEMMA Row1 ==
  /\ Is(\h10, 40, "REL") /\ Is(\h11, 19, "INDY") /\ Is(\h15, 19, "ZPX")
  /\ Is(\h16, 31, "ZPX") /\ Is(\h18, 49, "IMP") /\ Is(\h19, 19, "ABSY")
  /\ Is(\h1D, 19, "ABSX") /\ Is(\h1E, 31, "ABSX")
  /\ ~Used(\h12) /\ ~Used(\h13) /\ ~Used(\h14) /\ ~Used(\h17) /\ ~Used(\h1A) /\ ~Used(\h1B)
  /\ ~Used(\h1C) /\ ~Used(\h1F)
BY SMTT(60) DEF C!IDS, C!LDA_CODES, C!MODE, C!regular_mode, Id, Used, Is

LEMMA Row2 ==
  /\ Is(\h20, 44, "ABS") /\ Is(\h21, 18, "INDX") /\ Is(\h24, 21, "ZP")
  /\ Is(\h25, 18, "ZP") /\ Is(\h26, 33, "ZP") /\ Is(\h28, 15, "IMP")
  /\ Is(\h29, 18, "IMM") /\ Is(\h2A, 33, "ACC") /\ Is(\h2C, 21, "ABS")
  /\ Is(\h2D, 18, "ABS") /\ Is(\h2E, 33, "ABS")
  /\ ~Used(\h22) /\ ~Used(\h23) /\ ~Used(\h27) /\ ~Used(\h2B) /\ ~Used(\h2F)
BY SMTT(60) DEF C!IDS, C!LDA_CODES, C!MODE, C!regular_mode, Id, Used, Is

LEMMA Row3 ==
  /\ Is(\h30, 38, "REL") /\ Is(\h31, 18, "INDY") /\ Is(\h35, 18, "ZPX")
  /\ Is(\h36, 33, "ZPX") /\ Is(\h38, 53, "IMP") /\ Is(\h39, 18, "ABSY")
  /\ Is(\h3D, 18, "ABSX") /\ Is(\h3E, 33, "ABSX")
  /\ ~Used(\h32) /\ ~Used(\h33) /\ ~Used(\h34) /\ ~Used(\h37) /\ ~Used(\h3A) /\ ~Used(\h3B)
  /\ ~Used(\h3C) /\ ~Used(\h3F)
BY SMTT(60) DEF C!IDS, C!LDA_CODES, C!MODE, C!regular_mode, Id, Used, Is

LEMMA Row4 ==
  /\ Is(\h40, 47, "IMP") /\ Is(\h41, 20, "INDX") /\ Is(\h45, 20, "ZP")
  /\ Is(\h46, 32, "ZP") /\ Is(\h48, 12, "IMP") /\ Is(\h49, 20, "IMM")
  /\ Is(\h4A, 32, "ACC") /\ Is(\h4C, 43, "ABS") /\ Is(\h4D, 20, "ABS")
  /\ Is(\h4E, 32, "ABS")
  /\ ~Used(\h42) /\ ~Used(\h43) /\ ~Used(\h44) /\ ~Used(\h47) /\ ~Used(\h4B) /\ ~Used(\h4F)
BY SMTT(60) DEF C!IDS, C!LDA_CODES, C!MODE, C!regular_mode, Id, Used, Is

LEMMA Row5 ==
  /\ Is(\h50, 41, "REL") /\ Is(\h51, 20, "INDY") /\ Is(\h55, 20, "ZPX")
  /\ Is(\h56, 32, "ZPX") /\ Is(\h58, 51, "IMP") /\ Is(\h59, 20, "ABSY")
  /\ Is(\h5D, 20, "ABSX") /\ Is(\h5E, 32, "ABSX")
  /\ ~Used(\h52) /\ ~Used(\h53) /\ ~Used(\h54) /\ ~Used(\h57) /\ ~Used(\h5A) /\ ~Used(\h5B)
  /\ ~Used(\h5C) /\ ~Used(\h5F)
BY SMTT(60) DEF C!IDS, C!LDA_CODES, C!MODE, C!regular_mode, Id, Used, Is

LEMMA Row6 ==
  /\ Is(\h60, 45, "IMP") /\ Is(\h61, 16, "INDX") /\ Is(\h65, 16, "ZP")
  /\ Is(\h66, 34, "ZP") /\ Is(\h68, 14, "IMP") /\ Is(\h69, 16, "IMM")
  /\ Is(\h6A, 34, "ACC") /\ Is(\h6C, 43, "IND") /\ Is(\h6D, 16, "ABS")
  /\ Is(\h6E, 34, "ABS")
  /\ ~Used(\h62) /\ ~Used(\h63) /\ ~Used(\h64) /\ ~Used(\h67) /\ ~Used(\h6B) /\ ~Used(\h6F)
BY SMTT(60) DEF C!IDS, C!LDA_CODES, C!MODE, C!regular_mode, Id, Used, Is

LEMMA Row7 ==
  /\ Is(\h70, 42, "REL") /\ Is(\h71, 16, "INDY") /\ Is(\h75, 16, "ZPX")
  /\ Is(\h76, 34, "ZPX") /\ Is(\h78, 55, "IMP") /\ Is(\h79, 16, "ABSY")
  /\ Is(\h7D, 16, "ABSX") /\ Is(\h7E, 34, "ABSX")
  /\ ~Used(\h72) /\ ~Used(\h73) /\ ~Used(\h74) /\ ~Used(\h77) /\ ~Used(\h7A) /\ ~Used(\h7B)
  /\ ~Used(\h7C) /\ ~Used(\h7F)
BY SMTT(60) DEF C!IDS, C!LDA_CODES, C!MODE, C!regular_mode, Id, Used, Is

LEMMA Row8 ==
  /\ Is(\h81, 3, "INDX") /\ Is(\h84, 5, "ZP") /\ Is(\h85, 3, "ZP")
  /\ Is(\h86, 4, "ZP") /\ Is(\h88, 30, "IMP") /\ Is(\h8A, 7, "IMP")
  /\ Is(\h8C, 5, "ABS") /\ Is(\h8D, 3, "ABS") /\ Is(\h8E, 4, "ABS")
  /\ ~Used(\h80) /\ ~Used(\h82) /\ ~Used(\h83) /\ ~Used(\h87) /\ ~Used(\h89) /\ ~Used(\h8B)
  /\ ~Used(\h8F)
BY SMTT(60) DEF C!IDS, C!LDA_CODES, C!MODE, C!regular_mode, Id, Used, Is

LEMMA Row9 ==
  /\ Is(\h90, 35, "REL") /\ Is(\h91, 3, "INDY") /\ Is(\h94, 5, "ZPX")
  /\ Is(\h95, 3, "ZPX") /\ Is(\h96, 4, "ZPY") /\ Is(\h98, 9, "IMP")
  /\ Is(\h99, 3, "ABSY") /\ Is(\h9A, 11, "IMP") /\ Is(\h9D, 3, "ABSX")
  /\ ~Used(\h92) /\ ~Used(\h93) /\ ~Used(\h97) /\ ~Used(\h9B) /\ ~Used(\h9C) /\ ~Used(\h9E)
  /\ ~Used(\h9F)
BY SMTT(60) DEF C!IDS, C!LDA_CODES, C!MODE, C!regular_mode, Id, Used, Is

LEMMA RowA ==
  /\ Is(\hA0, 2, "IMM") /\ Is(\hA1, 0, "INDX") /\ Is(\hA2, 1, "IMM")
  /\ Is(\hA4, 2, "ZP") /\ Is(\hA5, 0, "ZP") /\ Is(\hA6, 1, "ZP")
  /\ Is(\hA8, 8, "IMP") /\ Is(\hA9, 0, "IMM") /\ Is(\hAA, 6, "IMP")
  /\ Is(\hAC, 2, "ABS") /\ Is(\hAD, 0, "ABS") /\ Is(\hAE, 1, "ABS")
  /\ ~Used(\hA3) /\ ~Used(\hA7) /\ ~Used(\hAB) /\ ~Used(\hAF)
BY SMTT(60) DEF C!IDS, C!LDA_CODES, C!MODE, C!regular_mode, Id, Used, Is

LEMMA RowB ==
  /\ Is(\hB0, 36, "REL") /\ Is(\hB1, 0, "INDY") /\ Is(\hB4, 2, "ZPX")
  /\ Is(\hB5, 0, "ZPX") /\ Is(\hB6, 1, "ZPY") /\ Is(\hB8, 52, "IMP")
  /\ Is(\hB9, 0, "ABSY") /\ Is(\hBA, 10, "IMP") /\ Is(\hBC, 2, "ABSX")
  /\ Is(\hBD, 0, "ABSX") /\ Is(\hBE, 1, "ABSY")
  /\ ~Used(\hB2) /\ ~Used(\hB3) /\ ~Used(\hB7) /\ ~Used(\hBB) /\ ~Used(\hBF)
BY SMTT(60) DEF C!IDS, C!LDA_CODES, C!MODE, C!regular_mode, Id, Used, Is

LEMMA RowC ==
  /\ Is(\hC0, 24, "IMM") /\ Is(\hC1, 22, "INDX") /\ Is(\hC4, 24, "ZP")
  /\ Is(\hC5, 22, "ZP") /\ Is(\hC6, 26, "ZP") /\ Is(\hC8, 28, "IMP")
  /\ Is(\hC9, 22, "IMM") /\ Is(\hCA, 29, "IMP") /\ Is(\hCC, 24, "ABS")
  /\ Is(\hCD, 22, "ABS") /\ Is(\hCE, 26, "ABS")
  /\ ~Used(\hC2) /\ ~Used(\hC3) /\ ~Used(\hC7) /\ ~Used(\hCB) /\ ~Used(\hCF)
BY SMTT(60) DEF C!IDS, C!LDA_CODES, C!MODE, C!regular_mode, Id, Used, Is

LEMMA RowD ==
  /\ Is(\hD0, 39, "REL") /\ Is(\hD1, 22, "INDY") /\ Is(\hD5, 22, "ZPX")
  /\ Is(\hD6, 26, "ZPX") /\ Is(\hD8, 50, "IMP") /\ Is(\hD9, 22, "ABSY")
  /\ Is(\hDD, 22, "ABSX") /\ Is(\hDE, 26, "ABSX")
  /\ ~Used(\hD2) /\ ~Used(\hD3) /\ ~Used(\hD4) /\ ~Used(\hD7) /\ ~Used(\hDA) /\ ~Used(\hDB)
  /\ ~Used(\hDC) /\ ~Used(\hDF)
BY SMTT(60) DEF C!IDS, C!LDA_CODES, C!MODE, C!regular_mode, Id, Used, Is

LEMMA RowE ==
  /\ Is(\hE0, 23, "IMM") /\ Is(\hE1, 17, "INDX") /\ Is(\hE4, 23, "ZP")
  /\ Is(\hE5, 17, "ZP") /\ Is(\hE6, 25, "ZP") /\ Is(\hE8, 27, "IMP")
  /\ Is(\hE9, 17, "IMM") /\ Is(\hEA, 48, "IMP") /\ Is(\hEC, 23, "ABS")
  /\ Is(\hED, 17, "ABS") /\ Is(\hEE, 25, "ABS")
  /\ ~Used(\hE2) /\ ~Used(\hE3) /\ ~Used(\hE7) /\ ~Used(\hEB) /\ ~Used(\hEF)
BY SMTT(60) DEF C!IDS, C!LDA_CODES, C!MODE, C!regular_mode, Id, Used, Is

LEMMA RowF ==
  /\ Is(\hF0, 37, "REL") /\ Is(\hF1, 17, "INDY") /\ Is(\hF5, 17, "ZPX")
  /\ Is(\hF6, 25, "ZPX") /\ Is(\hF8, 54, "IMP") /\ Is(\hF9, 17, "ABSY")
  /\ Is(\hFD, 17, "ABSX") /\ Is(\hFE, 25, "ABSX")
  /\ ~Used(\hF2) /\ ~Used(\hF3) /\ ~Used(\hF4) /\ ~Used(\hF7) /\ ~Used(\hFA) /\ ~Used(\hFB)
  /\ ~Used(\hFC) /\ ~Used(\hFF)
BY SMTT(60) DEF C!IDS, C!LDA_CODES, C!MODE, C!regular_mode, Id, Used, Is

(* The C table has nothing that the Sage table has not ... *)
LEMMA Entries0 == \A code \in \h00..\h0F : Entry(code)
<1>1. /\ Entry(\h00) /\ Entry(\h01) /\ Entry(\h02) /\ Entry(\h03) /\ Entry(\h04) /\ Entry(\h05)
      /\ Entry(\h06) /\ Entry(\h07) /\ Entry(\h08) /\ Entry(\h09) /\ Entry(\h0A) /\ Entry(\h0B)
      /\ Entry(\h0C) /\ Entry(\h0D) /\ Entry(\h0E) /\ Entry(\h0F)
  BY SMTT(30), Row0, NamesOfIds, OpNames, JumpsTable, LogicTable, ShiftsTable,
     TransfersTable
     DEF Is, Entry, Name, Fits, IMMEDIATE, SHIFTS, BRANCHES, IMPLIED, MEMORY, ADDRESSED
<1>. QED
  BY <1>1

LEMMA Entries1 == \A code \in \h10..\h1F : Entry(code)
<1>1. /\ Entry(\h10) /\ Entry(\h11) /\ Entry(\h12) /\ Entry(\h13) /\ Entry(\h14) /\ Entry(\h15)
      /\ Entry(\h16) /\ Entry(\h17) /\ Entry(\h18) /\ Entry(\h19) /\ Entry(\h1A) /\ Entry(\h1B)
      /\ Entry(\h1C) /\ Entry(\h1D) /\ Entry(\h1E) /\ Entry(\h1F)
  BY SMTT(30), Row1, NamesOfIds, OpNames, BranchesTable, FlagOpsTable, LogicTable,
     ShiftsTable
     DEF Is, Entry, Name, Fits, IMMEDIATE, SHIFTS, BRANCHES, IMPLIED, MEMORY, ADDRESSED
<1>. QED
  BY <1>1

LEMMA Entries2 == \A code \in \h20..\h2F : Entry(code)
<1>1. /\ Entry(\h20) /\ Entry(\h21) /\ Entry(\h22) /\ Entry(\h23) /\ Entry(\h24) /\ Entry(\h25)
      /\ Entry(\h26) /\ Entry(\h27) /\ Entry(\h28) /\ Entry(\h29) /\ Entry(\h2A) /\ Entry(\h2B)
      /\ Entry(\h2C) /\ Entry(\h2D) /\ Entry(\h2E) /\ Entry(\h2F)
  BY SMTT(30), Row2, NamesOfIds, OpNames, ComparesTable, JumpsTable, LogicTable,
     ShiftsTable, TransfersTable
     DEF Is, Entry, Name, Fits, IMMEDIATE, SHIFTS, BRANCHES, IMPLIED, MEMORY, ADDRESSED
<1>. QED
  BY <1>1

LEMMA Entries3 == \A code \in \h30..\h3F : Entry(code)
<1>1. /\ Entry(\h30) /\ Entry(\h31) /\ Entry(\h32) /\ Entry(\h33) /\ Entry(\h34) /\ Entry(\h35)
      /\ Entry(\h36) /\ Entry(\h37) /\ Entry(\h38) /\ Entry(\h39) /\ Entry(\h3A) /\ Entry(\h3B)
      /\ Entry(\h3C) /\ Entry(\h3D) /\ Entry(\h3E) /\ Entry(\h3F)
  BY SMTT(30), Row3, NamesOfIds, OpNames, BranchesTable, FlagOpsTable, LogicTable,
     ShiftsTable
     DEF Is, Entry, Name, Fits, IMMEDIATE, SHIFTS, BRANCHES, IMPLIED, MEMORY, ADDRESSED
<1>. QED
  BY <1>1

LEMMA Entries4 == \A code \in \h40..\h4F : Entry(code)
<1>1. /\ Entry(\h40) /\ Entry(\h41) /\ Entry(\h42) /\ Entry(\h43) /\ Entry(\h44) /\ Entry(\h45)
      /\ Entry(\h46) /\ Entry(\h47) /\ Entry(\h48) /\ Entry(\h49) /\ Entry(\h4A) /\ Entry(\h4B)
      /\ Entry(\h4C) /\ Entry(\h4D) /\ Entry(\h4E) /\ Entry(\h4F)
  BY SMTT(30), Row4, NamesOfIds, OpNames, JumpsTable, LogicTable, ShiftsTable,
     TransfersTable
     DEF Is, Entry, Name, Fits, IMMEDIATE, SHIFTS, BRANCHES, IMPLIED, MEMORY, ADDRESSED
<1>. QED
  BY <1>1

LEMMA Entries5 == \A code \in \h50..\h5F : Entry(code)
<1>1. /\ Entry(\h50) /\ Entry(\h51) /\ Entry(\h52) /\ Entry(\h53) /\ Entry(\h54) /\ Entry(\h55)
      /\ Entry(\h56) /\ Entry(\h57) /\ Entry(\h58) /\ Entry(\h59) /\ Entry(\h5A) /\ Entry(\h5B)
      /\ Entry(\h5C) /\ Entry(\h5D) /\ Entry(\h5E) /\ Entry(\h5F)
  BY SMTT(30), Row5, NamesOfIds, OpNames, BranchesTable, FlagOpsTable, LogicTable,
     ShiftsTable
     DEF Is, Entry, Name, Fits, IMMEDIATE, SHIFTS, BRANCHES, IMPLIED, MEMORY, ADDRESSED
<1>. QED
  BY <1>1

LEMMA Entries6 == \A code \in \h60..\h6F : Entry(code)
<1>1. /\ Entry(\h60) /\ Entry(\h61) /\ Entry(\h62) /\ Entry(\h63) /\ Entry(\h64) /\ Entry(\h65)
      /\ Entry(\h66) /\ Entry(\h67) /\ Entry(\h68) /\ Entry(\h69) /\ Entry(\h6A) /\ Entry(\h6B)
      /\ Entry(\h6C) /\ Entry(\h6D) /\ Entry(\h6E) /\ Entry(\h6F)
  BY SMTT(30), Row6, NamesOfIds, OpNames, JumpsTable, ShiftsTable, SumsTable,
     TransfersTable
     DEF Is, Entry, Name, Fits, IMMEDIATE, SHIFTS, BRANCHES, IMPLIED, MEMORY, ADDRESSED
<1>. QED
  BY <1>1

LEMMA Entries7 == \A code \in \h70..\h7F : Entry(code)
<1>1. /\ Entry(\h70) /\ Entry(\h71) /\ Entry(\h72) /\ Entry(\h73) /\ Entry(\h74) /\ Entry(\h75)
      /\ Entry(\h76) /\ Entry(\h77) /\ Entry(\h78) /\ Entry(\h79) /\ Entry(\h7A) /\ Entry(\h7B)
      /\ Entry(\h7C) /\ Entry(\h7D) /\ Entry(\h7E) /\ Entry(\h7F)
  BY SMTT(30), Row7, NamesOfIds, OpNames, BranchesTable, FlagOpsTable, ShiftsTable,
     SumsTable
     DEF Is, Entry, Name, Fits, IMMEDIATE, SHIFTS, BRANCHES, IMPLIED, MEMORY, ADDRESSED
<1>. QED
  BY <1>1

LEMMA Entries8 == \A code \in \h80..\h8F : Entry(code)
<1>1. /\ Entry(\h80) /\ Entry(\h81) /\ Entry(\h82) /\ Entry(\h83) /\ Entry(\h84) /\ Entry(\h85)
      /\ Entry(\h86) /\ Entry(\h87) /\ Entry(\h88) /\ Entry(\h89) /\ Entry(\h8A) /\ Entry(\h8B)
      /\ Entry(\h8C) /\ Entry(\h8D) /\ Entry(\h8E) /\ Entry(\h8F)
  BY SMTT(30), Row8, NamesOfIds, OpNames, CountsTable, StoresTable, TransfersTable
     DEF Is, Entry, Name, Fits, IMMEDIATE, SHIFTS, BRANCHES, IMPLIED, MEMORY, ADDRESSED
<1>. QED
  BY <1>1

LEMMA Entries9 == \A code \in \h90..\h9F : Entry(code)
<1>1. /\ Entry(\h90) /\ Entry(\h91) /\ Entry(\h92) /\ Entry(\h93) /\ Entry(\h94) /\ Entry(\h95)
      /\ Entry(\h96) /\ Entry(\h97) /\ Entry(\h98) /\ Entry(\h99) /\ Entry(\h9A) /\ Entry(\h9B)
      /\ Entry(\h9C) /\ Entry(\h9D) /\ Entry(\h9E) /\ Entry(\h9F)
  BY SMTT(30), Row9, NamesOfIds, OpNames, BranchesTable, StoresTable, TransfersTable
     DEF Is, Entry, Name, Fits, IMMEDIATE, SHIFTS, BRANCHES, IMPLIED, MEMORY, ADDRESSED
<1>. QED
  BY <1>1

LEMMA EntriesA == \A code \in \hA0..\hAF : Entry(code)
<1>1. /\ Entry(\hA0) /\ Entry(\hA1) /\ Entry(\hA2) /\ Entry(\hA3) /\ Entry(\hA4) /\ Entry(\hA5)
      /\ Entry(\hA6) /\ Entry(\hA7) /\ Entry(\hA8) /\ Entry(\hA9) /\ Entry(\hAA) /\ Entry(\hAB)
      /\ Entry(\hAC) /\ Entry(\hAD) /\ Entry(\hAE) /\ Entry(\hAF)
  BY SMTT(30), RowA, NamesOfIds, OpNames, LoadsTable, TransfersTable
     DEF Is, Entry, Name, Fits, IMMEDIATE, SHIFTS, BRANCHES, IMPLIED, MEMORY, ADDRESSED
<1>. QED
  BY <1>1

LEMMA EntriesB == \A code \in \hB0..\hBF : Entry(code)
<1>1. /\ Entry(\hB0) /\ Entry(\hB1) /\ Entry(\hB2) /\ Entry(\hB3) /\ Entry(\hB4) /\ Entry(\hB5)
      /\ Entry(\hB6) /\ Entry(\hB7) /\ Entry(\hB8) /\ Entry(\hB9) /\ Entry(\hBA) /\ Entry(\hBB)
      /\ Entry(\hBC) /\ Entry(\hBD) /\ Entry(\hBE) /\ Entry(\hBF)
  BY SMTT(30), RowB, NamesOfIds, OpNames, BranchesTable, FlagOpsTable, LoadsTable,
     TransfersTable
     DEF Is, Entry, Name, Fits, IMMEDIATE, SHIFTS, BRANCHES, IMPLIED, MEMORY, ADDRESSED
<1>. QED
  BY <1>1

LEMMA EntriesC == \A code \in \hC0..\hCF : Entry(code)
<1>1. /\ Entry(\hC0) /\ Entry(\hC1) /\ Entry(\hC2) /\ Entry(\hC3) /\ Entry(\hC4) /\ Entry(\hC5)
      /\ Entry(\hC6) /\ Entry(\hC7) /\ Entry(\hC8) /\ Entry(\hC9) /\ Entry(\hCA) /\ Entry(\hCB)
      /\ Entry(\hCC) /\ Entry(\hCD) /\ Entry(\hCE) /\ Entry(\hCF)
  BY SMTT(30), RowC, NamesOfIds, OpNames, ComparesTable, CountsTable
     DEF Is, Entry, Name, Fits, IMMEDIATE, SHIFTS, BRANCHES, IMPLIED, MEMORY, ADDRESSED
<1>. QED
  BY <1>1

LEMMA EntriesD == \A code \in \hD0..\hDF : Entry(code)
<1>1. /\ Entry(\hD0) /\ Entry(\hD1) /\ Entry(\hD2) /\ Entry(\hD3) /\ Entry(\hD4) /\ Entry(\hD5)
      /\ Entry(\hD6) /\ Entry(\hD7) /\ Entry(\hD8) /\ Entry(\hD9) /\ Entry(\hDA) /\ Entry(\hDB)
      /\ Entry(\hDC) /\ Entry(\hDD) /\ Entry(\hDE) /\ Entry(\hDF)
  BY SMTT(30), RowD, NamesOfIds, OpNames, BranchesTable, ComparesTable, CountsTable,
     FlagOpsTable
     DEF Is, Entry, Name, Fits, IMMEDIATE, SHIFTS, BRANCHES, IMPLIED, MEMORY, ADDRESSED
<1>. QED
  BY <1>1

LEMMA EntriesE == \A code \in \hE0..\hEF : Entry(code)
<1>1. /\ Entry(\hE0) /\ Entry(\hE1) /\ Entry(\hE2) /\ Entry(\hE3) /\ Entry(\hE4) /\ Entry(\hE5)
      /\ Entry(\hE6) /\ Entry(\hE7) /\ Entry(\hE8) /\ Entry(\hE9) /\ Entry(\hEA) /\ Entry(\hEB)
      /\ Entry(\hEC) /\ Entry(\hED) /\ Entry(\hEE) /\ Entry(\hEF)
  BY SMTT(30), RowE, NamesOfIds, OpNames, ComparesTable, CountsTable, JumpsTable,
     SumsTable
     DEF Is, Entry, Name, Fits, IMMEDIATE, SHIFTS, BRANCHES, IMPLIED, MEMORY, ADDRESSED
<1>. QED
  BY <1>1

LEMMA EntriesF == \A code \in \hF0..\hFF : Entry(code)
<1>1. /\ Entry(\hF0) /\ Entry(\hF1) /\ Entry(\hF2) /\ Entry(\hF3) /\ Entry(\hF4) /\ Entry(\hF5)
      /\ Entry(\hF6) /\ Entry(\hF7) /\ Entry(\hF8) /\ Entry(\hF9) /\ Entry(\hFA) /\ Entry(\hFB)
      /\ Entry(\hFC) /\ Entry(\hFD) /\ Entry(\hFE) /\ Entry(\hFF)
  BY SMTT(30), RowF, NamesOfIds, OpNames, BranchesTable, CountsTable, FlagOpsTable,
     SumsTable
     DEF Is, Entry, Name, Fits, IMMEDIATE, SHIFTS, BRANCHES, IMPLIED, MEMORY, ADDRESSED
<1>. QED
  BY <1>1

(* ... nor the other way round. *)
LEMMA LoadsColumns ==
  /\ Column("LDA") /\ Column("LDX") /\ Column("LDY")
BY LoadsTable, NamesOfIds, RowA, RowB
   DEF Column, Is, Name, Byte

LEMMA StoresColumns ==
  /\ Column("STA") /\ Column("STX") /\ Column("STY")
BY StoresTable, NamesOfIds, Row8, Row9
   DEF Column, Is, Name, Byte

LEMMA TransfersColumns ==
  /\ Column("TAX") /\ Column("TXA") /\ Column("TAY") /\ Column("TYA") /\ Column("TSX")
  /\ Column("TXS") /\ Column("PHA") /\ Column("PHP") /\ Column("PLA") /\ Column("PLP")
BY SMTT(30), TransfersTable, NamesOfIds, Row0, Row2, Row4, Row6, Row8, Row9, RowA,
   RowB
   DEF Column, Is, Name, Byte

LEMMA SumsColumns ==
  /\ Column("ADC") /\ Column("SBC")
BY SumsTable, NamesOfIds, Row6, Row7, RowE, RowF
   DEF Column, Is, Name, Byte

LEMMA LogicColumns ==
  /\ Column("AND") /\ Column("ORA") /\ Column("EOR")
BY SMTT(30), LogicTable, NamesOfIds, Row0, Row1, Row2, Row3, Row4, Row5
   DEF Column, Is, Name, Byte

LEMMA ComparesColumns ==
  /\ Column("CMP") /\ Column("CPX") /\ Column("CPY") /\ Column("BIT")
BY ComparesTable, NamesOfIds, Row2, RowC, RowD, RowE
   DEF Column, Is, Name, Byte

LEMMA CountsColumns ==
  /\ Column("INC") /\ Column("DEC") /\ Column("INX") /\ Column("INY") /\ Column("DEX")
  /\ Column("DEY")
BY CountsTable, NamesOfIds, Row8, RowC, RowD, RowE, RowF
   DEF Column, Is, Name, Byte

LEMMA ShiftsColumns ==
  /\ Column("ASL") /\ Column("LSR") /\ Column("ROL") /\ Column("ROR")
BY SMTT(30), ShiftsTable, NamesOfIds, Row0, Row1, Row2, Row3, Row4, Row5, Row6, Row7
   DEF Column, Is, Name, Byte

LEMMA BranchesColumns ==
  /\ Column("BCC") /\ Column("BCS") /\ Column("BEQ") /\ Column("BMI") /\ Column("BNE")
  /\ Column("BPL") /\ Column("BVC") /\ Column("BVS")
BY BranchesTable, NamesOfIds, Row1, Row3, Row5, Row7, Row9, RowB, RowD,
   RowF
   DEF Column, Is, Name, Byte

LEMMA JumpsColumns ==
  /\ Column("JMP") /\ Column("JSR") /\ Column("RTS") /\ Column("BRK") /\ Column("RTI")
  /\ Column("NOP")
BY JumpsTable, NamesOfIds, Row0, Row2, Row4, Row6, RowE
   DEF Column, Is, Name, Byte

LEMMA FlagOpsColumns ==
  /\ Column("CLC") /\ Column("CLD") /\ Column("CLI") /\ Column("CLV") /\ Column("SEC")
  /\ Column("SED") /\ Column("SEI")
BY FlagOpsTable, NamesOfIds, Row1, Row3, Row5, Row7, RowB, RowD, RowF
   DEF Column, Is, Name, Byte

(* The cycles, row by row *)
LEMMA Clock0 == \A code \in \h00..\h0F : Clock(code)
<1>1. /\ Clock(\h00) /\ Clock(\h01) /\ Clock(\h02) /\ Clock(\h03) /\ Clock(\h04) /\ Clock(\h05)
      /\ Clock(\h06) /\ Clock(\h07) /\ Clock(\h08) /\ Clock(\h09) /\ Clock(\h0A) /\ Clock(\h0B)
      /\ Clock(\h0C) /\ Clock(\h0D) /\ Clock(\h0E) /\ Clock(\h0F)
  BY Row0, NamesOfIds
     DEF Is, Name, Clock, C!CY, defined_cycles, undefined_cycles, implied_cycles,
         Rewriting, Storing
<1>. QED
  BY <1>1

LEMMA Clock1 == \A code \in \h10..\h1F : Clock(code)
<1>1. /\ Clock(\h10) /\ Clock(\h11) /\ Clock(\h12) /\ Clock(\h13) /\ Clock(\h14) /\ Clock(\h15)
      /\ Clock(\h16) /\ Clock(\h17) /\ Clock(\h18) /\ Clock(\h19) /\ Clock(\h1A) /\ Clock(\h1B)
      /\ Clock(\h1C) /\ Clock(\h1D) /\ Clock(\h1E) /\ Clock(\h1F)
  BY Row1, NamesOfIds
     DEF Is, Name, Clock, C!CY, defined_cycles, undefined_cycles, implied_cycles,
         Rewriting, Storing
<1>. QED
  BY <1>1

LEMMA Clock2 == \A code \in \h20..\h2F : Clock(code)
<1>1. /\ Clock(\h20) /\ Clock(\h21) /\ Clock(\h22) /\ Clock(\h23) /\ Clock(\h24) /\ Clock(\h25)
      /\ Clock(\h26) /\ Clock(\h27) /\ Clock(\h28) /\ Clock(\h29) /\ Clock(\h2A) /\ Clock(\h2B)
      /\ Clock(\h2C) /\ Clock(\h2D) /\ Clock(\h2E) /\ Clock(\h2F)
  BY Row2, NamesOfIds
     DEF Is, Name, Clock, C!CY, defined_cycles, undefined_cycles, implied_cycles,
         Rewriting, Storing
<1>. QED
  BY <1>1

LEMMA Clock3 == \A code \in \h30..\h3F : Clock(code)
<1>1. /\ Clock(\h30) /\ Clock(\h31) /\ Clock(\h32) /\ Clock(\h33) /\ Clock(\h34) /\ Clock(\h35)
      /\ Clock(\h36) /\ Clock(\h37) /\ Clock(\h38) /\ Clock(\h39) /\ Clock(\h3A) /\ Clock(\h3B)
      /\ Clock(\h3C) /\ Clock(\h3D) /\ Clock(\h3E) /\ Clock(\h3F)
  BY Row3, NamesOfIds
     DEF Is, Name, Clock, C!CY, defined_cycles, undefined_cycles, implied_cycles,
         Rewriting, Storing
<1>. QED
  BY <1>1

LEMMA Clock4 == \A code \in \h40..\h4F : Clock(code)
<1>1. /\ Clock(\h40) /\ Clock(\h41) /\ Clock(\h42) /\ Clock(\h43) /\ Clock(\h44) /\ Clock(\h45)
      /\ Clock(\h46) /\ Clock(\h47) /\ Clock(\h48) /\ Clock(\h49) /\ Clock(\h4A) /\ Clock(\h4B)
      /\ Clock(\h4C) /\ Clock(\h4D) /\ Clock(\h4E) /\ Clock(\h4F)
  BY Row4, NamesOfIds
     DEF Is, Name, Clock, C!CY, defined_cycles, undefined_cycles, implied_cycles,
         Rewriting, Storing
<1>. QED
  BY <1>1

LEMMA Clock5 == \A code \in \h50..\h5F : Clock(code)
<1>1. /\ Clock(\h50) /\ Clock(\h51) /\ Clock(\h52) /\ Clock(\h53) /\ Clock(\h54) /\ Clock(\h55)
      /\ Clock(\h56) /\ Clock(\h57) /\ Clock(\h58) /\ Clock(\h59) /\ Clock(\h5A) /\ Clock(\h5B)
      /\ Clock(\h5C) /\ Clock(\h5D) /\ Clock(\h5E) /\ Clock(\h5F)
  BY Row5, NamesOfIds
     DEF Is, Name, Clock, C!CY, defined_cycles, undefined_cycles, implied_cycles,
         Rewriting, Storing
<1>. QED
  BY <1>1

LEMMA Clock6 == \A code \in \h60..\h6F : Clock(code)
<1>1. /\ Clock(\h60) /\ Clock(\h61) /\ Clock(\h62) /\ Clock(\h63) /\ Clock(\h64) /\ Clock(\h65)
      /\ Clock(\h66) /\ Clock(\h67) /\ Clock(\h68) /\ Clock(\h69) /\ Clock(\h6A) /\ Clock(\h6B)
      /\ Clock(\h6C) /\ Clock(\h6D) /\ Clock(\h6E) /\ Clock(\h6F)
  BY Row6, NamesOfIds
     DEF Is, Name, Clock, C!CY, defined_cycles, undefined_cycles, implied_cycles,
         Rewriting, Storing
<1>. QED
  BY <1>1

LEMMA Clock7 == \A code \in \h70..\h7F : Clock(code)
<1>1. /\ Clock(\h70) /\ Clock(\h71) /\ Clock(\h72) /\ Clock(\h73) /\ Clock(\h74) /\ Clock(\h75)
      /\ Clock(\h76) /\ Clock(\h77) /\ Clock(\h78) /\ Clock(\h79) /\ Clock(\h7A) /\ Clock(\h7B)
      /\ Clock(\h7C) /\ Clock(\h7D) /\ Clock(\h7E) /\ Clock(\h7F)
  BY Row7, NamesOfIds
     DEF Is, Name, Clock, C!CY, defined_cycles, undefined_cycles, implied_cycles,
         Rewriting, Storing
<1>. QED
  BY <1>1

LEMMA Clock8 == \A code \in \h80..\h8F : Clock(code)
<1>1. /\ Clock(\h80) /\ Clock(\h81) /\ Clock(\h82) /\ Clock(\h83) /\ Clock(\h84) /\ Clock(\h85)
      /\ Clock(\h86) /\ Clock(\h87) /\ Clock(\h88) /\ Clock(\h89) /\ Clock(\h8A) /\ Clock(\h8B)
      /\ Clock(\h8C) /\ Clock(\h8D) /\ Clock(\h8E) /\ Clock(\h8F)
  BY Row8, NamesOfIds
     DEF Is, Name, Clock, C!CY, defined_cycles, undefined_cycles, implied_cycles,
         Rewriting, Storing
<1>. QED
  BY <1>1

LEMMA Clock9 == \A code \in \h90..\h9F : Clock(code)
<1>1. /\ Clock(\h90) /\ Clock(\h91) /\ Clock(\h92) /\ Clock(\h93) /\ Clock(\h94) /\ Clock(\h95)
      /\ Clock(\h96) /\ Clock(\h97) /\ Clock(\h98) /\ Clock(\h99) /\ Clock(\h9A) /\ Clock(\h9B)
      /\ Clock(\h9C) /\ Clock(\h9D) /\ Clock(\h9E) /\ Clock(\h9F)
  BY Row9, NamesOfIds
     DEF Is, Name, Clock, C!CY, defined_cycles, undefined_cycles, implied_cycles,
         Rewriting, Storing
<1>. QED
  BY <1>1

LEMMA ClockA == \A code \in \hA0..\hAF : Clock(code)
<1>1. /\ Clock(\hA0) /\ Clock(\hA1) /\ Clock(\hA2) /\ Clock(\hA3) /\ Clock(\hA4) /\ Clock(\hA5)
      /\ Clock(\hA6) /\ Clock(\hA7) /\ Clock(\hA8) /\ Clock(\hA9) /\ Clock(\hAA) /\ Clock(\hAB)
      /\ Clock(\hAC) /\ Clock(\hAD) /\ Clock(\hAE) /\ Clock(\hAF)
  BY RowA, NamesOfIds
     DEF Is, Name, Clock, C!CY, defined_cycles, undefined_cycles, implied_cycles,
         Rewriting, Storing
<1>. QED
  BY <1>1

LEMMA ClockB == \A code \in \hB0..\hBF : Clock(code)
<1>1. /\ Clock(\hB0) /\ Clock(\hB1) /\ Clock(\hB2) /\ Clock(\hB3) /\ Clock(\hB4) /\ Clock(\hB5)
      /\ Clock(\hB6) /\ Clock(\hB7) /\ Clock(\hB8) /\ Clock(\hB9) /\ Clock(\hBA) /\ Clock(\hBB)
      /\ Clock(\hBC) /\ Clock(\hBD) /\ Clock(\hBE) /\ Clock(\hBF)
  BY RowB, NamesOfIds
     DEF Is, Name, Clock, C!CY, defined_cycles, undefined_cycles, implied_cycles,
         Rewriting, Storing
<1>. QED
  BY <1>1

LEMMA ClockC == \A code \in \hC0..\hCF : Clock(code)
<1>1. /\ Clock(\hC0) /\ Clock(\hC1) /\ Clock(\hC2) /\ Clock(\hC3) /\ Clock(\hC4) /\ Clock(\hC5)
      /\ Clock(\hC6) /\ Clock(\hC7) /\ Clock(\hC8) /\ Clock(\hC9) /\ Clock(\hCA) /\ Clock(\hCB)
      /\ Clock(\hCC) /\ Clock(\hCD) /\ Clock(\hCE) /\ Clock(\hCF)
  BY RowC, NamesOfIds
     DEF Is, Name, Clock, C!CY, defined_cycles, undefined_cycles, implied_cycles,
         Rewriting, Storing
<1>. QED
  BY <1>1

LEMMA ClockD == \A code \in \hD0..\hDF : Clock(code)
<1>1. /\ Clock(\hD0) /\ Clock(\hD1) /\ Clock(\hD2) /\ Clock(\hD3) /\ Clock(\hD4) /\ Clock(\hD5)
      /\ Clock(\hD6) /\ Clock(\hD7) /\ Clock(\hD8) /\ Clock(\hD9) /\ Clock(\hDA) /\ Clock(\hDB)
      /\ Clock(\hDC) /\ Clock(\hDD) /\ Clock(\hDE) /\ Clock(\hDF)
  BY RowD, NamesOfIds
     DEF Is, Name, Clock, C!CY, defined_cycles, undefined_cycles, implied_cycles,
         Rewriting, Storing
<1>. QED
  BY <1>1

LEMMA ClockE == \A code \in \hE0..\hEF : Clock(code)
<1>1. /\ Clock(\hE0) /\ Clock(\hE1) /\ Clock(\hE2) /\ Clock(\hE3) /\ Clock(\hE4) /\ Clock(\hE5)
      /\ Clock(\hE6) /\ Clock(\hE7) /\ Clock(\hE8) /\ Clock(\hE9) /\ Clock(\hEA) /\ Clock(\hEB)
      /\ Clock(\hEC) /\ Clock(\hED) /\ Clock(\hEE) /\ Clock(\hEF)
  BY RowE, NamesOfIds
     DEF Is, Name, Clock, C!CY, defined_cycles, undefined_cycles, implied_cycles,
         Rewriting, Storing
<1>. QED
  BY <1>1

LEMMA ClockF == \A code \in \hF0..\hFF : Clock(code)
<1>1. /\ Clock(\hF0) /\ Clock(\hF1) /\ Clock(\hF2) /\ Clock(\hF3) /\ Clock(\hF4) /\ Clock(\hF5)
      /\ Clock(\hF6) /\ Clock(\hF7) /\ Clock(\hF8) /\ Clock(\hF9) /\ Clock(\hFA) /\ Clock(\hFB)
      /\ Clock(\hFC) /\ Clock(\hFD) /\ Clock(\hFE) /\ Clock(\hFF)
  BY RowF, NamesOfIds
     DEF Is, Name, Clock, C!CY, defined_cycles, undefined_cycles, implied_cycles,
         Rewriting, Storing
<1>. QED
  BY <1>1

LEMMA EveryEntry == \A code \in Byte : Entry(code)
<1>1. \A code \in Byte : code \in \h00..\h7F => Entry(code)
  BY Entries0, Entries1, Entries2, Entries3, Entries4, Entries5, Entries6, Entries7
<1>2. \A code \in Byte : code \in \h80..\hFF => Entry(code)
  BY Entries8, Entries9, EntriesA, EntriesB, EntriesC, EntriesD, EntriesE, EntriesF
<1>. QED
  BY <1>1, <1>2 DEF Byte

LEMMA EveryColumn == \A op \in DOMAIN OPCODES : Column(op)
BY OpNames, LoadsColumns, StoresColumns, TransfersColumns, SumsColumns, LogicColumns,
   ComparesColumns, CountsColumns, ShiftsColumns, BranchesColumns, JumpsColumns, FlagOpsColumns

LEMMA EveryClock == \A code \in Byte : Clock(code)
<1>1. \A code \in Byte : code \in \h00..\h7F => Clock(code)
  BY Clock0, Clock1, Clock2, Clock3, Clock4, Clock5, Clock6, Clock7
<1>2. \A code \in Byte : code \in \h80..\hFF => Clock(code)
  BY Clock8, Clock9, ClockA, ClockB, ClockC, ClockD, ClockE, ClockF
<1>. QED
  BY <1>1, <1>2 DEF Byte

(* What the Sage core decodes an opcode to: there is one operation and one    *)
(* mode for it, those of the C table, or none. *)
LEMMA DecodeUsed ==
  ASSUME NEW code \in Byte, Used(code)
  PROVE  decode[code] = [op |-> Name(code), mode |-> C!MODE(code)]
<1> DEFINE uses(op) == \E mode \in DOMAIN OPCODES[op] : OPCODES[op][mode] = code
<1>1. Name(code) \in DOMAIN OPCODES /\ uses(Name(code))
  BY EveryEntry DEF Entry
<1>2. \A op \in DOMAIN OPCODES : uses(op) => op = Name(code)
  BY EveryColumn DEF Column
<1>3. (CHOOSE o \in DOMAIN OPCODES : uses(o)) = Name(code)
  <2> HIDE DEF uses
  <2>. QED
    BY <1>1, <1>2
<1>4. \A k \in DOMAIN OPCODES[Name(code)] : OPCODES[Name(code)][k] = code => k = C!MODE(code)
  BY <1>1, EveryColumn DEF Column
<1>5. (CHOOSE k \in DOMAIN OPCODES[Name(code)] : OPCODES[Name(code)][k] = code) = C!MODE(code)
  BY <1>4, EveryEntry DEF Entry
<1>6. Meaning(code) = [op |-> Name(code), mode |-> C!MODE(code)]
  BY <1>1, <1>3, <1>5, Zenon DEF Meaning
<1>. QED
  BY <1>6 DEF decode

LEMMA DecodeUnused ==
  ASSUME NEW code \in Byte, ~Used(code)
  PROVE  decode[code] = [op |-> "LDA", mode |-> "IMP"]
<1>1. \A op \in DOMAIN OPCODES :
        ~ \E mode \in DOMAIN OPCODES[op] : OPCODES[op][mode] = code
  BY EveryColumn DEF Column
<1>2. Meaning(code) = [op |-> "LDA", mode |-> "IMP"]
  BY <1>1, Zenon DEF Meaning
<1>. QED
  BY <1>2 DEF decode

LEMMA TableUsed ==
  ASSUME NEW code, Used(code)
  PROVE  C!OP(code) = [id |-> Id(code), mode |-> C!MODE(code)]
BY DEF C!OP, Used, Id

LEMMA TableUnused ==
  ASSUME NEW code, ~Used(code)
  PROVE  C!OP(code) = [id |-> 0, mode |-> "IMP"]
BY DEF C!OP, Used, Id

(* The base cycles of an instruction *)
LEMMA CyclesAgree ==
  ASSUME NEW code \in Byte
  PROVE  CYCLES(code) = C!CY[code + 1]
<1>1. CASE Used(code)
  <2>1. C!MODE(code) \in DOMAIN OPCODES[Name(code)]
    BY <1>1, EveryEntry DEF Entry
  <2>2. "IMP" \notin DOMAIN OPCODES["LDA"]
    BY LoadsTable
  <2>3. decode[code] = [op |-> Name(code), mode |-> C!MODE(code)]
    BY <1>1, DecodeUsed
  <2>4. decode[code].op = Name(code)
    BY <2>3
  <2>5. decode[code].mode = C!MODE(code)
    BY <2>3
  <2>6. ~Undefined(code)
    BY <2>1, <2>2, <2>4, <2>5 DEF Undefined
  <2>7. C!CY[code + 1] = defined_cycles(Name(code), C!MODE(code))
    BY <1>1, EveryClock DEF Clock
  <2>. QED
    BY <2>4, <2>5, <2>6, <2>7 DEF CYCLES
<1>2. CASE ~Used(code)
  BY <1>2, DecodeUnused, EveryClock DEF CYCLES, Clock, Undefined
<1>. QED
  BY <1>1, <1>2

-----------------------------------------------------------------------------
(* The machine of the C port that mirrors m, with latches and cycles k *)
Bus(m) == [ram |-> m.mem, rx |-> m.uart.rx, tx |-> m.uart.tx]
Twin(m, k) ==
  [a |-> m.a, x |-> m.x, y |-> m.y, sp |-> m.sp, pc |-> m.pc, p |-> m.p, bus |-> Bus(m),
   cycount |-> k.cycount, irq_pending |-> k.irq_pending, nmi_pending |-> k.nmi_pending]

Mirrors(t, m, k) == t = Twin(m, k) /\ m \in Machine

LEMMA MachineFields ==
  ASSUME NEW m \in Machine
  PROVE  /\ m.a \in Byte /\ m.x \in Byte /\ m.y \in Byte /\ m.sp \in Byte
         /\ m.pc \in Address /\ m.p \in SUBSET Flags /\ m.mem \in [Ram -> Byte]
         /\ m.uart.rx \in Seq(Byte) /\ m.uart.tx \in Seq(Byte) /\ Len(m.uart.rx) < RXCAP
BY DEF Machine

LEMMA TwinFields ==
  ASSUME NEW m, NEW k
  PROVE  /\ Twin(m, k).a = m.a /\ Twin(m, k).x = m.x /\ Twin(m, k).y = m.y
         /\ Twin(m, k).sp = m.sp /\ Twin(m, k).pc = m.pc /\ Twin(m, k).p = m.p
         /\ Twin(m, k).bus = Bus(m)
BY DEF Twin

(* A register set on both sides *)
LEMMA SetA ==
  ASSUME NEW m \in Machine, NEW k, NEW v \in Byte
  PROVE  Mirrors([Twin(m, k) EXCEPT !.a = v], [m EXCEPT !.a = v], k)
<1>1. [Twin(m, k) EXCEPT !.a = v] = Twin([m EXCEPT !.a = v], k)
  BY DEF Twin, Machine, Bus
<1>2. [m EXCEPT !.a = v] \in Machine
  BY DEF Machine
<1>. QED
  BY <1>1, <1>2 DEF Mirrors

LEMMA SetX ==
  ASSUME NEW m \in Machine, NEW k, NEW v \in Byte
  PROVE  Mirrors([Twin(m, k) EXCEPT !.x = v], [m EXCEPT !.x = v], k)
<1>1. [Twin(m, k) EXCEPT !.x = v] = Twin([m EXCEPT !.x = v], k)
  BY DEF Twin, Machine, Bus
<1>2. [m EXCEPT !.x = v] \in Machine
  BY DEF Machine
<1>. QED
  BY <1>1, <1>2 DEF Mirrors

LEMMA SetY ==
  ASSUME NEW m \in Machine, NEW k, NEW v \in Byte
  PROVE  Mirrors([Twin(m, k) EXCEPT !.y = v], [m EXCEPT !.y = v], k)
<1>1. [Twin(m, k) EXCEPT !.y = v] = Twin([m EXCEPT !.y = v], k)
  BY SMTT(30) DEF Twin, Machine, Bus
<1>2. [m EXCEPT !.y = v] \in Machine
  BY DEF Machine
<1>. QED
  BY <1>1, <1>2 DEF Mirrors

LEMMA SetSp ==
  ASSUME NEW m \in Machine, NEW k, NEW v \in Byte
  PROVE  Mirrors([Twin(m, k) EXCEPT !.sp = v], [m EXCEPT !.sp = v], k)
<1>1. [Twin(m, k) EXCEPT !.sp = v] = Twin([m EXCEPT !.sp = v], k)
  BY SMTT(30) DEF Twin, Machine, Bus
<1>2. [m EXCEPT !.sp = v] \in Machine
  BY DEF Machine
<1>. QED
  BY <1>1, <1>2 DEF Mirrors

LEMMA SetPc ==
  ASSUME NEW m \in Machine, NEW k, NEW v \in Address
  PROVE  Mirrors([Twin(m, k) EXCEPT !.pc = v], [m EXCEPT !.pc = v], k)
<1>1. [Twin(m, k) EXCEPT !.pc = v] = Twin([m EXCEPT !.pc = v], k)
  BY DEF Twin, Machine, Bus
<1>2. [m EXCEPT !.pc = v] \in Machine
  BY DEF Machine
<1>. QED
  BY <1>1, <1>2 DEF Mirrors

LEMMA SetP ==
  ASSUME NEW m \in Machine, NEW k, NEW v \in SUBSET Flags
  PROVE  Mirrors([Twin(m, k) EXCEPT !.p = v], [m EXCEPT !.p = v], k)
<1>1. [Twin(m, k) EXCEPT !.p = v] = Twin([m EXCEPT !.p = v], k)
  BY DEF Twin, Machine, Bus
<1>2. [m EXCEPT !.p = v] \in Machine
  BY DEF Machine
<1>. QED
  BY <1>1, <1>2 DEF Mirrors

(* Memory and the UART changed on both sides *)

LEMMA SetMem ==
  ASSUME NEW m \in Machine, NEW f \in [Ram -> Byte]
  PROVE  /\ [m EXCEPT !.mem = f] \in Machine
         /\ Bus([m EXCEPT !.mem = f]) = [Bus(m) EXCEPT !.ram = f]
<1>1. [m EXCEPT !.mem = f] \in Machine
  BY DEF Machine
<1>2. Bus([m EXCEPT !.mem = f]) = [Bus(m) EXCEPT !.ram = f]
  BY DEF Machine, Bus
<1>. QED
  BY <1>1, <1>2

LEMMA SetUart ==
  ASSUME NEW m \in Machine, NEW r \in Seq(Byte), NEW t \in Seq(Byte), Len(r) < RXCAP
  PROVE  /\ [m EXCEPT !.uart = [rx |-> r, tx |-> t]] \in Machine
         /\ Bus([m EXCEPT !.uart = [rx |-> r, tx |-> t]]) = [ram |-> m.mem, rx |-> r, tx |-> t]
<1>1. [m EXCEPT !.uart = [rx |-> r, tx |-> t]] \in Machine
  BY DEF Machine
<1>2. Bus([m EXCEPT !.uart = [rx |-> r, tx |-> t]]) = [ram |-> m.mem, rx |-> r, tx |-> t]
  BY DEF Machine, Bus
<1>. QED
  BY <1>1, <1>2

LEMMA MemForm ==
  ASSUME NEW m, NEW addr, NEW v
  PROVE  [m EXCEPT !.mem[addr] = v] = [m EXCEPT !.mem = [m.mem EXCEPT ![addr] = v]]
OBVIOUS

LEMMA BusForm ==
  ASSUME NEW m, NEW addr, NEW v
  PROVE  [Bus(m) EXCEPT !.ram[addr] = v] = [Bus(m) EXCEPT !.ram = [m.mem EXCEPT ![addr] = v]]
BY DEF Bus

LEMMA TxForm ==
  ASSUME NEW m \in Machine, NEW v
  PROVE  [m EXCEPT !.uart.tx = v] = [m EXCEPT !.uart = [rx |-> m.uart.rx, tx |-> v]]
BY DEF Machine

LEMMA RxForm ==
  ASSUME NEW m \in Machine, NEW v
  PROVE  [m EXCEPT !.uart.rx = v] = [m EXCEPT !.uart = [rx |-> v, tx |-> m.uart.tx]]
BY DEF Machine

(* Addresses; what is where: no two parts of the bus overlap. *)
LEMMA AddressSet == \A n : n \in Address <=> n \in Int /\ 0 <= n /\ n < 65536
<1> DEFINE last == 65535
<1>1. Address = 0..last
  BY DEF Address
<1>2. last \in Int /\ \A n \in Int : n <= last <=> n < 65536
  OBVIOUS
<1> HIDE DEF last
<1>. QED
  BY <1>1, <1>2

LEMMA AddressBounds ==
  ASSUME NEW addr \in Address
  PROVE  addr \in Int /\ 0 <= addr /\ addr < 65536 /\ addr % 65536 = addr
BY AddressSet, Uint16

LEMMA Wrapped == ASSUME NEW n \in Int PROVE n % 65536 \in Address
BY AddressSet

LEMMA RamPlace ==
  ASSUME NEW addr \in Ram
  PROVE  /\ addr \in Int /\ addr < \h0400 /\ ~(addr >= \hE000) /\ addr \notin DOMAIN Rom
         /\ addr # \h2000 /\ addr # \h2001 /\ addr # \h3000
BY PortAssumption, BusAssumption, AddressBounds

LEMMA RomPlace ==
  ASSUME NEW addr \in DOMAIN Rom
  PROVE  /\ addr \in Int /\ addr >= \hE000 /\ addr # \h2000 /\ addr # \h2001 /\ addr # \h3000
         /\ Rom[addr] \in Byte
BY PortAssumption, BusAssumption, AddressBounds

(* A byte taken from the UART, and the machine without it *)
LEMMA TakeByte ==
  ASSUME NEW m \in Machine, m.uart.rx # <<>>
  PROVE  /\ Head(m.uart.rx) \in Byte
         /\ [m EXCEPT !.uart.rx = Tail(@)] \in Machine
         /\ Bus([m EXCEPT !.uart.rx = Tail(@)]) = [Bus(m) EXCEPT !.rx = Tail(@)]
<1> DEFINE rx == m.uart.rx
           r == Tail(rx)
<1>1. rx \in Seq(Byte) /\ m.uart.tx \in Seq(Byte) /\ Len(rx) < RXCAP /\ rx # <<>>
  BY MachineFields
<1>2. Head(rx) \in Byte /\ r \in Seq(Byte) /\ Len(r) = Len(rx) - 1 /\ Len(rx) \in Nat
  <2> HIDE DEF rx
  <2>. QED
    BY <1>1, HeadTailProperties, EmptySeq, LenProperties
<1>3. Len(r) < RXCAP
  BY <1>1, <1>2, PortAssumption
<1> HIDE DEF r
<1>4. [m EXCEPT !.uart = [rx |-> r, tx |-> m.uart.tx]] \in Machine
  BY <1>1, <1>2, <1>3, SetUart
<1>5. Bus([m EXCEPT !.uart = [rx |-> r, tx |-> m.uart.tx]])
        = [ram |-> m.mem, rx |-> r, tx |-> m.uart.tx]
  BY <1>1, <1>2, <1>3, SetUart
<1>6. [m EXCEPT !.uart.rx = r] = [m EXCEPT !.uart = [rx |-> r, tx |-> m.uart.tx]]
  BY RxForm
<1>7. [Bus(m) EXCEPT !.rx = r] = [ram |-> m.mem, rx |-> r, tx |-> m.uart.tx]
  BY DEF Bus
<1>8. [m EXCEPT !.uart.rx = Tail(@)] = [m EXCEPT !.uart.rx = r]
  BY DEF r
<1>9. [Bus(m) EXCEPT !.rx = Tail(@)] = [Bus(m) EXCEPT !.rx = r]
  BY DEF r, Bus
<1>. QED
  BY <1>2, <1>4, <1>5, <1>6, <1>7, <1>8, <1>9

LEMMA ReadAgrees ==
  ASSUME NEW m \in Machine, NEW addr
  PROVE  bus_c_read(Bus(m), addr) = [v |-> read8(m, addr), bus |-> Bus(rx_read(m, addr))]
<1>1. CASE addr \in Ram
  BY <1>1, RamPlace DEF bus_c_read, read8, rx_read, Bus
<1>2. CASE addr \in DOMAIN Rom
  BY <1>2, RomPlace, RamPlace DEF bus_c_read, read8, rx_read, Bus
<1>3. CASE addr = \h2000
  BY <1>3, RomPlace, RamPlace DEF bus_c_read, read8, rx_read, Bus, status
<1>4. CASE addr = \h2001
  <2>1. addr \notin Ram /\ addr \notin DOMAIN Rom /\ addr # \h2000
    BY <1>4, RamPlace, RomPlace
  <2>2. bus_c_read(Bus(m), addr) = hu_rx(Bus(m))
    BY <1>4, <2>1 DEF bus_c_read
  <2>3. read8(m, addr) = IF m.uart.rx # <<>> THEN Head(m.uart.rx) ELSE 0
    BY <1>4, <2>1 DEF read8
  <2>4. Bus(m).rx = m.uart.rx
    BY DEF Bus
  <2>5. CASE m.uart.rx = <<>>
    BY <1>4, <2>2, <2>3, <2>4, <2>5 DEF hu_rx, rx_read
  <2>6. CASE m.uart.rx # <<>>
    <3>1. rx_read(m, addr) = [m EXCEPT !.uart.rx = Tail(@)]
      BY <1>4, <2>6 DEF rx_read
    <3>2. hu_rx(Bus(m)) = [v |-> Head(m.uart.rx), bus |-> [Bus(m) EXCEPT !.rx = Tail(@)]]
      BY <2>4, <2>6 DEF hu_rx
    <3>. QED
      BY <2>2, <2>3, <2>6, <3>1, <3>2, TakeByte
  <2>. QED
    BY <2>5, <2>6
<1>5. CASE addr \notin Ram /\ addr \notin DOMAIN Rom /\ addr # \h2000 /\ addr # \h2001
  BY <1>5 DEF bus_c_read, read8, rx_read, Bus
<1>. QED
  BY <1>1, <1>2, <1>3, <1>4, <1>5

LEMMA ByteSet == \A n : n \in Byte <=> n \in Int /\ 0 <= n /\ n < 256
<1> DEFINE last == 255
<1>1. Byte = 0..last
  BY DEF Byte
<1>2. last \in Int /\ \A n \in Int : n <= last <=> n < 256
  OBVIOUS
<1> HIDE DEF last
<1>. QED
  BY <1>1, <1>2

LEMMA SmallBytes == 0 \in Byte /\ 2 \in Byte /\ 3 \in Byte
BY ByteSet

LEMMA ReadIsByte ==
  ASSUME NEW m \in Machine, NEW addr
  PROVE  read8(m, addr) \in Byte
<1>1. CASE addr \in Ram
  <2>1. m.mem[addr] \in Byte
    BY <1>1, MachineFields
  <2>. QED
    BY <1>1, <2>1, RamPlace DEF read8
<1>2. CASE addr \in DOMAIN Rom
  BY <1>2, RomPlace, RamPlace DEF read8
<1>3. CASE addr = \h2000
  <2>1. status(m.uart) \in Byte
    BY SmallBytes DEF status
  <2>. QED
    BY <1>3, <2>1, RomPlace, RamPlace DEF read8
<1>4. CASE addr \notin Ram /\ addr \notin DOMAIN Rom /\ addr # \h2000
  <2>1. CASE addr = \h2001 /\ m.uart.rx # <<>>
    <3>1. Head(m.uart.rx) \in Byte
      BY <2>1, TakeByte
    <3>. QED
      BY <1>4, <2>1, <3>1 DEF read8
  <2>2. CASE ~(addr = \h2001 /\ m.uart.rx # <<>>)
    BY <1>4, <2>2, SmallBytes DEF read8
  <2>. QED
    BY <2>1, <2>2
<1>. QED
  BY <1>1, <1>2, <1>3, <1>4

LEMMA PeekAgrees ==
  ASSUME NEW m \in Machine, NEW k, NEW addr
  PROVE  C!peek(Twin(m, k), addr) = read8(m, addr % 65536)
BY ReadAgrees, TwinFields DEF C!peek

LEMMA PeekHere ==
  ASSUME NEW m \in Machine, NEW k, NEW addr \in Address
  PROVE  C!peek(Twin(m, k), addr) = read8(m, addr)
BY AddressBounds, PeekAgrees

(* The machine once the operand of an instruction is read *)
LEMMA RxReadType ==
  ASSUME NEW m \in Machine, NEW addr
  PROVE  rx_read(m, addr) \in Machine
<1>1. CASE addr = \h2001 /\ m.uart.rx # <<>>
  <2>1. [m EXCEPT !.uart.rx = Tail(@)] \in Machine
    BY <1>1, TakeByte
  <2>. QED
    BY <1>1, <2>1 DEF rx_read
<1>2. CASE ~(addr = \h2001 /\ m.uart.rx # <<>>)
  BY <1>2 DEF rx_read
<1>. QED
  BY <1>1, <1>2

LEMMA RxReadKeeps ==
  ASSUME NEW m \in Machine, NEW addr
  PROVE  LET r == rx_read(m, addr)
         IN r.a = m.a /\ r.x = m.x /\ r.y = m.y /\ r.sp = m.sp /\ r.pc = m.pc /\ r.p = m.p
BY DEF rx_read, Machine

LEMMA OperandAgrees ==
  ASSUME NEW m \in Machine, NEW k, NEW addr
  PROVE  [Twin(m, k) EXCEPT !.bus = Bus(rx_read(m, addr))] = Twin(rx_read(m, addr), k)
BY RxReadKeeps DEF Twin

(* A byte written to memory, or to the UART or the terminal *)
LEMMA WriteBoth ==
  ASSUME NEW m \in Machine, NEW addr, NEW v \in Byte
  PROVE  /\ bus_c_write(Bus(m), addr, v) = Bus(write8(m, addr, v))
         /\ write8(m, addr, v) \in Machine
<1>1. CASE addr \in Ram
  <2> DEFINE f == [m.mem EXCEPT ![addr] = v]
  <2>1. f \in [Ram -> Byte]
    BY MachineFields
  <2>2. write8(m, addr, v) = [m EXCEPT !.mem = f]
    BY <1>1, MemForm, RamPlace DEF write8
  <2>3. bus_c_write(Bus(m), addr, v) = [Bus(m) EXCEPT !.ram = f]
    BY <1>1, BusForm, RamPlace DEF bus_c_write
  <2> HIDE DEF f
  <2>. QED
    BY <2>1, <2>2, <2>3, SetMem
<1>2. CASE addr \notin Ram /\ addr \in {\h2001, \h3000}
  <2> DEFINE t == Append(m.uart.tx, v)
  <2>1. t \in Seq(Byte) /\ m.uart.rx \in Seq(Byte) /\ Len(m.uart.rx) < RXCAP
    BY MachineFields, AppendProperties
  <2>2. write8(m, addr, v) = [m EXCEPT !.uart = [rx |-> m.uart.rx, tx |-> t]]
    <3>1. write8(m, addr, v) = [m EXCEPT !.uart.tx = t]
      BY <1>2 DEF write8, tx_write
    <3>. QED
      BY <3>1, TxForm
  <2>3. bus_c_write(Bus(m), addr, v) = [ram |-> m.mem, rx |-> m.uart.rx, tx |-> t]
    BY <1>2 DEF bus_c_write, hu_tx, Bus
  <2> DEFINE b == bus_c_write(Bus(m), addr, v)
             w == write8(m, addr, v)
             r == m.uart.rx
             n == [m EXCEPT !.uart = [rx |-> r, tx |-> t]]
  <2>4. n \in Machine /\ Bus(n) = [ram |-> m.mem, rx |-> r, tx |-> t]
    <3> HIDE DEF t, r
    <3>. QED
      BY <2>1, SetUart DEF r
  <2> HIDE DEF t, b, w, n, r
  <2>5. w = n /\ b = Bus(n) /\ n \in Machine
    BY <2>2, <2>3, <2>4 DEF b, w, n, r
  <2>. QED
    BY <2>5 DEF b, w
<1>3. CASE addr \notin Ram /\ addr \notin {\h2001, \h3000}
  BY <1>3 DEF bus_c_write, write8, Bus
<1>. QED
  BY <1>1, <1>2, <1>3

LEMMA WriteKeeps ==
  ASSUME NEW m \in Machine, NEW addr, NEW v
  PROVE  LET w == write8(m, addr, v)
         IN w.a = m.a /\ w.x = m.x /\ w.y = m.y /\ w.sp = m.sp /\ w.pc = m.pc /\ w.p = m.p
BY DEF write8, tx_write, Machine

LEMMA PokeAgrees ==
  ASSUME NEW m \in Machine, NEW k, NEW addr, NEW v \in Byte
  PROVE  Mirrors(C!poke(Twin(m, k), addr, v), write8(m, addr, v), k)
<1>1. [Twin(m, k) EXCEPT !.bus = Bus(write8(m, addr, v))] = Twin(write8(m, addr, v), k)
  BY WriteKeeps DEF Twin
<1>2. C!poke(Twin(m, k), addr, v) = [Twin(m, k) EXCEPT !.bus = Bus(write8(m, addr, v))]
  BY WriteBoth, TwinFields DEF C!poke
<1>3. write8(m, addr, v) \in Machine
  BY WriteBoth
<1>. QED
  BY <1>1, <1>2, <1>3 DEF Mirrors

-----------------------------------------------------------------------------
(* Bytes, words and addresses *)
LEMMA ByteBounds == \A b \in Byte : b \in Int /\ 0 <= b /\ b < 256
BY ByteSet

LEMMA Cut == ASSUME NEW n \in Int PROVE n % 256 \in Byte
BY ByteSet

LEMMA WordType ==
  ASSUME NEW lo \in Byte, NEW hi \in Byte
  PROVE  Word(lo, hi) \in Address /\ Word(lo, hi) = lo + 256 * hi
BY ByteBounds, AddressSet DEF Word

LEMMA Halves ==
  ASSUME NEW w \in Address
  PROVE  w \div 256 \in Byte /\ w % 256 \in Byte
BY AddressSet, ByteSet

LEMMA StackAddress ==
  ASSUME NEW b \in Byte
  PROVE  256 + b \in Address
BY ByteBounds, AddressSet

LEMMA ByteIsAddress == ASSUME NEW b \in Byte PROVE b \in Address
BY ByteBounds, AddressSet

LEMMA Read16Type ==
  ASSUME NEW m \in Machine, NEW addr
  PROVE  read16(m, addr) \in Address
BY ReadIsByte, WordType DEF read16

LEMMA Peek16Agrees ==
  ASSUME NEW m \in Machine, NEW k, NEW addr \in Address
  PROVE  C!peek16(Twin(m, k), addr) = read16(m, addr)
<1>1. C!peek(Twin(m, k), addr) = read8(m, addr)
  BY PeekHere
<1>2. C!peek(Twin(m, k), addr + 1) = read8(m, (addr + 1) % 65536)
  BY PeekAgrees
<1>3. read8(m, addr) \in Byte /\ read8(m, (addr + 1) % 65536) \in Byte
  BY ReadIsByte
<1>. QED
  BY <1>1, <1>2, <1>3, WordType DEF C!peek16, read16

(* The stack *)
LEMMA PushAgrees ==
  ASSUME NEW m \in Machine, NEW k, NEW v \in Byte
  PROVE  Mirrors(C!push(Twin(m, k), v), push(m, v), k)
<1> DEFINE w == write8(m, 256 + m.sp, v)
           t == C!poke(Twin(m, k), 256 + m.sp, v)
<1>1. t = Twin(w, k) /\ w \in Machine
  BY PokeAgrees DEF Mirrors
<1>2. C!push(Twin(m, k), v) = [t EXCEPT !.sp = (t.sp - 1) % 256]
  BY TwinFields DEF C!push
<1>3. push(m, v) = [w EXCEPT !.sp = (w.sp - 1) % 256]
  BY DEF push
<1> HIDE DEF w, t
<1>4. t.sp = w.sp
  BY <1>1, TwinFields
<1>5. (w.sp - 1) % 256 \in Byte
  BY <1>1, MachineFields, ByteBounds, Cut
<1>. QED
  BY <1>1, <1>2, <1>3, <1>4, <1>5, SetSp

LEMMA Push16Agrees ==
  ASSUME NEW m \in Machine, NEW k, NEW w \in Address
  PROVE  Mirrors(C!push16(Twin(m, k), w), push16(m, w), k)
<1>1. Mirrors(C!push(Twin(m, k), w \div 256), push(m, w \div 256), k)
  BY Halves, PushAgrees
<1>2. w % 256 \in Byte
  BY Halves
<1>. QED
  BY <1>1, <1>2, PushAgrees DEF Mirrors, C!push16, push16

LEMMA PulledAgrees ==
  ASSUME NEW m \in Machine, NEW k
  PROVE  C!pulled(Twin(m, k)) = pulled(m) /\ pulled(m) \in Byte
<1>1. (m.sp + 1) % 256 \in Byte
  BY MachineFields, ByteBounds, Cut
<1>2. C!peek(Twin(m, k), 256 + ((m.sp + 1) % 256)) = read8(m, 256 + ((m.sp + 1) % 256))
  BY <1>1, StackAddress, PeekHere
<1>. QED
  BY <1>2, TwinFields, ReadIsByte DEF C!pulled, pulled

LEMMA PullAgrees ==
  ASSUME NEW m \in Machine, NEW k
  PROVE  Mirrors(C!pull(Twin(m, k)), popped(m), k)
<1>1. (m.sp + 1) % 256 \in Byte
  BY MachineFields, ByteBounds, Cut
<1>. QED
  BY <1>1, TwinFields, SetSp DEF C!pull, popped

LEMMA Pull16Agrees ==
  ASSUME NEW m \in Machine, NEW k
  PROVE  /\ Mirrors(C!pull16(Twin(m, k)), popped16(m), k)
         /\ C!pulled16(Twin(m, k)) = pulled16(m) /\ pulled16(m) \in Address
<1>1. C!pull(Twin(m, k)) = Twin(popped(m), k) /\ popped(m) \in Machine
  BY PullAgrees DEF Mirrors
<1>2. Mirrors(C!pull16(Twin(m, k)), popped16(m), k)
  BY <1>1, PullAgrees DEF C!pull16, popped16
<1>3. C!pulled(Twin(m, k)) = pulled(m) /\ pulled(m) \in Byte
  BY PulledAgrees
<1>4. C!pulled(C!pull(Twin(m, k))) = pulled(popped(m)) /\ pulled(popped(m)) \in Byte
  BY <1>1, PulledAgrees
<1>. QED
  BY <1>2, <1>3, <1>4, WordType DEF C!pulled16, pulled16

(* The program counter *)
LEMMA AdvanceAgrees ==
  ASSUME NEW m \in Machine, NEW k, NEW n \in Int
  PROVE  Mirrors(C!advance(Twin(m, k), n), skip(m, n), k)
<1>1. (m.pc + n) % 65536 \in Address
  BY MachineFields, AddressBounds, Wrapped
<1>. QED
  BY <1>1, TwinFields, SetPc DEF C!advance, skip

-----------------------------------------------------------------------------
(* The instance of the arithmetic in the C core is the arithmetic. *)
LEMMA SameHelpers ==
  ASSUME NEW q, NEW v, NEW f, NEW on
  PROVE  /\ C!upd_nz(q, v) = upd_nz(q, v) /\ C!Put(q, f, on) = Put(q, f, on)
         /\ C!Neg(v) = Neg(v) /\ C!sbyte(v) = sbyte(v)
         /\ C!to_push_byte(q, on) = to_push_byte(q, on) /\ C!from_byte(v) = from_byte(v)
BY DEF C!upd_nz, upd_nz, C!Put, Put, C!Neg, Neg, C!sbyte, sbyte,
       C!to_push_byte, to_push_byte, C!from_byte, from_byte, C!Mask, Mask, C!Flags, Flags

LEMMA SameBitwise ==
  ASSUME NEW v, NEW w
  PROVE  /\ C!byte_and(v, w) = byte_and(v, w) /\ C!byte_or(v, w) = byte_or(v, w)
         /\ C!byte_xor(v, w) = byte_xor(v, w)
BY DEF C!byte_and, C!byte_or, C!byte_xor, C!byte_of, C!ones, C!Weights,
       byte_and, byte_or, byte_xor, byte_of, ones, Weights

LEMMA SameSums ==
  ASSUME NEW v, NEW w, NEW q
  PROVE  C!c_adc(v, w, q) = c_adc(v, w, q) /\ C!c_sbc(v, w, q) = c_sbc(v, w, q)
BY DEF C!c_adc, C!c_sbc, C!c_sbc_decimal, C!c_sbc_binary, C!Overflow, C!Digits, C!Bit,
       C!Put, C!upd_nz, C!Neg, c_adc, c_sbc, c_sbc_decimal, c_sbc_binary, Overflow, Digits,
       Bit, Put, upd_nz, Neg

LEMMA SameCompare ==
  ASSUME NEW v, NEW w, NEW q
  PROVE  C!c_compare(v, w, q) = c_compare(v, w, q)
BY DEF C!c_compare, c_compare, C!Put, C!upd_nz, C!Neg, Put, upd_nz, Neg

LEMMA SameShift ==
  ASSUME NEW op, NEW v, NEW q
  PROVE  C!c_shift(op, v, q) = c_shift(op, v, q)
BY DEF C!c_shift, c_shift, C!Bit, Bit, C!Put, C!upd_nz, C!Neg, Put, upd_nz, Neg

-----------------------------------------------------------------------------
(* The addressing modes: the word at the program counter, the pair of bytes a *)
(* zero page pointer is at, the word a pointer is at *)
LEMMA PairAgrees ==
  ASSUME NEW m \in Machine, NEW k, NEW z \in Byte
  PROVE  C!peek(Twin(m, k), z) + 256 * C!peek(Twin(m, k), (z + 1) % 256)
           = Word(read8(m, z), read8(m, (z + 1) % 256))
<1>1. (z + 1) % 256 \in Byte
  BY ByteBounds, Cut
<1>2. C!peek(Twin(m, k), z) = read8(m, z)
  BY ByteIsAddress, PeekHere
<1>3. C!peek(Twin(m, k), (z + 1) % 256) = read8(m, (z + 1) % 256)
  BY <1>1, ByteIsAddress, PeekHere
<1>. QED
  BY <1>2, <1>3, ReadIsByte, WordType

LEMMA BaseAgrees ==
  ASSUME NEW m \in Machine, NEW k, NEW mode \in {"ABSX", "ABSY", "INDY"}
  PROVE  LET zp == read8(m, m.pc)
             base == IF mode = "INDY" THEN Word(read8(m, zp), read8(m, (zp + 1) % 256))
                     ELSE read16(m, m.pc)
         IN C!base(Twin(m, k), mode) = base /\ base \in Address
<1>1. m.pc \in Address /\ read8(m, m.pc) \in Byte
  BY MachineFields, ReadIsByte
<1>2. C!peek(Twin(m, k), Twin(m, k).pc) = read8(m, m.pc)
  BY <1>1, PeekHere, TwinFields
<1>3. CASE mode = "INDY"
  <2> DEFINE zp == read8(m, m.pc)
  <2>1. C!base(Twin(m, k), mode) = C!peek(Twin(m, k), zp) + 256 * C!peek(Twin(m, k), (zp + 1) % 256)
    BY <1>2, <1>3 DEF C!base
  <2>2. read8(m, zp) \in Byte /\ read8(m, (zp + 1) % 256) \in Byte
    BY ReadIsByte
  <2>3. Word(read8(m, zp), read8(m, (zp + 1) % 256)) \in Address
    BY <2>2, WordType
  <2> HIDE DEF zp
  <2>4. zp \in Byte
    BY <1>1 DEF zp
  <2>5. C!base(Twin(m, k), mode) = Word(read8(m, zp), read8(m, (zp + 1) % 256))
    BY <2>1, <2>4, PairAgrees
  <2>. QED
    BY <1>3, <2>3, <2>5 DEF zp
<1>4. CASE mode # "INDY"
  <2>1. C!base(Twin(m, k), mode) = read16(m, m.pc)
    BY <1>1, <1>4, Peek16Agrees, TwinFields DEF C!base
  <2>. QED
    BY <1>4, <2>1, Read16Type
<1>. QED
  BY <1>3, <1>4

LEMMA NextInPage ==
  ASSUME NEW n \in Int
  PROVE  ((n % 256) + 1) % 256 = (n + 1) % 256
OBVIOUS

LEMMA SamePage ==
  ASSUME NEW w \in Address
  PROVE  256 * (w \div 256) + ((w + 1) % 256) \in Address
<1>1. w \div 256 \in Int /\ 0 <= w \div 256 /\ w \div 256 < 256
  BY AddressBounds
<1>2. (w + 1) % 256 \in Int /\ 0 <= (w + 1) % 256 /\ (w + 1) % 256 < 256
  BY AddressBounds
<1>. QED
  BY <1>1, <1>2, AddressSet

(* The address of the operand *)
LEMMA FetchAgrees ==
  ASSUME NEW m \in Machine, NEW k, NEW mode \in ADDRESSED
  PROVE  C!fetch(Twin(m, k), mode) = fetch(m, mode) /\ fetch(m, mode) \in Address
<1> DEFINE t == Twin(m, k)
           zp == read8(m, m.pc)
           w == read16(m, m.pc)
<1>1. /\ m.pc \in Address /\ zp \in Byte /\ w \in Address
      /\ m.x \in Byte /\ m.y \in Byte /\ t.x = m.x /\ t.y = m.y /\ t.pc = m.pc
  BY MachineFields, TwinFields, ReadIsByte, Read16Type
<1>2. C!peek(t, m.pc) = zp /\ C!peek16(t, m.pc) = w
  BY <1>1, PeekHere, Peek16Agrees
<1>3. zp \in Int /\ w \in Int /\ m.x \in Int /\ m.y \in Int
  BY <1>1, ByteBounds, AddressBounds
<1>4. CASE mode \in {"ZP", "ZPX", "ZPY", "ABS"}
  <2>1. zp \in Address /\ (zp + m.x) % 256 \in Address /\ (zp + m.y) % 256 \in Address
    BY <1>1, <1>3, Cut, ByteIsAddress
  <2> HIDE DEF t, zp, w
  <2>. QED
    BY <1>1, <1>2, <1>4, <2>1 DEF C!fetch, fetch, t, zp, w
<1>5. CASE mode \in {"ABSX", "ABSY"}
  <2>1. C!base(t, mode) = w
    BY <1>5, BaseAgrees
  <2>2. C!fetch(t, mode) = (w + (IF mode = "ABSX" THEN m.x ELSE m.y)) % 65536
    BY <1>1, <1>5, <2>1 DEF C!fetch, C!indexed
  <2>3. fetch(m, mode) = (w + (IF mode = "ABSX" THEN m.x ELSE m.y)) % 65536
    BY <1>5 DEF fetch
  <2>4. (w + (IF mode = "ABSX" THEN m.x ELSE m.y)) % 65536 \in Address
    BY <1>3, Wrapped
  <2>. QED
    BY <2>2, <2>3, <2>4
<1>6. CASE mode = "INDY"
  <2> DEFINE b == Word(read8(m, zp), read8(m, (zp + 1) % 256))
  <2>1. C!base(t, mode) = b /\ b \in Address
    BY <1>6, BaseAgrees
  <2>2. C!fetch(t, mode) = (b + m.y) % 65536
    BY <1>1, <1>6, <2>1 DEF C!fetch, C!indexed
  <2>3. zp % 256 = zp
    BY <1>1, ByteBounds
  <2>4. fetch(m, mode) = (b + m.y) % 65536
    BY <1>6, <2>3 DEF fetch, indirect
  <2>5. (b + m.y) % 65536 \in Address
    BY <1>3, <2>1, AddressBounds, Wrapped
  <2>. QED
    BY <2>2, <2>4, <2>5
<1>7. CASE mode = "INDX"
  <2> DEFINE z == (zp + m.x) % 256
             z2 == (zp + m.x + 1) % 256
             pair == Word(read8(m, z), read8(m, z2))
  <2>1. z \in Byte /\ (z + 1) % 256 = z2
    BY <1>3, Cut, NextInPage
  <2>2. C!fetch(t, mode) = C!peek(t, z) + 256 * C!peek(t, z2)
    BY <1>1, <1>2, <1>7 DEF C!fetch
  <2>3. fetch(m, mode) = pair
    BY <1>7 DEF fetch, indirect
  <2>4. pair \in Address
    BY ReadIsByte, WordType
  <2> HIDE DEF z, z2, t
  <2>5. C!peek(t, z) + 256 * C!peek(t, z2) = pair
    BY <2>1, PairAgrees DEF t
  <2> HIDE DEF pair
  <2>. QED
    BY <2>2, <2>3, <2>4, <2>5 DEF t
<1>8. CASE mode = "IND"
  <2> DEFINE second == 256 * (w \div 256) + ((w + 1) % 256)
             pair == Word(read8(m, w), read8(m, second))
  <2>1. second \in Address
    BY <1>1, SamePage
  <2>2. C!fetch(t, mode) = C!peek(t, w) + 256 * C!peek(t, second)
    BY <1>1, <1>2, <1>8 DEF C!fetch
  <2>3. fetch(m, mode) = pair
    BY <1>8 DEF fetch, indirect
  <2> HIDE DEF second, t, w
  <2>4. C!peek(t, w) = read8(m, w) /\ C!peek(t, second) = read8(m, second)
    BY <1>1, <2>1, PeekHere DEF t
  <2>5. pair = read8(m, w) + 256 * read8(m, second) /\ pair \in Address
    BY ReadIsByte, WordType
  <2> HIDE DEF pair
  <2>. QED
    BY <2>2, <2>3, <2>4, <2>5 DEF t
<1>. QED
  BY <1>4, <1>5, <1>6, <1>7, <1>8 DEF ADDRESSED

LEMMA LengthAgrees ==
  ASSUME NEW mode \in ADDRESSED
  PROVE  C!length(mode) = operand_bytes(mode) /\ operand_bytes(mode) \in Int
BY DEF C!length, operand_bytes

(* The page an index crosses *)
LEMMA CrossedAgrees ==
  ASSUME NEW m \in Machine, NEW k, NEW mode \in ADDRESSED \cup {"IMM", "IMP"}
  PROVE  C!fetch_crossed(Twin(m, k), mode) = crossed(m, mode)
<1> DEFINE Over(b, index) == other_page(b, (b + index) % 65536)
           zp == read8(m, m.pc)
           w == read16(m, m.pc)
           pair == Word(read8(m, zp), read8(m, (zp + 1) % 256))
<1>1. ASSUME mode \in {"ABSX", "ABSY", "INDY"}
      PROVE  LET b == C!base(Twin(m, k), mode)
             IN C!fetch_crossed(Twin(m, k), mode) = Over(b, IF mode = "ABSX" THEN m.x ELSE m.y)
  BY <1>1, TwinFields DEF C!fetch_crossed, C!indexed, C!pages_differ, other_page
<1>2. CASE mode = "ABSX"
  <2>1. C!base(Twin(m, k), mode) = w
    BY <1>2, BaseAgrees
  <2>2. crossed(m, mode) = Over(w, m.x)
    BY <1>2 DEF crossed
  <2> HIDE DEF w, Over
  <2>. QED
    BY <1>1, <1>2, <2>1, <2>2
<1>3. CASE mode = "ABSY"
  <2>1. C!base(Twin(m, k), mode) = w
    BY <1>3, BaseAgrees
  <2>2. crossed(m, mode) = Over(w, m.y)
    BY <1>3 DEF crossed
  <2> HIDE DEF w, Over
  <2>. QED
    BY <1>1, <1>3, <2>1, <2>2
<1>4. CASE mode = "INDY"
  <2>1. C!base(Twin(m, k), mode) = pair
    BY <1>4, BaseAgrees
  <2>2. crossed(m, mode) = Over(pair, m.y)
    BY <1>4 DEF crossed
  <2> HIDE DEF pair, Over
  <2>. QED
    BY <1>1, <1>4, <2>1, <2>2
<1>5. CASE mode \in {"ZP", "ZPX", "ZPY", "ABS", "INDX", "IND", "IMM", "IMP"}
  <2>1. C!fetch_crossed(Twin(m, k), mode) = FALSE
    BY <1>5 DEF C!fetch_crossed
  <2>2. crossed(m, mode) = FALSE
    BY <1>5 DEF crossed
  <2>. QED
    BY <2>1, <2>2
<1>. QED
  BY <1>2, <1>3, <1>4, <1>5 DEF ADDRESSED

-----------------------------------------------------------------------------
(* The operations.  A register loaded, with N and Z *)
LEMMA LoadA ==
  ASSUME NEW m \in Machine, NEW k, NEW v \in Byte
  PROVE  Mirrors(C!set_nz(Twin(m, k), "a", v), Load(m, "a", v), k)
<1> DEFINE n == [m EXCEPT !.a = v]
           q == upd_nz(m.p, v)
<1>1. [Twin(m, k) EXCEPT !.a = v] = Twin(n, k) /\ n \in Machine
  BY SetA DEF Mirrors
<1>2. C!set_nz(Twin(m, k), "a", v) = [[Twin(m, k) EXCEPT !.a = v] EXCEPT !.p = q]
  BY TwinFields, SameHelpers DEF C!set_nz
<1>3. Load(m, "a", v) = [n EXCEPT !.p = q]
  BY DEF Load
<1>4. q \in SUBSET Flags
  BY MachineFields, UpdType
<1> HIDE DEF n, q
<1>5. Mirrors([Twin(n, k) EXCEPT !.p = q], [n EXCEPT !.p = q], k)
  BY <1>1, <1>4, SetP
<1>. QED
  BY <1>1, <1>2, <1>3, <1>5

LEMMA LoadX ==
  ASSUME NEW m \in Machine, NEW k, NEW v \in Byte
  PROVE  Mirrors(C!set_nz(Twin(m, k), "x", v), Load(m, "x", v), k)
<1> DEFINE n == [m EXCEPT !.x = v]
           q == upd_nz(m.p, v)
<1>1. [Twin(m, k) EXCEPT !.x = v] = Twin(n, k) /\ n \in Machine
  BY SetX DEF Mirrors
<1>2. C!set_nz(Twin(m, k), "x", v) = [[Twin(m, k) EXCEPT !.x = v] EXCEPT !.p = q]
  BY TwinFields, SameHelpers DEF C!set_nz
<1>3. Load(m, "x", v) = [n EXCEPT !.p = q]
  BY DEF Load
<1>4. q \in SUBSET Flags
  BY MachineFields, UpdType
<1> HIDE DEF n, q
<1>5. Mirrors([Twin(n, k) EXCEPT !.p = q], [n EXCEPT !.p = q], k)
  BY <1>1, <1>4, SetP
<1>. QED
  BY <1>1, <1>2, <1>3, <1>5

LEMMA LoadY ==
  ASSUME NEW m \in Machine, NEW k, NEW v \in Byte
  PROVE  Mirrors(C!set_nz(Twin(m, k), "y", v), Load(m, "y", v), k)
<1> DEFINE n == [m EXCEPT !.y = v]
           q == upd_nz(m.p, v)
<1>1. [Twin(m, k) EXCEPT !.y = v] = Twin(n, k) /\ n \in Machine
  BY SetY DEF Mirrors
<1>2. C!set_nz(Twin(m, k), "y", v) = [[Twin(m, k) EXCEPT !.y = v] EXCEPT !.p = q]
  BY TwinFields, SameHelpers DEF C!set_nz
<1>3. Load(m, "y", v) = [n EXCEPT !.p = q]
  BY DEF Load
<1>4. q \in SUBSET Flags
  BY MachineFields, UpdType
<1> HIDE DEF n, q
<1>5. Mirrors([Twin(n, k) EXCEPT !.p = q], [n EXCEPT !.p = q], k)
  BY <1>1, <1>4, SetP
<1>. QED
  BY <1>1, <1>2, <1>3, <1>5

LEMMA IntoA ==
  ASSUME NEW m \in Machine, NEW k, NEW s, s.v \in Byte, s.p \in SUBSET Flags
  PROVE  Mirrors(C!into_a(Twin(m, k), s), Arith(m, s), k)
<1> DEFINE n == [m EXCEPT !.a = s.v]
<1>1. [Twin(m, k) EXCEPT !.a = s.v] = Twin(n, k) /\ n \in Machine
  BY SetA DEF Mirrors
<1>2. C!into_a(Twin(m, k), s) = [[Twin(m, k) EXCEPT !.a = s.v] EXCEPT !.p = s.p]
  BY DEF C!into_a
<1>3. Arith(m, s) = [n EXCEPT !.p = s.p]
  BY DEF Arith
<1> HIDE DEF n
<1>4. Mirrors([Twin(n, k) EXCEPT !.p = s.p], [n EXCEPT !.p = s.p], k)
  BY <1>1, SetP
<1>. QED
  BY <1>1, <1>2, <1>3, <1>4

(* The operations on an operand byte *)
LEMMA ImmediateAgrees ==
  ASSUME NEW m \in Machine, NEW k, NEW id \in IMMEDIATE, NEW v \in Byte
  PROVE  Mirrors(C!op_imm(Twin(m, k), id, v), op1(m, NameOf(id), v), k)
<1> DEFINE t == Twin(m, k)
<1>0. m.a \in Byte /\ m.x \in Byte /\ m.y \in Byte /\ m.p \in SUBSET Flags
      /\ t.a = m.a /\ t.x = m.x /\ t.y = m.y /\ t.p = m.p
  BY MachineFields, TwinFields
<1>1. CASE id = 0
  <2>1. C!op_imm(t, id, v) = C!set_nz(t, "a", v)
    BY <1>1 DEF C!op_imm
  <2>2. op1(m, NameOf(id), v) = Load(m, "a", v)
    BY <1>1, NamesOfIds DEF op1
  <2>. QED
    BY <2>1, <2>2, LoadA
<1>2. CASE id = 1
  <2>1. C!op_imm(t, id, v) = C!set_nz(t, "x", v)
    BY <1>2 DEF C!op_imm
  <2>2. op1(m, NameOf(id), v) = Load(m, "x", v)
    BY <1>2, NamesOfIds DEF op1
  <2>. QED
    BY <2>1, <2>2, LoadX
<1>3. CASE id = 2
  <2>1. C!op_imm(t, id, v) = C!set_nz(t, "y", v)
    BY <1>3 DEF C!op_imm
  <2>2. op1(m, NameOf(id), v) = Load(m, "y", v)
    BY <1>3, NamesOfIds DEF op1
  <2>. QED
    BY <2>1, <2>2, LoadY
<1>4. CASE id = 16
  <2> DEFINE s == adc(m.a, v, m.p)
  <2>1. C!c_adc(m.a, v, m.p) = s
    BY <1>0, SameSums, AdcAgrees
  <2>2. s.v \in Byte /\ s.p \in SUBSET Flags
    BY <1>0, AdcAgrees
  <2>3. C!op_imm(t, id, v) = C!into_a(t, s)
    BY <1>0, <1>4, <2>1 DEF C!op_imm
  <2>4. op1(m, NameOf(id), v) = Arith(m, s)
    BY <1>4, NamesOfIds DEF op1
  <2> HIDE DEF s
  <2>. QED
    BY <2>2, <2>3, <2>4, IntoA
<1>5. CASE id = 17
  <2> DEFINE s == sbc(m.a, v, m.p)
  <2>1. C!c_sbc(m.a, v, m.p) = s
    BY <1>0, SameSums, SbcAgrees
  <2>2. s.v \in Byte /\ s.p \in SUBSET Flags
    BY <1>0, SbcAgrees
  <2>3. C!op_imm(t, id, v) = C!into_a(t, s)
    BY <1>0, <1>5, <2>1 DEF C!op_imm
  <2>4. op1(m, NameOf(id), v) = Arith(m, s)
    BY <1>5, NamesOfIds DEF op1
  <2> HIDE DEF s
  <2>. QED
    BY <2>2, <2>3, <2>4, IntoA
<1>6. CASE id = 18
  <2> DEFINE r == byte_and(m.a, v)
  <2>1. C!op_imm(t, id, v) = C!set_nz(t, "a", r)
    BY <1>0, <1>6, SameBitwise DEF C!op_imm
  <2>2. op1(m, NameOf(id), v) = Load(m, "a", r)
    BY <1>6, NamesOfIds DEF op1
  <2>3. r \in Byte
    BY BitwiseType
  <2> HIDE DEF r
  <2>. QED
    BY <2>1, <2>2, <2>3, LoadA
<1>7. CASE id = 19
  <2> DEFINE r == byte_or(m.a, v)
  <2>1. C!op_imm(t, id, v) = C!set_nz(t, "a", r)
    BY <1>0, <1>7, SameBitwise DEF C!op_imm
  <2>2. op1(m, NameOf(id), v) = Load(m, "a", r)
    BY <1>7, NamesOfIds DEF op1
  <2>3. r \in Byte
    BY BitwiseType
  <2> HIDE DEF r
  <2>. QED
    BY <2>1, <2>2, <2>3, LoadA
<1>8. CASE id = 20
  <2> DEFINE r == byte_xor(m.a, v)
  <2>1. C!op_imm(t, id, v) = C!set_nz(t, "a", r)
    BY <1>0, <1>8, SameBitwise DEF C!op_imm
  <2>2. op1(m, NameOf(id), v) = Load(m, "a", r)
    BY <1>8, NamesOfIds DEF op1
  <2>3. r \in Byte
    BY BitwiseType
  <2> HIDE DEF r
  <2>. QED
    BY <2>1, <2>2, <2>3, LoadA
<1>9. CASE id = 22
  <2> DEFINE q == compare(m.a, v, m.p)
  <2>1. C!c_compare(m.a, v, m.p) = q /\ q \in SUBSET Flags
    BY <1>0, SameCompare, CompareAgrees
  <2>2. C!op_imm(t, id, v) = [t EXCEPT !.p = q]
    BY <1>0, <1>9, <2>1 DEF C!op_imm
  <2>3. op1(m, NameOf(id), v) = [m EXCEPT !.p = q]
    BY <1>9, NamesOfIds DEF op1
  <2> HIDE DEF q
  <2>. QED
    BY <2>1, <2>2, <2>3, SetP
<1>10. CASE id = 23
  <2> DEFINE q == compare(m.x, v, m.p)
  <2>1. C!c_compare(m.x, v, m.p) = q /\ q \in SUBSET Flags
    BY <1>0, SameCompare, CompareAgrees
  <2>2. C!op_imm(t, id, v) = [t EXCEPT !.p = q]
    BY <1>0, <1>10, <2>1 DEF C!op_imm
  <2>3. op1(m, NameOf(id), v) = [m EXCEPT !.p = q]
    BY <1>10, NamesOfIds DEF op1
  <2> HIDE DEF q
  <2>. QED
    BY <2>1, <2>2, <2>3, SetP
<1>11. CASE id = 24
  <2> DEFINE q == compare(m.y, v, m.p)
  <2>1. C!c_compare(m.y, v, m.p) = q /\ q \in SUBSET Flags
    BY <1>0, SameCompare, CompareAgrees
  <2>2. C!op_imm(t, id, v) = [t EXCEPT !.p = q]
    BY <1>0, <1>11, <2>1 DEF C!op_imm
  <2>3. op1(m, NameOf(id), v) = [m EXCEPT !.p = q]
    BY <1>11, NamesOfIds DEF op1
  <2> HIDE DEF q
  <2>. QED
    BY <2>1, <2>2, <2>3, SetP
<1>. QED
  BY <1>1, <1>2, <1>3, <1>4, <1>5, <1>6, <1>7, <1>8, <1>9, <1>10, <1>11 DEF IMMEDIATE

(* A byte written back with its flags *)
LEMMA WriteBack ==
  ASSUME NEW m \in Machine, NEW k, NEW addr, NEW v \in Byte, NEW q \in SUBSET Flags
  PROVE  Mirrors([C!poke(Twin(m, k), addr, v) EXCEPT !.p = q],
                 [write8(m, addr, v) EXCEPT !.p = q], k)
<1> DEFINE n == write8(m, addr, v)
<1>1. C!poke(Twin(m, k), addr, v) = Twin(n, k) /\ n \in Machine
  BY PokeAgrees DEF Mirrors
<1> HIDE DEF n
<1>2. Mirrors([Twin(n, k) EXCEPT !.p = q], [n EXCEPT !.p = q], k)
  BY <1>1, SetP
<1>. QED
  BY <1>1, <1>2 DEF n

LEMMA RewriteAgrees ==
  ASSUME NEW m \in Machine, NEW k, NEW addr, NEW v \in Byte
  PROVE  Mirrors(C!rewrite(Twin(m, k), addr, v), Rewrite(m, addr, v), k)
<1> DEFINE q == upd_nz(m.p, v)
<1>1. q \in SUBSET Flags
  BY MachineFields, UpdType
<1>2. C!poke(Twin(m, k), addr, v).p = m.p
  BY TwinFields DEF C!poke, Twin
<1>3. C!rewrite(Twin(m, k), addr, v) = [C!poke(Twin(m, k), addr, v) EXCEPT !.p = q]
  BY <1>2, SameHelpers DEF C!rewrite
<1>4. write8(m, addr, v).p = m.p
  BY WriteKeeps
<1>5. Rewrite(m, addr, v) = [write8(m, addr, v) EXCEPT !.p = q]
  BY <1>4 DEF Rewrite
<1> HIDE DEF q
<1>6. Mirrors([C!poke(Twin(m, k), addr, v) EXCEPT !.p = q], [write8(m, addr, v) EXCEPT !.p = q], k)
  BY <1>1, WriteBack
<1>. QED
  BY <1>3, <1>5, <1>6

LEMMA ShiftNames ==
  ASSUME NEW id \in SHIFTS
  PROVE  C!shift_name(id) = NameOf(id) /\ NameOf(id) \in {"ASL", "LSR", "ROL", "ROR"}
BY NamesOfIds DEF SHIFTS, C!shift_name

LEMMA ShiftAAgrees ==
  ASSUME NEW m \in Machine, NEW k, NEW id \in SHIFTS
  PROVE  Mirrors(C!shift_a(Twin(m, k), id), Arith(m, shift(NameOf(id), m.a, m.p)), k)
<1> DEFINE s == shift(NameOf(id), m.a, m.p)
<1>1. m.a \in Byte /\ m.p \in SUBSET Flags
  BY MachineFields
<1>2. C!c_shift(C!shift_name(id), m.a, m.p) = s
  BY <1>1, ShiftNames, SameShift, ShiftAgrees
<1>3. s.v \in Byte /\ s.p \in SUBSET Flags
  BY <1>1, ShiftNames, ShiftAgrees
<1>4. C!shift_a(Twin(m, k), id) = C!into_a(Twin(m, k), s)
  BY <1>2, TwinFields DEF C!shift_a
<1> HIDE DEF s
<1>5. Mirrors(C!into_a(Twin(m, k), s), Arith(m, s), k)
  BY <1>3, IntoA
<1>. QED
  BY <1>4, <1>5 DEF s

LEMMA ShiftAtAgrees ==
  ASSUME NEW m \in Machine, NEW k, NEW id \in SHIFTS, NEW v \in Byte, NEW addr
  PROVE  LET s == shift(NameOf(id), v, m.p)
         IN Mirrors(C!shift_at(Twin(m, k), id, v, addr), [write8(m, addr, s.v) EXCEPT !.p = s.p], k)
<1> DEFINE s == shift(NameOf(id), v, m.p)
<1>1. m.p \in SUBSET Flags
  BY MachineFields
<1>2. C!c_shift(C!shift_name(id), v, m.p) = s
  BY <1>1, ShiftNames, SameShift, ShiftAgrees
<1>3. s.v \in Byte /\ s.p \in SUBSET Flags
  BY <1>1, ShiftNames, ShiftAgrees
<1>4. C!shift_at(Twin(m, k), id, v, addr) = [C!poke(Twin(m, k), addr, s.v) EXCEPT !.p = s.p]
  BY <1>2, TwinFields DEF C!shift_at
<1> HIDE DEF s
<1>5. Mirrors([C!poke(Twin(m, k), addr, s.v) EXCEPT !.p = s.p],
              [write8(m, addr, s.v) EXCEPT !.p = s.p], k)
  BY <1>3, WriteBack
<1>. QED
  BY <1>4, <1>5 DEF s

(* The operations on memory, once the operand v is read *)
LEMMA WithAddressAgrees ==
  ASSUME NEW m \in Machine, NEW k, NEW id \in MEMORY \ {3, 4, 5}, NEW v \in Byte,
         NEW addr \in Address
  PROVE  Mirrors(C!op_with_addr(Twin(m, k), id, v, addr), op_with_addr(m, NameOf(id), v, addr), k)
<1> DEFINE t == Twin(m, k)
<1>0. m.a \in Byte /\ m.p \in SUBSET Flags /\ m.pc \in Address
      /\ t.a = m.a /\ t.p = m.p /\ t.pc = m.pc
  BY MachineFields, TwinFields
<1>1. CASE id = 21
  <2> DEFINE q == Put(Put(Put(m.p, "Z", byte_and(m.a, v) = 0), "N", Neg(v)),
                      "V", (v \div 64) % 2 = 1)
  <2>1. q \in SUBSET Flags
    <3>1. "Z" \in Flags /\ "N" \in Flags /\ "V" \in Flags
      BY DEF Flags
    <3>2. Put(m.p, "Z", byte_and(m.a, v) = 0) \in SUBSET Flags
      BY <1>0, <3>1, PutType
    <3>3. Put(Put(m.p, "Z", byte_and(m.a, v) = 0), "N", Neg(v)) \in SUBSET Flags
      BY <3>1, <3>2, PutType
    <3>. QED
      BY <3>1, <3>3, PutType
  <2>2. C!op_with_addr(t, id, v, addr) = [t EXCEPT !.p = q]
    BY <1>0, <1>1, SameHelpers, SameBitwise DEF C!op_with_addr
  <2>3. op_with_addr(m, NameOf(id), v, addr) = [m EXCEPT !.p = q]
    BY <1>1, NamesOfIds DEF op_with_addr
  <2> HIDE DEF q
  <2>. QED
    BY <2>1, <2>2, <2>3, SetP
<1>2. CASE id = 25
  <2> DEFINE r == (v + 1) % 256
  <2>1. r \in Byte
    BY ByteBounds, Cut
  <2>2. C!op_with_addr(t, id, v, addr) = C!rewrite(t, addr, r)
    BY <1>2 DEF C!op_with_addr
  <2>3. op_with_addr(m, NameOf(id), v, addr) = Rewrite(m, addr, r)
    BY <1>2, NamesOfIds DEF op_with_addr
  <2> HIDE DEF r
  <2>. QED
    BY <2>1, <2>2, <2>3, RewriteAgrees
<1>3. CASE id = 26
  <2> DEFINE r == (v - 1) % 256
  <2>1. r \in Byte
    BY ByteBounds, Cut
  <2>2. C!op_with_addr(t, id, v, addr) = C!rewrite(t, addr, r)
    BY <1>3 DEF C!op_with_addr
  <2>3. op_with_addr(m, NameOf(id), v, addr) = Rewrite(m, addr, r)
    BY <1>3, NamesOfIds DEF op_with_addr
  <2> HIDE DEF r
  <2>. QED
    BY <2>1, <2>2, <2>3, RewriteAgrees
<1>4. CASE id \in SHIFTS
  <2> DEFINE s == shift(NameOf(id), v, m.p)
             n == [write8(m, addr, s.v) EXCEPT !.p = s.p]
  <2>1. C!op_with_addr(t, id, v, addr) = C!shift_at(t, id, v, addr)
    BY <1>4 DEF C!op_with_addr, SHIFTS
  <2>2. op_with_addr(m, NameOf(id), v, addr) = n
    BY <1>4, ShiftNames DEF op_with_addr
  <2>3. Mirrors(C!shift_at(t, id, v, addr), n, k)
    BY <1>4, ShiftAtAgrees
  <2>. QED
    BY <2>1, <2>2, <2>3
<1>5. CASE id = 43
  <2>1. C!op_with_addr(t, id, v, addr) = [t EXCEPT !.pc = addr]
    BY <1>5 DEF C!op_with_addr
  <2>2. op_with_addr(m, NameOf(id), v, addr) = [m EXCEPT !.pc = addr]
    BY <1>5, NamesOfIds DEF op_with_addr
  <2>. QED
    BY <2>1, <2>2, SetPc
<1>6. CASE id = 44
  <2> DEFINE w == (m.pc - 1) % 65536
             n == push16(m, w)
  <2>1. w \in Address
    BY <1>0, AddressBounds, Wrapped
  <2>2. C!op_with_addr(t, id, v, addr) = [C!push16(t, w) EXCEPT !.pc = addr]
    BY <1>0, <1>6 DEF C!op_with_addr
  <2>3. op_with_addr(m, NameOf(id), v, addr) = [n EXCEPT !.pc = addr]
    BY <1>6, NamesOfIds DEF op_with_addr
  <2> HIDE DEF w
  <2>4. C!push16(t, w) = Twin(n, k) /\ n \in Machine
    BY <2>1, Push16Agrees DEF Mirrors
  <2> HIDE DEF n
  <2>5. Mirrors([Twin(n, k) EXCEPT !.pc = addr], [n EXCEPT !.pc = addr], k)
    BY <2>4, SetPc
  <2>. QED
    BY <2>2, <2>3, <2>4, <2>5
<1>7. CASE id \in IMMEDIATE
  <2>1. C!op_with_addr(t, id, v, addr) = C!op_imm(t, id, v)
    BY <1>7 DEF C!op_with_addr, IMMEDIATE
  <2>2. NameOf(id) \in {"LDA", "LDX", "LDY", "ADC", "SBC", "AND", "ORA", "EOR", "CMP", "CPX", "CPY"}
    BY <1>7, NamesOfIds DEF IMMEDIATE
  <2>3. op_with_addr(m, NameOf(id), v, addr) = op1(m, NameOf(id), v)
    BY <2>2 DEF op_with_addr
  <2>. QED
    BY <1>7, <2>1, <2>3, ImmediateAgrees
<1>. QED
  BY <1>1, <1>2, <1>3, <1>4, <1>5, <1>6, <1>7 DEF MEMORY, IMMEDIATE, SHIFTS

(* A store writes; everything else on memory takes its operand first. *)
LEMMA MemoryAgrees ==
  ASSUME NEW m \in Machine, NEW k, NEW id \in MEMORY, NEW addr \in Address
  PROVE  Mirrors(C!exec_memory(Twin(m, k), id, addr), exec_memory(m, NameOf(id), addr), k)
<1> DEFINE t == Twin(m, k)
<1>0. m.a \in Byte /\ m.x \in Byte /\ m.y \in Byte /\ t.a = m.a /\ t.x = m.x /\ t.y = m.y
  BY MachineFields, TwinFields
<1>1. CASE id = 3
  <2>1. C!exec_memory(t, id, addr) = C!poke(t, addr, m.a)
    BY <1>0, <1>1 DEF C!exec_memory
  <2>2. exec_memory(m, NameOf(id), addr) = write8(m, addr, m.a)
    BY <1>1, NamesOfIds DEF exec_memory, op_with_addr, Storing
  <2>. QED
    BY <1>0, <2>1, <2>2, PokeAgrees
<1>2. CASE id = 4
  <2>1. C!exec_memory(t, id, addr) = C!poke(t, addr, m.x)
    BY <1>0, <1>2 DEF C!exec_memory
  <2>2. exec_memory(m, NameOf(id), addr) = write8(m, addr, m.x)
    BY <1>2, NamesOfIds DEF exec_memory, op_with_addr, Storing
  <2>. QED
    BY <1>0, <2>1, <2>2, PokeAgrees
<1>3. CASE id = 5
  <2>1. C!exec_memory(t, id, addr) = C!poke(t, addr, m.y)
    BY <1>0, <1>3 DEF C!exec_memory
  <2>2. exec_memory(m, NameOf(id), addr) = write8(m, addr, m.y)
    BY <1>3, NamesOfIds DEF exec_memory, op_with_addr, Storing
  <2>. QED
    BY <1>0, <2>1, <2>2, PokeAgrees
<1>4. CASE id \in MEMORY \ {3, 4, 5}
  <2> DEFINE n == rx_read(m, addr)
             v == read8(m, addr)
  <2>1. bus_c_read(t.bus, addr) = [v |-> v, bus |-> Bus(n)]
    BY ReadAgrees, TwinFields
  <2>2. C!exec_memory(t, id, addr)
          = C!op_with_addr([t EXCEPT !.bus = bus_c_read(t.bus, addr).bus], id,
                           bus_c_read(t.bus, addr).v, addr)
    BY <1>4 DEF C!exec_memory
  <2>3. [t EXCEPT !.bus = Bus(n)] = Twin(n, k) /\ n \in Machine /\ v \in Byte
    BY OperandAgrees, RxReadType, ReadIsByte
  <2>4. NameOf(id) \notin Storing
    BY <1>4, NamesOfIds DEF MEMORY, SHIFTS, Storing
  <2>5. exec_memory(m, NameOf(id), addr) = op_with_addr(n, NameOf(id), v, addr)
    BY <2>4 DEF exec_memory
  <2> HIDE DEF n, v
  <2>6. C!exec_memory(t, id, addr) = C!op_with_addr(Twin(n, k), id, v, addr)
    BY <2>1, <2>2, <2>3
  <2>. QED
    BY <1>4, <2>3, <2>5, <2>6, WithAddressAgrees
<1>. QED
  BY <1>1, <1>2, <1>3, <1>4

(* Branches *)
LEMMA TakenAgrees ==
  ASSUME NEW id \in BRANCHES, NEW q
  PROVE  C!take(q, id) <=> taken(q, NameOf(id))
<1>1. CASE id = 35
  <2>1. C!take(q, id) = ("C" \notin q)
    BY <1>1 DEF C!take
  <2>2. taken(q, "BCC") = ("C" \notin q)
    BY DEF taken
  <2>. QED
    BY <1>1, <2>1, <2>2, NamesOfIds
<1>2. CASE id = 36
  <2>1. C!take(q, id) = ("C" \in q)
    BY <1>2 DEF C!take
  <2>2. taken(q, "BCS") = ("C" \in q)
    BY DEF taken
  <2>. QED
    BY <1>2, <2>1, <2>2, NamesOfIds
<1>3. CASE id = 37
  <2>1. C!take(q, id) = ("Z" \in q)
    BY <1>3 DEF C!take
  <2>2. taken(q, "BEQ") = ("Z" \in q)
    BY DEF taken
  <2>. QED
    BY <1>3, <2>1, <2>2, NamesOfIds
<1>4. CASE id = 38
  <2>1. C!take(q, id) = ("N" \in q)
    BY <1>4 DEF C!take
  <2>2. taken(q, "BMI") = ("N" \in q)
    BY DEF taken
  <2>. QED
    BY <1>4, <2>1, <2>2, NamesOfIds
<1>5. CASE id = 39
  <2>1. C!take(q, id) = ("Z" \notin q)
    BY <1>5 DEF C!take
  <2>2. taken(q, "BNE") = ("Z" \notin q)
    BY DEF taken
  <2>. QED
    BY <1>5, <2>1, <2>2, NamesOfIds
<1>6. CASE id = 40
  <2>1. C!take(q, id) = ("N" \notin q)
    BY <1>6 DEF C!take
  <2>2. taken(q, "BPL") = ("N" \notin q)
    BY DEF taken
  <2>. QED
    BY <1>6, <2>1, <2>2, NamesOfIds
<1>7. CASE id = 41
  <2>1. C!take(q, id) = ("V" \notin q)
    BY <1>7 DEF C!take
  <2>2. taken(q, "BVC") = ("V" \notin q)
    BY DEF taken
  <2>. QED
    BY <1>7, <2>1, <2>2, NamesOfIds
<1>8. CASE id = 42
  <2>1. C!take(q, id) = ("V" \in q)
    BY <1>8 DEF C!take
  <2>2. taken(q, "BVS") = ("V" \in q)
    BY DEF taken
  <2>. QED
    BY <1>8, <2>1, <2>2, NamesOfIds
<1>. QED
  BY <1>1, <1>2, <1>3, <1>4, <1>5, <1>6, <1>7, <1>8 DEF BRANCHES

LEMMA TwoJumps ==
  ASSUME NEW pc \in Int, NEW s \in Int
  PROVE  (((pc + 1) % 65536) + s) % 65536 = (pc + (1 + s)) % 65536
OBVIOUS

LEMMA PcTwice ==
  ASSUME NEW m, NEW d, NEW e
  PROVE  [[m EXCEPT !.pc = d] EXCEPT !.pc = e] = [m EXCEPT !.pc = e]
OBVIOUS

LEMMA BranchAgrees ==
  ASSUME NEW m \in Machine, NEW k, NEW id \in BRANCHES
  PROVE  /\ Mirrors(C!branch(Twin(m, k), id).m, branch(m, NameOf(id)), k)
         /\ C!branch(Twin(m, k), id).extra = branch_cycles(m, NameOf(id))
<1> DEFINE t == Twin(m, k)
           v == read8(m, m.pc)
           s == sbyte(v)
           next == skip(m, 1)
           to == skip(next, s)
           tnext == C!advance(t, 1)
           tto == C!advance(tnext, s)
           over == other_page(next.pc, to.pc)
<1>1. m.pc \in Address /\ v \in Byte /\ t.pc = m.pc /\ t.p = m.p
  BY MachineFields, TwinFields, ReadIsByte
<1>2. C!peek(t, t.pc) = v
  BY <1>1, PeekHere
<1>3. C!sbyte(v) = s /\ s \in Int
  BY <1>1, SameHelpers, ByteBounds DEF sbyte
<1>4. tnext = Twin(next, k) /\ next \in Machine
  BY AdvanceAgrees DEF Mirrors
<1>5. Mirrors(tto, to, k)
  <2> HIDE DEF next, tnext, s
  <2>. QED
    BY <1>3, <1>4, AdvanceAgrees
<1>6. skip(m, 1 + s) = to
  <2>1. m.pc \in Int
    BY <1>1, AddressBounds
  <2>2. next.pc = (m.pc + 1) % 65536
    BY DEF skip, Machine
  <2>3. (((m.pc + 1) % 65536) + s) % 65536 = (m.pc + (1 + s)) % 65536
    <3> HIDE DEF s
    <3>. QED
      BY <1>3, <2>1, TwoJumps
  <2> DEFINE d == (m.pc + 1) % 65536
             e == (m.pc + (1 + s)) % 65536
  <2>4. next = [m EXCEPT !.pc = d]
    BY DEF skip
  <2>5. skip(m, 1 + s) = [m EXCEPT !.pc = e]
    BY DEF skip
  <2>6. to = [next EXCEPT !.pc = (next.pc + s) % 65536]
    BY DEF skip
  <2>7. (next.pc + s) % 65536 = e
    BY <2>2, <2>3
  <2> HIDE DEF d, e, next, to
  <2>8. to = [next EXCEPT !.pc = e]
    BY <2>6, <2>7
  <2>9. [[m EXCEPT !.pc = d] EXCEPT !.pc = e] = [m EXCEPT !.pc = e]
    BY PcTwice
  <2>. QED
    BY <2>4, <2>5, <2>8, <2>9
<1>7. skip(m, 1 + 0) = next
  OBVIOUS
<1>8. tto.pc = to.pc /\ tnext.pc = next.pc
  BY <1>4, <1>5, TwinFields DEF Mirrors
<1>9. C!pages_differ(tto.pc, tnext.pc) <=> over
  <2> HIDE DEF tto, to, tnext, next
  <2>. QED
    BY <1>8 DEF C!pages_differ, other_page
<1>10. CASE taken(m.p, NameOf(id))
  <2>1. C!branch(t, id) = [m |-> tto, extra |-> IF over THEN 2 ELSE 1]
    <3>1. C!take(t.p, id)
      BY <1>1, <1>10, TakenAgrees
    <3>2. C!branch(t, id) = [m |-> tto, extra |-> IF C!pages_differ(tto.pc, tnext.pc) THEN 2 ELSE 1]
      BY <1>2, <1>3, <3>1 DEF C!branch
    <3> HIDE DEF tto, tnext, over
    <3>. QED
      BY <1>9, <3>2
  <2>2. branch(m, NameOf(id)) = to
    BY <1>6, <1>10 DEF branch
  <2>3. branch_cycles(m, NameOf(id)) = IF over THEN 2 ELSE 1
    BY <1>10 DEF branch_cycles
  <2> HIDE DEF tto, to, over, t
  <2>. QED
    BY <1>5, <2>1, <2>2, <2>3 DEF t
<1>11. CASE ~taken(m.p, NameOf(id))
  <2>1. C!branch(t, id) = [m |-> tnext, extra |-> 0]
    <3>1. ~C!take(t.p, id)
      BY <1>1, <1>11, TakenAgrees
    <3>. QED
      BY <3>1 DEF C!branch
  <2>2. branch(m, NameOf(id)) = next
    BY <1>7, <1>11 DEF branch
  <2>3. branch_cycles(m, NameOf(id)) = 0
    BY <1>11 DEF branch_cycles
  <2> HIDE DEF tnext, next, t
  <2>. QED
    BY <1>4, <2>1, <2>2, <2>3 DEF Mirrors, t
<1>. QED
  BY <1>10, <1>11

-----------------------------------------------------------------------------
(* Interrupts: the status pushed, I set, and the vector *)
Vectored(m1, vector) == [m1 EXCEPT !.p = m1.p \cup {"I"}, !.pc = read16(m1, vector)]
VectoredC(t1, vector) == [t1 EXCEPT !.p = t1.p \cup {"I"}, !.pc = C!peek16(t1, vector)]

LEMMA VectoredAgrees ==
  ASSUME NEW m \in Machine, NEW k, NEW ret \in Address, NEW s \in Byte, NEW vector \in Address
  PROVE  Mirrors(VectoredC(C!push(C!push16(Twin(m, k), ret), s), vector),
                 Vectored(push(push16(m, ret), s), vector), k)
<1> DEFINE t == Twin(m, k)
           m0 == push16(m, ret)
           m1 == push(m0, s)
           t1 == C!push(C!push16(t, ret), s)
           q == m1.p \cup {"I"}
           pc == read16(m1, vector)
           m2 == [m1 EXCEPT !.p = q]
<1>1. C!push16(t, ret) = Twin(m0, k) /\ m0 \in Machine
  BY Push16Agrees DEF Mirrors
<1>2. t1 = Twin(m1, k) /\ m1 \in Machine
  <2> HIDE DEF m0
  <2>. QED
    BY <1>1, PushAgrees DEF Mirrors
<1>3. VectoredC(t1, vector) = [[t1 EXCEPT !.p = t1.p \cup {"I"}] EXCEPT !.pc = C!peek16(t1, vector)]
  BY DEF VectoredC
<1>4. Vectored(m1, vector) = [m2 EXCEPT !.pc = pc]
  BY DEF Vectored
<1> HIDE DEF m1, t1, pc
<1>5. C!peek16(t1, vector) = pc /\ pc \in Address
  BY <1>2, Peek16Agrees, Read16Type DEF pc
<1>6. t1.p = m1.p /\ q \in SUBSET Flags
  <2>1. "I" \in Flags
    BY DEF Flags
  <2>. QED
    BY <1>2, <2>1, TwinFields, MachineFields
<1> HIDE DEF q
<1>7. [t1 EXCEPT !.p = q] = Twin(m2, k) /\ m2 \in Machine
  BY <1>2, <1>6, SetP DEF Mirrors
<1> HIDE DEF m2
<1>8. Mirrors([Twin(m2, k) EXCEPT !.pc = pc], [m2 EXCEPT !.pc = pc], k)
  BY <1>5, <1>7, SetPc
<1>9. VectoredC(t1, vector) = [Twin(m2, k) EXCEPT !.pc = pc]
  BY <1>3, <1>5, <1>6, <1>7 DEF q
<1>10. Mirrors(VectoredC(t1, vector), Vectored(m1, vector), k)
  BY <1>4, <1>8, <1>9
<1>. QED
  BY <1>10 DEF m1, t1, m0

LEMMA BrkAgrees ==
  ASSUME NEW m \in Machine, NEW k, NEW ret \in Address, NEW vector \in Address,
         BRK(m) = Vectored(push(push16(m, ret), to_push_byte(m.p, TRUE)), vector)
  PROVE  Mirrors(C!interrupted_at(Twin(m, k), ret, TRUE, vector), BRK(m), k)
<1> DEFINE t == Twin(m, k)
           s == to_push_byte(m.p, TRUE)
           m1 == push(push16(m, ret), s)
           t1 == C!push(C!push16(t, ret), s)
<1>1. s \in Byte
  BY StatusType
<1>2. C!to_push_byte(t.p, TRUE) = s
  BY TwinFields, SameHelpers
<1>3. C!interrupted_at(t, ret, TRUE, vector)
        = VectoredC(C!push(C!push16(t, ret), C!to_push_byte(t.p, TRUE)), vector)
  BY DEF C!interrupted_at, VectoredC
<1>4. BRK(m) = Vectored(m1, vector)
  OBVIOUS
<1> HIDE DEF s
<1>5. Mirrors(VectoredC(t1, vector), Vectored(m1, vector), k)
  BY <1>1, VectoredAgrees
<1>6. C!interrupted_at(t, ret, TRUE, vector) = VectoredC(t1, vector)
  BY <1>2, <1>3
<1> HIDE DEF m1, t1
<1>. QED
  BY <1>4, <1>5, <1>6

LEMMA ServeAgrees ==
  ASSUME NEW m \in Machine, NEW k, NEW ret \in Address, ret = m.pc, NEW vector \in Address
  PROVE  Mirrors(C!interrupted_at(Twin(m, k), ret, FALSE, vector), serve_interrupt(m, vector), k)
<1> DEFINE t == Twin(m, k)
           s == to_push_byte(m.p, FALSE)
           m1 == push(push16(m, ret), s)
           t1 == C!push(C!push16(t, ret), s)
<1>1. s \in Byte
  BY StatusType
<1>2. C!to_push_byte(t.p, FALSE) = s
  BY TwinFields, SameHelpers
<1>3. C!interrupted_at(t, ret, FALSE, vector)
        = VectoredC(C!push(C!push16(t, ret), C!to_push_byte(t.p, FALSE)), vector)
  BY DEF C!interrupted_at, VectoredC
<1>4. serve_interrupt(m, vector) = Vectored(m1, vector)
  BY DEF serve_interrupt, Vectored
<1> HIDE DEF s
<1>5. Mirrors(VectoredC(t1, vector), Vectored(m1, vector), k)
  BY <1>1, VectoredAgrees
<1>6. C!interrupted_at(t, ret, FALSE, vector) = VectoredC(t1, vector)
  BY <1>2, <1>3
<1> HIDE DEF m1, t1
<1>. QED
  BY <1>4, <1>5, <1>6

LEMMA RtiAgrees ==
  ASSUME NEW m \in Machine, NEW k
  PROVE  Mirrors(C!RTI(Twin(m, k)), RTI(m), k)
<1> DEFINE t == Twin(m, k)
           q == from_byte(pulled(m))
           m0 == popped(m)
           m1 == [m0 EXCEPT !.p = q]
           t1 == [C!pull(t) EXCEPT !.p = C!from_byte(C!pulled(t))]
           pc == pulled16(m1)
           m2 == popped16(m1)
<1>1. q \in SUBSET Flags
  BY StatusType
<1>2. C!from_byte(C!pulled(t)) = q
  BY PulledAgrees, SameHelpers
<1>3. C!pull(t) = Twin(m0, k) /\ m0 \in Machine
  BY PullAgrees DEF Mirrors
<1>4. t1 = Twin(m1, k) /\ m1 \in Machine
  <2> HIDE DEF m0, q
  <2>1. Mirrors([Twin(m0, k) EXCEPT !.p = q], [m0 EXCEPT !.p = q], k)
    BY <1>1, <1>3, SetP
  <2>. QED
    BY <1>2, <1>3, <2>1 DEF Mirrors
<1>5. C!RTI(t) = [C!pull16(t1) EXCEPT !.pc = C!pulled16(t1)]
  BY DEF C!RTI
<1>6. RTI(m) = [m2 EXCEPT !.pc = pc]
  BY DEF RTI
<1> HIDE DEF m1, t1
<1>7. C!pulled16(t1) = pc /\ pc \in Address
  BY <1>4, Pull16Agrees
<1>8. C!pull16(t1) = Twin(m2, k) /\ m2 \in Machine
  BY <1>4, Pull16Agrees DEF Mirrors
<1> HIDE DEF m2, pc
<1>9. Mirrors([Twin(m2, k) EXCEPT !.pc = pc], [m2 EXCEPT !.pc = pc], k)
  BY <1>7, <1>8, SetPc
<1>. QED
  BY <1>5, <1>6, <1>7, <1>8, <1>9

(* The operations without operand *)
LEMMA ImpliedAgrees ==
  ASSUME NEW m \in Machine, NEW k, NEW id \in IMPLIED
  PROVE  Mirrors(C!op0_op(Twin(m, k), id), op0(m, NameOf(id)), k)
<1> DEFINE t == Twin(m, k)
<1>a. /\ m.a \in Byte /\ m.x \in Byte /\ m.y \in Byte /\ m.sp \in Byte /\ m.p \in SUBSET Flags
      /\ m.pc \in Address /\ t.a = m.a /\ t.x = m.x /\ t.y = m.y /\ t.sp = m.sp /\ t.p = m.p
      /\ t.pc = m.pc
  BY MachineFields, TwinFields
<1>1. CASE id = 6
  <2>1. C!op0_op(t, id) = C!set_nz(t, "x", m.a)
    BY <1>a, <1>1 DEF C!op0_op
  <2>2. op0(m, NameOf(id)) = Load(m, "x", m.a)
    <3>1. NameOf(id) = "TAX"
      BY <1>1, NamesOfIds
    <3>2. op0(m, "TAX") = Load(m, "x", m.a)
      BY DEF op0
    <3>. QED
      BY <3>1, <3>2
  <2>. QED
    BY <1>a, <2>1, <2>2, LoadX
<1>2. CASE id = 7
  <2>1. C!op0_op(t, id) = C!set_nz(t, "a", m.x)
    BY <1>a, <1>2 DEF C!op0_op
  <2>2. op0(m, NameOf(id)) = Load(m, "a", m.x)
    <3>1. NameOf(id) = "TXA"
      BY <1>2, NamesOfIds
    <3>2. op0(m, "TXA") = Load(m, "a", m.x)
      BY DEF op0
    <3>. QED
      BY <3>1, <3>2
  <2>. QED
    BY <1>a, <2>1, <2>2, LoadA
<1>3. CASE id = 8
  <2>1. C!op0_op(t, id) = C!set_nz(t, "y", m.a)
    BY <1>a, <1>3 DEF C!op0_op
  <2>2. op0(m, NameOf(id)) = Load(m, "y", m.a)
    <3>1. NameOf(id) = "TAY"
      BY <1>3, NamesOfIds
    <3>2. op0(m, "TAY") = Load(m, "y", m.a)
      BY DEF op0
    <3>. QED
      BY <3>1, <3>2
  <2>. QED
    BY <1>a, <2>1, <2>2, LoadY
<1>4. CASE id = 9
  <2>1. C!op0_op(t, id) = C!set_nz(t, "a", m.y)
    BY <1>a, <1>4 DEF C!op0_op
  <2>2. op0(m, NameOf(id)) = Load(m, "a", m.y)
    <3>1. NameOf(id) = "TYA"
      BY <1>4, NamesOfIds
    <3>2. op0(m, "TYA") = Load(m, "a", m.y)
      BY DEF op0
    <3>. QED
      BY <3>1, <3>2
  <2>. QED
    BY <1>a, <2>1, <2>2, LoadA
<1>5. CASE id = 10
  <2>1. C!op0_op(t, id) = C!set_nz(t, "x", m.sp)
    BY <1>a, <1>5 DEF C!op0_op
  <2>2. op0(m, NameOf(id)) = Load(m, "x", m.sp)
    <3>1. NameOf(id) = "TSX"
      BY <1>5, NamesOfIds
    <3>2. op0(m, "TSX") = Load(m, "x", m.sp)
      BY DEF op0
    <3>. QED
      BY <3>1, <3>2
  <2>. QED
    BY <1>a, <2>1, <2>2, LoadX
<1>6. CASE id = 11
  <2>1. C!op0_op(t, id) = [t EXCEPT !.sp = m.x]
    BY <1>a, <1>6 DEF C!op0_op
  <2>2. op0(m, NameOf(id)) = [m EXCEPT !.sp = m.x]
    <3>1. NameOf(id) = "TXS"
      BY <1>6, NamesOfIds
    <3>2. op0(m, "TXS") = [m EXCEPT !.sp = m.x]
      BY DEF op0
    <3>. QED
      BY <3>1, <3>2
  <2>. QED
    BY <1>a, <2>1, <2>2, SetSp
<1>7. CASE id = 12
  <2>1. C!op0_op(t, id) = C!push(t, m.a)
    BY <1>a, <1>7 DEF C!op0_op
  <2>2. op0(m, NameOf(id)) = push(m, m.a)
    <3>1. NameOf(id) = "PHA"
      BY <1>7, NamesOfIds
    <3>2. op0(m, "PHA") = push(m, m.a)
      BY DEF op0
    <3>. QED
      BY <3>1, <3>2
  <2>. QED
    BY <1>a, <2>1, <2>2, PushAgrees
<1>8. CASE id = 13
  <2> DEFINE v == to_push_byte(m.p, TRUE)
  <2>1. v \in Byte /\ C!to_push_byte(t.p, TRUE) = v
    BY <1>a, StatusType, SameHelpers
  <2>2. C!op0_op(t, id) = C!push(t, C!to_push_byte(t.p, TRUE))
    BY <1>8 DEF C!op0_op
  <2>3. op0(m, NameOf(id)) = push(m, v)
    <3>1. NameOf(id) = "PHP"
      BY <1>8, NamesOfIds
    <3>2. op0(m, "PHP") = push(m, v)
      BY DEF op0
    <3>. QED
      BY <3>1, <3>2
  <2> HIDE DEF v
  <2>. QED
    BY <2>1, <2>2, <2>3, PushAgrees
<1>9. CASE id = 14
  <2> DEFINE v == pulled(m)
             n == popped(m)
  <2>1. C!pulled(t) = v /\ v \in Byte
    BY PulledAgrees
  <2>2. C!pull(t) = Twin(n, k) /\ n \in Machine
    BY PullAgrees DEF Mirrors
  <2>3. C!op0_op(t, id) = C!set_nz(C!pull(t), "a", C!pulled(t))
    BY <1>9 DEF C!op0_op
  <2>4. op0(m, NameOf(id)) = Load(n, "a", v)
    <3>1. NameOf(id) = "PLA"
      BY <1>9, NamesOfIds
    <3>2. op0(m, "PLA") = Load(n, "a", v)
      BY DEF op0
    <3>. QED
      BY <3>1, <3>2
  <2> HIDE DEF v, n
  <2>. QED
    BY <2>1, <2>2, <2>3, <2>4, LoadA
<1>10. CASE id = 15
  <2> DEFINE q == from_byte(pulled(m))
             n == popped(m)
  <2>1. C!from_byte(C!pulled(t)) = q /\ q \in SUBSET Flags
    BY PulledAgrees, SameHelpers, StatusType
  <2>2. C!pull(t) = Twin(n, k) /\ n \in Machine
    BY PullAgrees DEF Mirrors
  <2>3. C!op0_op(t, id) = [C!pull(t) EXCEPT !.p = C!from_byte(C!pulled(t))]
    BY <1>10 DEF C!op0_op
  <2>4. op0(m, NameOf(id)) = [n EXCEPT !.p = q]
    <3>1. NameOf(id) = "PLP"
      BY <1>10, NamesOfIds
    <3>2. op0(m, "PLP") = [n EXCEPT !.p = q]
      BY DEF op0
    <3>. QED
      BY <3>1, <3>2
  <2> HIDE DEF q, n
  <2>5. Mirrors([Twin(n, k) EXCEPT !.p = q], [n EXCEPT !.p = q], k)
    BY <2>1, <2>2, SetP
  <2>. QED
    BY <2>1, <2>2, <2>3, <2>4, <2>5
<1>11. CASE id = 27
  <2> DEFINE v == (m.x + 1) % 256
  <2>1. v \in Byte
    BY <1>a, ByteBounds, Cut
  <2>2. C!op0_op(t, id) = C!set_nz(t, "x", v)
    BY <1>a, <1>11 DEF C!op0_op
  <2>3. op0(m, NameOf(id)) = Load(m, "x", v)
    <3>1. NameOf(id) = "INX"
      BY <1>11, NamesOfIds
    <3>2. op0(m, "INX") = Load(m, "x", v)
      BY DEF op0
    <3>. QED
      BY <3>1, <3>2
  <2> HIDE DEF v
  <2>. QED
    BY <2>1, <2>2, <2>3, LoadX
<1>12. CASE id = 28
  <2> DEFINE v == (m.y + 1) % 256
  <2>1. v \in Byte
    BY <1>a, ByteBounds, Cut
  <2>2. C!op0_op(t, id) = C!set_nz(t, "y", v)
    BY <1>a, <1>12 DEF C!op0_op
  <2>3. op0(m, NameOf(id)) = Load(m, "y", v)
    <3>1. NameOf(id) = "INY"
      BY <1>12, NamesOfIds
    <3>2. op0(m, "INY") = Load(m, "y", v)
      BY DEF op0
    <3>. QED
      BY <3>1, <3>2
  <2> HIDE DEF v
  <2>. QED
    BY <2>1, <2>2, <2>3, LoadY
<1>13. CASE id = 29
  <2> DEFINE v == (m.x - 1) % 256
  <2>1. v \in Byte
    BY <1>a, ByteBounds, Cut
  <2>2. C!op0_op(t, id) = C!set_nz(t, "x", v)
    BY <1>a, <1>13 DEF C!op0_op
  <2>3. op0(m, NameOf(id)) = Load(m, "x", v)
    <3>1. NameOf(id) = "DEX"
      BY <1>13, NamesOfIds
    <3>2. op0(m, "DEX") = Load(m, "x", v)
      BY DEF op0
    <3>. QED
      BY <3>1, <3>2
  <2> HIDE DEF v
  <2>. QED
    BY <2>1, <2>2, <2>3, LoadX
<1>14. CASE id = 30
  <2> DEFINE v == (m.y - 1) % 256
  <2>1. v \in Byte
    BY <1>a, ByteBounds, Cut
  <2>2. C!op0_op(t, id) = C!set_nz(t, "y", v)
    BY <1>a, <1>14 DEF C!op0_op
  <2>3. op0(m, NameOf(id)) = Load(m, "y", v)
    <3>1. NameOf(id) = "DEY"
      BY <1>14, NamesOfIds
    <3>2. op0(m, "DEY") = Load(m, "y", v)
      BY DEF op0
    <3>. QED
      BY <3>1, <3>2
  <2> HIDE DEF v
  <2>. QED
    BY <2>1, <2>2, <2>3, LoadY
<1>15. CASE id = 45
  <2> DEFINE n == popped16(m)
             pc == (pulled16(m) + 1) % 65536
             next == [popped16(m) EXCEPT !.pc = (pulled16(m) + 1) % 65536]
  <2>1. C!pulled16(t) = pulled16(m) /\ pulled16(m) \in Address
    BY Pull16Agrees
  <2>2. pc \in Address
    BY <2>1, AddressBounds, Wrapped
  <2>3. C!pull16(t) = Twin(n, k) /\ n \in Machine
    BY Pull16Agrees DEF Mirrors
  <2>4. C!op0_op(t, id) = [C!pull16(t) EXCEPT !.pc = (C!pulled16(t) + 1) % 65536]
    BY <1>15 DEF C!op0_op
  <2>5. op0(m, NameOf(id)) = next
    <3>1. NameOf(id) = "RTS"
      BY <1>15, NamesOfIds
    <3>2. op0(m, "RTS") = control(m, "RTS")
      BY DEF op0
    <3>3. control(m, "RTS") = next
      BY DEF control
    <3>. QED
      BY <3>1, <3>2, <3>3
  <2>6. (C!pulled16(t) + 1) % 65536 = pc
    BY <2>1
  <2>7. next = [n EXCEPT !.pc = pc]
    OBVIOUS
  <2> HIDE DEF n, pc, next
  <2>8. Mirrors([Twin(n, k) EXCEPT !.pc = pc], [n EXCEPT !.pc = pc], k)
    BY <2>2, <2>3, SetPc
  <2>. QED
    BY <2>3, <2>4, <2>5, <2>6, <2>7, <2>8
<1>16. CASE id = 46
  <2> DEFINE ret == (m.pc + 1) % 65536
             vector == \hFFFE
  <2>1. ret \in Address
    BY <1>a, AddressBounds, Wrapped
  <2>2. vector \in Address
    BY AddressSet
  <2>3. C!op0_op(t, id) = C!interrupted_at(t, ret, TRUE, vector)
    BY <1>a, <1>16 DEF C!op0_op
  <2>4. op0(m, NameOf(id)) = BRK(m)
    <3>1. NameOf(id) = "BRK"
      BY <1>16, NamesOfIds
    <3>2. op0(m, "BRK") = control(m, "BRK")
      BY DEF op0
    <3>3. control(m, "BRK") = BRK(m)
      BY DEF control
    <3>. QED
      BY <3>1, <3>2, <3>3
  <2>5. BRK(m) = Vectored(push(push16(m, ret), to_push_byte(m.p, TRUE)), vector)
    BY DEF BRK, Vectored
  <2> HIDE DEF ret, vector
  <2>6. Mirrors(C!interrupted_at(t, ret, TRUE, vector), BRK(m), k)
    BY <2>1, <2>2, <2>5, BrkAgrees
  <2>. QED
    BY <2>3, <2>4, <2>6
<1>17. CASE id = 47
  <2>1. C!op0_op(t, id) = C!RTI(t)
    BY <1>17 DEF C!op0_op
  <2>2. op0(m, NameOf(id)) = RTI(m)
    <3>1. NameOf(id) = "RTI"
      BY <1>17, NamesOfIds
    <3>2. op0(m, "RTI") = control(m, "RTI")
      BY DEF op0
    <3>3. control(m, "RTI") = RTI(m)
      BY DEF control
    <3>. QED
      BY <3>1, <3>2, <3>3
  <2>. QED
    BY <2>1, <2>2, RtiAgrees
<1>18. CASE id = 48
  <2>1. C!op0_op(t, id) = t
    BY <1>18 DEF C!op0_op
  <2>2. op0(m, NameOf(id)) = m
    <3>1. NameOf(id) = "NOP"
      BY <1>18, NamesOfIds
    <3>2. op0(m, "NOP") = control(m, "NOP")
      BY DEF op0
    <3>3. control(m, "NOP") = m
      BY DEF control
    <3>. QED
      BY <3>1, <3>2, <3>3
  <2>. QED
    BY <2>1, <2>2 DEF Mirrors
<1>19. CASE id = 49
  <2> DEFINE q == m.p \ {"C"}
  <2>1. q \in SUBSET Flags
    BY <1>a DEF Flags
  <2>2. C!op0_op(t, id) = [t EXCEPT !.p = q]
    BY <1>a, <1>19 DEF C!op0_op
  <2>3. op0(m, NameOf(id)) = [m EXCEPT !.p = q]
    <3>1. NameOf(id) = "CLC"
      BY <1>19, NamesOfIds
    <3>2. op0(m, "CLC") = control(m, "CLC")
      BY DEF op0
    <3>3. control(m, "CLC") = [m EXCEPT !.p = q]
      BY DEF control
    <3>. QED
      BY <3>1, <3>2, <3>3
  <2> HIDE DEF q
  <2>. QED
    BY <2>1, <2>2, <2>3, SetP
<1>20. CASE id = 50
  <2> DEFINE q == m.p \ {"D"}
  <2>1. q \in SUBSET Flags
    BY <1>a DEF Flags
  <2>2. C!op0_op(t, id) = [t EXCEPT !.p = q]
    BY <1>a, <1>20 DEF C!op0_op
  <2>3. op0(m, NameOf(id)) = [m EXCEPT !.p = q]
    <3>1. NameOf(id) = "CLD"
      BY <1>20, NamesOfIds
    <3>2. op0(m, "CLD") = control(m, "CLD")
      BY DEF op0
    <3>3. control(m, "CLD") = [m EXCEPT !.p = q]
      BY DEF control
    <3>. QED
      BY <3>1, <3>2, <3>3
  <2> HIDE DEF q
  <2>. QED
    BY <2>1, <2>2, <2>3, SetP
<1>21. CASE id = 51
  <2> DEFINE q == m.p \ {"I"}
  <2>1. q \in SUBSET Flags
    BY <1>a DEF Flags
  <2>2. C!op0_op(t, id) = [t EXCEPT !.p = q]
    BY <1>a, <1>21 DEF C!op0_op
  <2>3. op0(m, NameOf(id)) = [m EXCEPT !.p = q]
    <3>1. NameOf(id) = "CLI"
      BY <1>21, NamesOfIds
    <3>2. op0(m, "CLI") = control(m, "CLI")
      BY DEF op0
    <3>3. control(m, "CLI") = [m EXCEPT !.p = q]
      BY DEF control
    <3>. QED
      BY <3>1, <3>2, <3>3
  <2> HIDE DEF q
  <2>. QED
    BY <2>1, <2>2, <2>3, SetP
<1>22. CASE id = 52
  <2> DEFINE q == m.p \ {"V"}
  <2>1. q \in SUBSET Flags
    BY <1>a DEF Flags
  <2>2. C!op0_op(t, id) = [t EXCEPT !.p = q]
    BY <1>a, <1>22 DEF C!op0_op
  <2>3. op0(m, NameOf(id)) = [m EXCEPT !.p = q]
    <3>1. NameOf(id) = "CLV"
      BY <1>22, NamesOfIds
    <3>2. op0(m, "CLV") = control(m, "CLV")
      BY DEF op0
    <3>3. control(m, "CLV") = [m EXCEPT !.p = q]
      BY DEF control
    <3>. QED
      BY <3>1, <3>2, <3>3
  <2> HIDE DEF q
  <2>. QED
    BY <2>1, <2>2, <2>3, SetP
<1>23. CASE id = 53
  <2> DEFINE q == m.p \cup {"C"}
  <2>1. q \in SUBSET Flags
    BY <1>a DEF Flags
  <2>2. C!op0_op(t, id) = [t EXCEPT !.p = q]
    BY <1>a, <1>23 DEF C!op0_op
  <2>3. op0(m, NameOf(id)) = [m EXCEPT !.p = q]
    <3>1. NameOf(id) = "SEC"
      BY <1>23, NamesOfIds
    <3>2. op0(m, "SEC") = control(m, "SEC")
      BY DEF op0
    <3>3. control(m, "SEC") = [m EXCEPT !.p = q]
      BY DEF control
    <3>. QED
      BY <3>1, <3>2, <3>3
  <2> HIDE DEF q
  <2>. QED
    BY <2>1, <2>2, <2>3, SetP
<1>24. CASE id = 54
  <2> DEFINE q == m.p \cup {"D"}
  <2>1. q \in SUBSET Flags
    BY <1>a DEF Flags
  <2>2. C!op0_op(t, id) = [t EXCEPT !.p = q]
    BY <1>a, <1>24 DEF C!op0_op
  <2>3. op0(m, NameOf(id)) = [m EXCEPT !.p = q]
    <3>1. NameOf(id) = "SED"
      BY <1>24, NamesOfIds
    <3>2. op0(m, "SED") = control(m, "SED")
      BY DEF op0
    <3>3. control(m, "SED") = [m EXCEPT !.p = q]
      BY DEF control
    <3>. QED
      BY <3>1, <3>2, <3>3
  <2> HIDE DEF q
  <2>. QED
    BY <2>1, <2>2, <2>3, SetP
<1>25. CASE id = 55
  <2> DEFINE q == m.p \cup {"I"}
  <2>1. q \in SUBSET Flags
    BY <1>a DEF Flags
  <2>2. C!op0_op(t, id) = [t EXCEPT !.p = q]
    BY <1>a, <1>25 DEF C!op0_op
  <2>3. op0(m, NameOf(id)) = [m EXCEPT !.p = q]
    <3>1. NameOf(id) = "SEI"
      BY <1>25, NamesOfIds
    <3>2. op0(m, "SEI") = control(m, "SEI")
      BY DEF op0
    <3>3. control(m, "SEI") = [m EXCEPT !.p = q]
      BY DEF control
    <3>. QED
      BY <3>1, <3>2, <3>3
  <2> HIDE DEF q
  <2>. QED
    BY <2>1, <2>2, <2>3, SetP
<1>. QED
  BY <1>1, <1>2, <1>3, <1>4, <1>5, <1>6, <1>7, <1>8, <1>9, <1>10, <1>11, <1>12,
     <1>13, <1>14, <1>15, <1>16, <1>17, <1>18, <1>19, <1>20, <1>21, <1>22, <1>23, <1>24,
     <1>25 DEF IMPLIED

LEMMA UndefinedAgrees ==
  ASSUME NEW m \in Machine, NEW k
  PROVE  Mirrors(C!op0_op(Twin(m, k), 0), op0(m, "LDA"), k)
<1>1. C!op0_op(Twin(m, k), 0) = Twin(m, k)
  BY DEF C!op0_op
<1>2. op0(m, "LDA") = m
  BY DEF op0, control
<1>. QED
  BY <1>1, <1>2 DEF Mirrors

-----------------------------------------------------------------------------
(* An instruction: what the mode decides, then the operation *)
Ran(r, m, k, n) == Mirrors(r.m, m, k) /\ r.extra = n

ExecImm(m, op) == op1(skip(m, 1), op, read8(m, m.pc))
ExecAddressed(m, op, mode) == exec_memory(skip(m, operand_bytes(mode)), op, fetch(m, mode))

LEMMA ReadingIds ==
  ASSUME NEW id \in MEMORY
  PROVE  id \in C!crossing_costs <=> NameOf(id) \in Reading
<1>1. CASE id \in 0..5
  BY <1>1, NamesOfIds DEF C!crossing_costs, Reading
<1>2. CASE id \in 16..26
  BY <1>2, NamesOfIds DEF C!crossing_costs, Reading
<1>3. CASE id \in 31..34
  BY <1>3, NamesOfIds DEF C!crossing_costs, Reading
<1>4. CASE id \in {43, 44}
  BY <1>4, NamesOfIds DEF C!crossing_costs, Reading
<1>. QED
  BY <1>1, <1>2, <1>3, <1>4 DEF MEMORY, SHIFTS

LEMMA NoReading ==
  ASSUME NEW id \in BRANCHES
  PROVE  NameOf(id) \notin Reading
BY NamesOfIds DEF BRANCHES, Reading

(* How the two cores dispatch on the mode *)
LEMMA DispatchC ==
  ASSUME NEW t, NEW code, NEW u, u = C!advance(t, 1), NEW id, NEW mode,
         C!OP(code).id = id, C!OP(code).mode = mode
  PROVE  /\ mode = "IMM" =>
              C!exec_step(t, code)
                = [m |-> C!op_imm(C!advance(u, 1), id, C!peek(u, u.pc)), extra |-> 0]
         /\ mode = "ACC" => C!exec_step(t, code) = [m |-> C!shift_a(u, id), extra |-> 0]
         /\ mode = "REL" => C!exec_step(t, code) = C!branch(u, id)
         /\ mode = "IMP" => C!exec_step(t, code) = [m |-> C!op0_op(u, id), extra |-> 0]
         /\ mode \in ADDRESSED =>
              C!exec_step(t, code)
                = [m |-> C!exec_memory(C!advance(u, C!length(mode)), id, C!fetch(u, mode)),
                   extra |-> C!page_extra(u, id, mode)]
BY DEF C!exec_step, ADDRESSED

LEMMA Dispatch ==
  ASSUME NEW m, NEW n, n = skip(m, 1), NEW op, NEW mode,
         decode[read8(m, m.pc)].op = op, decode[read8(m, m.pc)].mode = mode
  PROVE  /\ mode = "IMM" => exec(m) = ExecImm(n, op)
         /\ mode = "ACC" => exec(m) = Arith(n, shift(op, n.a, n.p))
         /\ mode = "REL" => exec(m) = branch(n, op)
         /\ mode = "IMP" => exec(m) = op0(n, op)
         /\ mode \in ADDRESSED => exec(m) = ExecAddressed(n, op, mode)
BY DEF exec, ExecImm, ExecAddressed, ADDRESSED

LEMMA ExtraCycles ==
  ASSUME NEW m, NEW n, n = skip(m, 1), NEW op, NEW mode,
         decode[read8(m, m.pc)].op = op, decode[read8(m, m.pc)].mode = mode
  PROVE  /\ mode = "REL" /\ op \notin Reading => extra_cycles(m) = branch_cycles(n, op)
         /\ mode \in {"IMM", "ACC", "IMP"} => extra_cycles(m) = 0
         /\ mode \in ADDRESSED =>
              extra_cycles(m) = IF op \in Reading /\ crossed(n, mode) THEN 1 ELSE 0
<1>1. CASE mode = "REL"
  BY <1>1 DEF extra_cycles, ADDRESSED
<1>2. CASE mode \in {"IMM", "ACC", "IMP"}
  <2>1. crossed(n, mode) = FALSE
    BY <1>2 DEF crossed
  <2>. QED
    BY <1>2, <2>1 DEF extra_cycles, ADDRESSED
<1>3. CASE mode \in ADDRESSED
  <2>1. mode # "REL" /\ mode \notin {"IMM", "ACC", "IMP"}
    BY <1>3 DEF ADDRESSED
  <2> DEFINE over == op \in Reading /\ crossed(n, mode)
  <2>2. extra_cycles(m) = CASE over -> 1 [] OTHER -> 0
    BY <2>1, Zenon DEF extra_cycles
  <2>. QED
    BY <2>1, <2>2
<1>. QED
  BY <1>1, <1>2, <1>3

LEMMA ExecFits ==
  ASSUME NEW m \in Machine, NEW k, NEW code, code = read8(m, m.pc), NEW id, NEW mode,
         Fits(id, mode), C!OP(code).id = id, C!OP(code).mode = mode,
         decode[code].op = NameOf(id), decode[code].mode = mode
  PROVE  Ran(C!exec_step(Twin(m, k), code), exec(m), k, extra_cycles(m))
<1> DEFINE t == Twin(m, k)
           n == skip(m, 1)
           u == C!advance(t, 1)
           v == read8(n, n.pc)
           op == NameOf(id)
<1>1. u = Twin(n, k) /\ n \in Machine
  BY AdvanceAgrees DEF Mirrors
<1>2. n = skip(m, 1) /\ u = C!advance(t, 1)
  OBVIOUS
<1> HIDE DEF n, u
<1>3. v \in Byte /\ C!peek(u, u.pc) = v
  <2>1. n.pc \in Address /\ u.pc = n.pc
    BY <1>1, MachineFields, TwinFields
  <2>. QED
    BY <1>1, <2>1, ReadIsByte, PeekHere
<1>4. CASE mode = "IMM"
  <2>1. id \in IMMEDIATE
    BY <1>4 DEF Fits, ADDRESSED
  <2>2. C!exec_step(t, code) = [m |-> C!op_imm(C!advance(u, 1), id, C!peek(u, u.pc)), extra |-> 0]
    BY <1>2, <1>4, DispatchC
  <2>3. exec(m) = ExecImm(n, op) /\ extra_cycles(m) = 0
    BY <1>2, <1>4, Dispatch, ExtraCycles
  <2>4. C!advance(u, 1) = Twin(skip(n, 1), k) /\ skip(n, 1) \in Machine
    BY <1>1, AdvanceAgrees DEF Mirrors
  <2> HIDE DEF t, v
  <2>5. Mirrors(C!op_imm(Twin(skip(n, 1), k), id, v), op1(skip(n, 1), op, v), k)
    BY <1>3, <2>1, <2>4, ImmediateAgrees
  <2>6. exec(m) = op1(skip(n, 1), op, v)
    BY <2>3 DEF ExecImm, v
  <2>. QED
    BY <1>3, <2>2, <2>3, <2>4, <2>5, <2>6 DEF Ran, t
<1>5. CASE mode = "ACC"
  <2>1. id \in SHIFTS
    BY <1>5 DEF Fits, ADDRESSED
  <2>2. C!exec_step(t, code) = [m |-> C!shift_a(u, id), extra |-> 0]
    BY <1>2, <1>5, DispatchC
  <2>3. exec(m) = Arith(n, shift(op, n.a, n.p)) /\ extra_cycles(m) = 0
    BY <1>2, <1>5, Dispatch, ExtraCycles
  <2>4. Mirrors(C!shift_a(u, id), Arith(n, shift(op, n.a, n.p)), k)
    BY <1>1, <2>1, ShiftAAgrees
  <2>. QED
    BY <2>2, <2>3, <2>4 DEF Ran
<1>6. CASE mode = "REL"
  <2>1. id \in BRANCHES
    BY <1>6 DEF Fits, ADDRESSED
  <2>2. C!exec_step(t, code) = C!branch(u, id)
    BY <1>2, <1>6, DispatchC
  <2>3. op \notin Reading
    BY <2>1, NoReading
  <2>4. exec(m) = branch(n, op) /\ extra_cycles(m) = branch_cycles(n, op)
    BY <1>2, <1>6, <2>3, Dispatch, ExtraCycles
  <2>5. Mirrors(C!branch(u, id).m, branch(n, op), k) /\ C!branch(u, id).extra = branch_cycles(n, op)
    BY <1>1, <2>1, BranchAgrees
  <2>. QED
    BY <2>2, <2>4, <2>5 DEF Ran
<1>7. CASE mode = "IMP"
  <2>1. id \in IMPLIED
    BY <1>7 DEF Fits, ADDRESSED
  <2>2. C!exec_step(t, code) = [m |-> C!op0_op(u, id), extra |-> 0]
    BY <1>2, <1>7, DispatchC
  <2>3. exec(m) = op0(n, op) /\ extra_cycles(m) = 0
    BY <1>2, <1>7, Dispatch, ExtraCycles
  <2>4. Mirrors(C!op0_op(u, id), op0(n, op), k)
    BY <1>1, <2>1, ImpliedAgrees
  <2>. QED
    BY <2>2, <2>3, <2>4 DEF Ran
<1>8. CASE mode \in ADDRESSED
  <2> DEFINE after == skip(n, operand_bytes(mode))
             addr == fetch(n, mode)
             over == op \in Reading /\ crossed(n, mode)
  <2>1. id \in MEMORY
    BY <1>8 DEF Fits, ADDRESSED
  <2>2. C!exec_step(t, code)
          = [m |-> C!exec_memory(C!advance(u, C!length(mode)), id, C!fetch(u, mode)),
             extra |-> C!page_extra(u, id, mode)]
    BY <1>2, <1>8, DispatchC
  <2>3. exec(m) = ExecAddressed(n, op, mode)
    BY <1>2, <1>8, Dispatch
  <2>4. extra_cycles(m) = IF over THEN 1 ELSE 0
    BY <1>2, <1>8, ExtraCycles
  <2>5. C!advance(u, C!length(mode)) = Twin(after, k) /\ after \in Machine
    BY <1>1, <1>8, LengthAgrees, AdvanceAgrees DEF Mirrors
  <2>6. C!fetch(u, mode) = addr /\ addr \in Address
    BY <1>1, <1>8, FetchAgrees
  <2>7. C!page_extra(u, id, mode) = IF over THEN 1 ELSE 0
    <3>1. C!fetch_crossed(u, mode) = crossed(n, mode)
      BY <1>1, <1>8, CrossedAgrees
    <3>. QED
      BY <2>1, <3>1, ReadingIds DEF C!page_extra
  <2>8. exec(m) = exec_memory(after, op, addr)
    BY <2>3 DEF ExecAddressed
  <2> HIDE DEF after, addr, over, t
  <2>9. Mirrors(C!exec_memory(Twin(after, k), id, addr), exec_memory(after, op, addr), k)
    BY <2>1, <2>5, <2>6, MemoryAgrees
  <2>. QED
    BY <2>2, <2>4, <2>5, <2>6, <2>7, <2>8, <2>9 DEF Ran, t
<1>. QED
  BY <1>4, <1>5, <1>6, <1>7, <1>8 DEF Fits

LEMMA ExecUndefined ==
  ASSUME NEW m \in Machine, NEW k, NEW code, code = read8(m, m.pc),
         C!OP(code).id = 0, C!OP(code).mode = "IMP",
         decode[code].op = "LDA", decode[code].mode = "IMP"
  PROVE  Ran(C!exec_step(Twin(m, k), code), exec(m), k, extra_cycles(m))
<1> DEFINE t == Twin(m, k)
           n == skip(m, 1)
           u == C!advance(t, 1)
<1>1. u = Twin(n, k) /\ n \in Machine
  BY AdvanceAgrees DEF Mirrors
<1>2. n = skip(m, 1) /\ u = C!advance(t, 1)
  OBVIOUS
<1> HIDE DEF n, u
<1>3. C!exec_step(t, code) = [m |-> C!op0_op(u, 0), extra |-> 0]
  BY <1>2, DispatchC
<1>4. exec(m) = op0(n, "LDA") /\ extra_cycles(m) = 0
  BY <1>2, Dispatch, ExtraCycles
<1>5. Mirrors(C!op0_op(u, 0), op0(n, "LDA"), k)
  BY <1>1, UndefinedAgrees
<1>. QED
  BY <1>3, <1>4, <1>5 DEF Ran

LEMMA ExecAgrees ==
  ASSUME NEW m \in Machine, NEW k, NEW code, code = read8(m, m.pc)
  PROVE  Ran(C!exec_step(Twin(m, k), code), exec(m), k, extra_cycles(m))
<1>1. code \in Byte
  BY ReadIsByte
<1>2. CASE Used(code)
  <2> DEFINE id == Id(code)
             mode == C!MODE(code)
  <2>1. Fits(id, mode)
    BY <1>1, <1>2, EveryEntry DEF Entry
  <2>2. C!OP(code) = [id |-> id, mode |-> mode]
    BY <1>2, TableUsed
  <2>3. decode[code] = [op |-> NameOf(id), mode |-> mode]
    BY <1>1, <1>2, DecodeUsed DEF Name
  <2> HIDE DEF id, mode
  <2>4. C!OP(code).id = id /\ C!OP(code).mode = mode
    BY <2>2
  <2>5. decode[code].op = NameOf(id) /\ decode[code].mode = mode
    BY <2>3
  <2>. QED
    BY <2>1, <2>4, <2>5, ExecFits
<1>3. CASE ~Used(code)
  <2>1. C!OP(code).id = 0 /\ C!OP(code).mode = "IMP"
    BY <1>3, TableUnused
  <2>2. decode[code].op = "LDA" /\ decode[code].mode = "IMP"
    BY <1>1, <1>3, DecodeUnused
  <2>. QED
    BY <2>1, <2>2, ExecUndefined
<1>. QED
  BY <1>2, <1>3

LEMMA CyclesType == ASSUME NEW code \in Byte PROVE C!CY[code + 1] \in Nat
BY EveryClock DEF Clock

-----------------------------------------------------------------------------
(* The cycle counter of the port wraps: counting on from its remainder is as  *)
(* good as counting on from the cycles. *)
LEMMA Remainder ==
  ASSUME NEW c \in Nat
  PROVE  /\ c % CYCOUNT_RANGE \in 0..(CYCOUNT_RANGE - 1) /\ c \div CYCOUNT_RANGE \in Nat
         /\ c = CYCOUNT_RANGE * (c \div CYCOUNT_RANGE) + (c % CYCOUNT_RANGE)
BY PortAssumption

LEMMA OneRemainder ==
  ASSUME NEW k \in Int, NEW l \in Int,
         NEW r \in 0..(CYCOUNT_RANGE - 1), NEW s \in 0..(CYCOUNT_RANGE - 1),
         CYCOUNT_RANGE * k + r = CYCOUNT_RANGE * l + s
  PROVE  r = s
<1> DEFINE d == k - l
<1>1. CYCOUNT_RANGE \in Nat \ {0} /\ d \in Int
  BY PortAssumption
<1>2. CYCOUNT_RANGE * d = s - r
  BY <1>1
<1> HIDE DEF d
<1>3. CASE d >= 1
  <2>1. CYCOUNT_RANGE * d >= CYCOUNT_RANGE
    BY <1>1, <1>3
  <2>. QED
    BY <1>1, <1>2, <2>1
<1>4. CASE d <= -1
  <2>1. CYCOUNT_RANGE * d <= -CYCOUNT_RANGE
    BY <1>1, <1>4
  <2>. QED
    BY <1>1, <1>2, <2>1
<1>5. CASE d = 0
  BY <1>1, <1>2, <1>5
<1>. QED
  BY <1>1, <1>3, <1>4, <1>5

LEMMA CountWraps ==
  ASSUME NEW c \in Nat, NEW v \in Nat
  PROVE  ((c % CYCOUNT_RANGE) + v) % CYCOUNT_RANGE = (c + v) % CYCOUNT_RANGE
<1> DEFINE R == CYCOUNT_RANGE
           q == c \div R
           r == c % R
           sum == r + v
           sq == sum \div R
           sr == sum % R
           all == c + v
           aq == all \div R
           ar == all % R
<1>1. R \in Nat \ {0}
  BY PortAssumption
<1>2. r \in 0..(R - 1) /\ q \in Nat /\ c = R * q + r
  BY Remainder
<1>3. sum \in Nat /\ all \in Nat
  BY <1>1, <1>2
<1> HIDE DEF q, r
<1>4. sr \in 0..(R - 1) /\ sq \in Nat /\ sum = R * sq + sr
  BY <1>3, Remainder
<1>5. ar \in 0..(R - 1) /\ aq \in Nat /\ all = R * aq + ar
  BY <1>3, Remainder
<1>6. all = R * q + sum
  BY <1>1, <1>2
<1> HIDE DEF sum, sq, sr, all, aq, ar
<1>7. R * (q + sq) + sr = R * aq + ar
  <2> DEFINE head == R * q
             rest == R * sq
  <2>1. head \in Int /\ rest \in Int /\ R * (q + sq) = head + rest
    BY <1>1, <1>2, <1>4
  <2>2. sum = rest + sr /\ all = head + sum
    BY <1>4, <1>6
  <2> HIDE DEF head, rest
  <2>. QED
    BY <1>4, <1>5, <2>1, <2>2
<1>8. sr = ar
  BY <1>2, <1>4, <1>5, <1>7, OneRemainder
<1>. QED
  BY <1>8 DEF sr, sum, r, ar, all

(* The reference core, and the port beside it, with the same latches and      *)
(* cycles *)
CoreOf(m, c, i, n) == [m |-> m, cycles |-> c, irq |-> i, nmi |-> n]
Counted(c) == c % CYCOUNT_RANGE
PortOf(m, c, i, n) == Twin(m, [cycount |-> Counted(c), irq_pending |-> i, nmi_pending |-> n])
Follows(t, s) ==
  /\ s = CoreOf(s.m, s.cycles, s.irq, s.nmi) /\ s.m \in Machine /\ s.cycles \in Nat
  /\ t = PortOf(s.m, s.cycles, s.irq, s.nmi)

LEMMA CountedZero == Counted(0) = 0
BY PortAssumption DEF Counted

LEMMA CoreFields ==
  ASSUME NEW m, NEW c, NEW i, NEW n
  PROVE  /\ CoreOf(m, c, i, n).m = m /\ CoreOf(m, c, i, n).cycles = c
         /\ CoreOf(m, c, i, n).irq = i /\ CoreOf(m, c, i, n).nmi = n
BY DEF CoreOf

LEMMA PortFields ==
  ASSUME NEW m, NEW c, NEW i, NEW n
  PROVE  /\ PortOf(m, c, i, n).p = m.p /\ PortOf(m, c, i, n).pc = m.pc
         /\ PortOf(m, c, i, n).bus = Bus(m) /\ PortOf(m, c, i, n).cycount = Counted(c)
         /\ PortOf(m, c, i, n).irq_pending = i /\ PortOf(m, c, i, n).nmi_pending = n
BY DEF PortOf, Twin

LEMMA SideBySide ==
  ASSUME NEW m \in Machine, NEW c \in Nat, NEW i, NEW n
  PROVE  Follows(PortOf(m, c, i, n), CoreOf(m, c, i, n))
BY CoreFields DEF Follows

LEMMA CoreIrq ==
  ASSUME NEW m, NEW c, NEW i, NEW n, NEW v
  PROVE  [CoreOf(m, c, i, n) EXCEPT !.irq = v] = CoreOf(m, c, v, n)
BY DEF CoreOf

LEMMA CoreNmi ==
  ASSUME NEW m, NEW c, NEW i, NEW n, NEW v
  PROVE  [CoreOf(m, c, i, n) EXCEPT !.nmi = v] = CoreOf(m, c, i, v)
BY DEF CoreOf

LEMMA CoreMachine ==
  ASSUME NEW m, NEW c, NEW i, NEW n, NEW v
  PROVE  [CoreOf(m, c, i, n) EXCEPT !.m = v] = CoreOf(v, c, i, n)
BY DEF CoreOf

LEMMA CoreCycles ==
  ASSUME NEW m, NEW c, NEW i, NEW n, NEW v
  PROVE  [CoreOf(m, c, i, n) EXCEPT !.cycles = v] = CoreOf(m, v, i, n)
BY DEF CoreOf

LEMMA PortIrq ==
  ASSUME NEW m, NEW c, NEW i, NEW n, NEW v
  PROVE  [PortOf(m, c, i, n) EXCEPT !.irq_pending = v] = PortOf(m, c, v, n)
BY DEF PortOf, Twin

LEMMA PortNmi ==
  ASSUME NEW m, NEW c, NEW i, NEW n, NEW v
  PROVE  [PortOf(m, c, i, n) EXCEPT !.nmi_pending = v] = PortOf(m, c, i, v)
BY DEF PortOf, Twin

LEMMA PortCount ==
  ASSUME NEW m, NEW c \in Nat, NEW i, NEW n, NEW v \in Nat
  PROVE  C!count(PortOf(m, c, i, n), v) = PortOf(m, c + v, i, n)
<1> DEFINE t == PortOf(m, c, i, n)
           w == (Counted(c) + v) % CYCOUNT_RANGE
           sum == c + v
<1>1. t.cycount = Counted(c)
  BY PortFields
<1>2. C!count(t, v) = [t EXCEPT !.cycount = (t.cycount + v) % CYCOUNT_RANGE]
  BY DEF C!count
<1>3. C!count(t, v) = [t EXCEPT !.cycount = w]
  BY <1>1, <1>2
<1>4. w = Counted(sum)
  BY CountWraps DEF Counted
<1> HIDE DEF w, sum
<1>5. [t EXCEPT !.cycount = Counted(sum)] = PortOf(m, sum, i, n)
  BY DEF PortOf, Twin
<1>. QED
  BY <1>3, <1>4, <1>5 DEF sum

LEMMA ServeFollows ==
  ASSUME NEW m \in Machine, NEW c \in Nat, NEW i, NEW n, NEW vector \in Address,
         NEW t, t = PortOf(m, c, i, n), NEW s, s = CoreOf(m, c, i, n)
  PROVE  Follows(C!serve_interrupt(t, vector), serve(s, vector))
<1> DEFINE r == serve_interrupt(m, vector)
           w == c + 7
<1>1. C!interrupted_at(t, m.pc, FALSE, vector) = PortOf(r, c, i, n) /\ r \in Machine
  <2> DEFINE k == [cycount |-> Counted(c), irq_pending |-> i, nmi_pending |-> n]
  <2>1. t = Twin(m, k)
    BY DEF PortOf
  <2>2. PortOf(r, c, i, n) = Twin(r, k)
    BY DEF PortOf
  <2>3. m.pc \in Address
    BY MachineFields
  <2> HIDE DEF k
  <2>4. Mirrors(C!interrupted_at(Twin(m, k), m.pc, FALSE, vector), r, k)
    BY <2>3, ServeAgrees
  <2>. QED
    BY <2>1, <2>2, <2>4 DEF Mirrors
<1>2. t.pc = m.pc
  BY DEF PortOf, Twin
<1>3. C!serve_interrupt(t, vector) = C!count(C!interrupted_at(t, m.pc, FALSE, vector), 7)
  BY <1>2 DEF C!serve_interrupt
<1>4. C!count(PortOf(r, c, i, n), 7) = PortOf(r, w, i, n)
  BY PortCount
<1>5. s.m = m /\ s.cycles = c
  BY DEF CoreOf
<1>6. serve(s, vector) = [s EXCEPT !.m = r, !.cycles = w]
  BY <1>5 DEF serve
<1>7. w \in Nat
  OBVIOUS
<1> HIDE DEF r, w
<1>8. [s EXCEPT !.m = r, !.cycles = w] = CoreOf(r, w, i, n)
  <2>1. [s EXCEPT !.m = r] = CoreOf(r, c, i, n)
    BY CoreMachine
  <2>2. [CoreOf(r, c, i, n) EXCEPT !.cycles = w] = CoreOf(r, w, i, n)
    BY CoreCycles
  <2>3. [s EXCEPT !.m = r, !.cycles = w] = [[s EXCEPT !.m = r] EXCEPT !.cycles = w]
    OBVIOUS
  <2>. QED
    BY <2>1, <2>2, <2>3
<1>9. Follows(PortOf(r, w, i, n), CoreOf(r, w, i, n))
  BY <1>1, <1>7, SideBySide
<1>. QED
  BY <1>1, <1>3, <1>4, <1>6, <1>8, <1>9

(* After an instruction, what is pending: the NMI before the IRQ *)
ServedC(t) ==
  IF t.nmi_pending THEN C!serve_interrupt([t EXCEPT !.nmi_pending = FALSE], \hFFFA)
  ELSE IF t.irq_pending /\ "I" \notin t.p
  THEN C!serve_interrupt([t EXCEPT !.irq_pending = FALSE], \hFFFE)
  ELSE t
Served(s) ==
  CASE s.nmi -> serve([s EXCEPT !.nmi = FALSE], \hFFFA)
    [] ~s.nmi /\ s.irq /\ "I" \notin s.m.p -> serve([s EXCEPT !.irq = FALSE], \hFFFE)
    [] OTHER -> s

LEMMA PendingFollows ==
  ASSUME NEW m \in Machine, NEW c \in Nat, NEW i, NEW n,
         NEW t, t = PortOf(m, c, i, n), NEW s, s = CoreOf(m, c, i, n)
  PROVE  Follows(ServedC(t), Served(s))
<1> DEFINE nmiVector == \hFFFA
           irqVector == \hFFFE
           no == FALSE
           tn == [t EXCEPT !.nmi_pending = no]
           ti == [t EXCEPT !.irq_pending = no]
           sn == [s EXCEPT !.nmi = no]
           si == [s EXCEPT !.irq = no]
<1>1. nmiVector \in Address /\ irqVector \in Address
  BY AddressSet
<1>2. t.nmi_pending = n /\ t.irq_pending = i /\ t.p = m.p
  BY DEF PortOf, Twin
<1>3. s.nmi = n /\ s.irq = i /\ s.m = m
  BY DEF CoreOf
<1>4. ServedC(t) = IF t.nmi_pending THEN C!serve_interrupt(tn, nmiVector)
                   ELSE IF t.irq_pending /\ "I" \notin t.p
                   THEN C!serve_interrupt(ti, irqVector) ELSE t
  BY DEF ServedC
<1>5. Served(s) = CASE s.nmi -> serve(sn, nmiVector)
                    [] ~s.nmi /\ s.irq /\ "I" \notin s.m.p -> serve(si, irqVector)
                    [] OTHER -> s
  BY DEF Served
<1> HIDE DEF no, nmiVector, irqVector
<1>6. tn = PortOf(m, c, i, no)
  BY PortNmi
<1>7. ti = PortOf(m, c, no, n)
  BY PortIrq
<1>8. sn = CoreOf(m, c, i, no)
  BY CoreNmi
<1>9. si = CoreOf(m, c, no, n)
  BY CoreIrq
<1> HIDE DEF tn, ti, sn, si
<1>10. Follows(C!serve_interrupt(tn, nmiVector), serve(sn, nmiVector))
  BY <1>1, <1>6, <1>8, ServeFollows
<1>11. Follows(C!serve_interrupt(ti, irqVector), serve(si, irqVector))
  BY <1>1, <1>7, <1>9, ServeFollows
<1>12. Follows(t, s)
  BY SideBySide
<1>13. CASE t.nmi_pending
  <2>1. ServedC(t) = C!serve_interrupt(tn, nmiVector)
    BY <1>4, <1>13
  <2>2. Served(s) = serve(sn, nmiVector)
    BY <1>2, <1>3, <1>5, <1>13
  <2>. QED
    BY <1>10, <2>1, <2>2
<1>14. CASE ~t.nmi_pending /\ t.irq_pending /\ "I" \notin t.p
  <2>1. ServedC(t) = C!serve_interrupt(ti, irqVector)
    BY <1>4, <1>14
  <2>2. Served(s) = serve(si, irqVector)
    BY <1>2, <1>3, <1>5, <1>14
  <2>. QED
    BY <1>11, <2>1, <2>2
<1>15. CASE ~t.nmi_pending /\ ~(t.irq_pending /\ "I" \notin t.p)
  <2>1. ServedC(t) = t
    BY <1>4, <1>15
  <2>2. Served(s) = s
    BY <1>2, <1>3, <1>5, <1>15
  <2>. QED
    BY <1>12, <2>1, <2>2
<1>. QED
  BY <1>13, <1>14, <1>15

-----------------------------------------------------------------------------
(* One step of each core *)
LEMMA ExtraType == ASSUME NEW m PROVE extra_cycles(m) \in Nat
<1>1. \A n, op : branch_cycles(n, op) \in Nat
  BY DEF branch_cycles
<1>. QED
  BY <1>1 DEF extra_cycles

LEMMA StepFollows ==
  ASSUME NEW m \in Machine, NEW c \in Nat, NEW i, NEW n,
         NEW t, t = PortOf(m, c, i, n), NEW s, s = CoreOf(m, c, i, n)
  PROVE  Follows(C!cpu_step(t), step(s))
<1> DEFINE k == [cycount |-> Counted(c), irq_pending |-> i, nmi_pending |-> n]
           code == read8(m, m.pc)
           run == C!exec_step(t, code)
           extra == extra_cycles(m)
           base == C!CY[code + 1]
           w == c + (base + extra)
           r == exec(m)
           ran == [s EXCEPT !.m = r, !.cycles = w]
<1>1. t = Twin(m, k)
  BY DEF PortOf
<1>2. PortOf(r, c, i, n) = Twin(r, k)
  BY DEF PortOf
<1>3. code \in Byte
  BY ReadIsByte
<1>4. C!peek(t, t.pc) = code
  <2>1. m.pc \in Address /\ t.pc = m.pc
    BY <1>1, MachineFields, TwinFields
  <2>. QED
    BY <1>1, <2>1, PeekHere
<1>5. base \in Nat /\ CYCLES(code) = base /\ extra \in Nat
  BY <1>3, CyclesType, CyclesAgree, ExtraType
<1>6. run.m = PortOf(r, c, i, n) /\ r \in Machine /\ run.extra = extra
  <2> HIDE DEF k
  <2>1. Ran(C!exec_step(Twin(m, k), code), r, k, extra)
    BY ExecAgrees
  <2>. QED
    BY <1>1, <1>2, <2>1 DEF Ran, Mirrors
<1>7. C!cpu_step(t) = ServedC(C!count(run.m, base + run.extra))
  BY <1>4 DEF C!cpu_step, ServedC
<1>8. s.m = m /\ s.cycles = c
  BY DEF CoreOf
<1>9. step(s) = Served([s EXCEPT !.m = exec(@), !.cycles = @ + instruction_cycles(s.m)])
  BY DEF step, Served
<1>10. [s EXCEPT !.m = exec(@), !.cycles = @ + instruction_cycles(s.m)] = ran
  BY <1>5, <1>8 DEF instruction_cycles
<1>11. C!count(PortOf(r, c, i, n), base + extra) = PortOf(r, w, i, n)
  <2>1. base + extra \in Nat
    BY <1>5
  <2> HIDE DEF r, base, extra
  <2>. QED
    BY <2>1, PortCount
<1>12. w \in Nat
  BY <1>5
<1> HIDE DEF r, w, run, base, extra
<1>13. ran = CoreOf(r, w, i, n)
  <2>1. [s EXCEPT !.m = r] = CoreOf(r, c, i, n)
    BY CoreMachine
  <2>2. [CoreOf(r, c, i, n) EXCEPT !.cycles = w] = CoreOf(r, w, i, n)
    BY CoreCycles
  <2>3. ran = [[s EXCEPT !.m = r] EXCEPT !.cycles = w]
    OBVIOUS
  <2>. QED
    BY <2>1, <2>2, <2>3
<1> HIDE DEF ran
<1>14. Follows(ServedC(PortOf(r, w, i, n)), Served(ran))
  BY <1>6, <1>12, <1>13, PendingFollows
<1>. QED
  BY <1>6, <1>7, <1>9, <1>10, <1>11, <1>14

(* Reset, and a byte that comes in while the ring has room for it *)
LEMMA ResetFollows ==
  ASSUME NEW m \in Machine, NEW c, NEW i, NEW n, NEW t, t = PortOf(m, c, i, n)
  PROVE  Follows(C!cpu_reset(t), [m |-> reset(m), cycles |-> 0, irq |-> FALSE, nmi |-> FALSE])
<1> DEFINE vector == \hFFFC
           pc == read16(m, vector)
           k == [cycount |-> Counted(c), irq_pending |-> i, nmi_pending |-> n]
           r == [a |-> 0, x |-> 0, y |-> 0, sp |-> 253, pc |-> pc, p |-> {"I"}, mem |-> m.mem,
                 uart |-> m.uart]
           no == FALSE
<1>1. vector \in Address
  BY AddressSet
<1>2. t = Twin(m, k) /\ t.bus = Bus(m)
  BY TwinFields DEF PortOf
<1>3. C!cpu_reset(t) = [a |-> 0, x |-> 0, y |-> 0, sp |-> 253, pc |-> C!peek16(t, vector),
                        p |-> {"I"}, cycount |-> 0, irq_pending |-> no, nmi_pending |-> no, bus |-> t.bus]
  BY DEF C!cpu_reset
<1>4. reset(m) = [m EXCEPT !.a = 0, !.x = 0, !.y = 0, !.sp = 253, !.pc = pc, !.p = {"I"}]
  BY DEF reset
<1> HIDE DEF vector, no, k
<1>5. C!peek16(t, vector) = pc /\ pc \in Address
  BY <1>1, <1>2, Peek16Agrees, Read16Type
<1> HIDE DEF pc
<1>6. reset(m) = r
  BY ZenonT(60), <1>4 DEF Machine
<1>7. r \in Machine
  <2>1. 0 \in Byte /\ 253 \in Byte
    BY ByteSet
  <2>2. {"I"} \in SUBSET Flags
    BY DEF Flags
  <2>. QED
    BY <1>5, <2>1, <2>2 DEF Machine
<1>8. C!cpu_reset(t) = PortOf(r, 0, no, no)
  BY <1>2, <1>3, <1>5, CountedZero DEF PortOf, Twin, Bus
<1>9. [m |-> reset(m), cycles |-> 0, irq |-> no, nmi |-> no] = CoreOf(r, 0, no, no)
  BY <1>6 DEF CoreOf
<1> HIDE DEF r
<1>10. Follows(PortOf(r, 0, no, no), CoreOf(r, 0, no, no))
  BY <1>7, SideBySide
<1>. QED
  BY <1>8, <1>9, <1>10 DEF no

LEMMA ReceiveFollows ==
  ASSUME NEW m \in Machine, NEW c \in Nat, NEW i, NEW n,
         NEW t, t = PortOf(m, c, i, n), NEW s, s = CoreOf(m, c, i, n),
         NEW v \in Byte, Len(m.uart.rx) + 1 < RXCAP
  PROVE  Follows([t EXCEPT !.bus = hu_feed(@, v)], [s EXCEPT !.m = receive(@, v)])
<1> DEFINE rx == Append(m.uart.rx, v)
           r == [m EXCEPT !.uart = [rx |-> rx, tx |-> m.uart.tx]]
           b == [ram |-> m.mem, rx |-> rx, tx |-> m.uart.tx]
<1>1. rx \in Seq(Byte) /\ Len(rx) < RXCAP
  BY MachineFields, AppendProperties
<1>2. receive(m, v) = r
  <2>1. receive(m, v) = [m EXCEPT !.uart.rx = rx]
    BY DEF receive
  <2> HIDE DEF rx
  <2>. QED
    BY <2>1, RxForm
<1>3. hu_feed(Bus(m), v) = b
  <2>1. Bus(m).rx = m.uart.rx /\ Len(m.uart.rx) \in Nat
    BY MachineFields, LenProperties DEF Bus
  <2>2. Len(m.uart.rx) + 1 # RXCAP
    BY <2>1, PortAssumption
  <2>3. hu_feed(Bus(m), v) = [Bus(m) EXCEPT !.rx = IF Len(Bus(m).rx) + 1 = RXCAP THEN <<>>
                                                     ELSE Append(Bus(m).rx, v)]
    BY DEF hu_feed
  <2>4. hu_feed(Bus(m), v) = [Bus(m) EXCEPT !.rx = rx]
    BY <2>1, <2>2, <2>3
  <2> HIDE DEF rx
  <2>. QED
    BY <2>4 DEF Bus
<1> HIDE DEF rx
<1>4. r \in Machine /\ Bus(r) = b
  BY <1>1, MachineFields, SetUart
<1>5. s.m = m /\ t.bus = Bus(m)
  BY DEF CoreOf, PortOf, Twin
<1>6. [s EXCEPT !.m = receive(@, v)] = [s EXCEPT !.m = r]
  BY <1>2, <1>5
<1>7. [t EXCEPT !.bus = hu_feed(@, v)] = [t EXCEPT !.bus = b]
  BY <1>3, <1>5
<1>8. r.a = m.a /\ r.x = m.x /\ r.y = m.y /\ r.sp = m.sp /\ r.pc = m.pc /\ r.p = m.p
  BY DEF Machine
<1> HIDE DEF r, b
<1>9. [s EXCEPT !.m = r] = CoreOf(r, c, i, n)
  BY CoreMachine
<1>10. [t EXCEPT !.bus = b] = PortOf(r, c, i, n)
  BY <1>4, <1>8 DEF PortOf, Twin
<1>. QED
  BY <1>4, <1>6, <1>7, <1>9, <1>10, SideBySide

-----------------------------------------------------------------------------
(* The inductive invariant: the reference is a machine there is, and the port *)
(* is its twin, with the same cycles and latches. *)
InStep == Follows(port, sage)

LEMMA InitInStep == Init => InStep
<1> SUFFICES ASSUME NEW m \in Starts, sage = [m |-> m, cycles |-> 0, irq |-> FALSE, nmi |-> FALSE],
                    port = Ported(m)
             PROVE  InStep
  BY DEF Init
<1> DEFINE no == FALSE
<1>1. m \in Machine
  BY StartsAssumption
<1>2. sage = CoreOf(m, 0, no, no)
  BY DEF CoreOf
<1>3. port = PortOf(m, 0, no, no)
  BY CountedZero DEF Ported, PortOf, Twin, Bus
<1> HIDE DEF no
<1>. QED
  BY <1>1, <1>2, <1>3, SideBySide DEF InStep

LEMMA NextInStep == InStep /\ [Next]_vars => InStep'
<1> SUFFICES ASSUME InStep, [Next]_vars
             PROVE  InStep'
  OBVIOUS
<1> DEFINE m == sage.m
           c == sage.cycles
           i == sage.irq
           n == sage.nmi
           yes == TRUE
<1>1. sage = CoreOf(m, c, i, n) /\ port = PortOf(m, c, i, n)
  BY DEF InStep, Follows
<1>2. m \in Machine /\ c \in Nat
  BY DEF InStep, Follows
<1> HIDE DEF m, c, i, n, yes
<1>3. CASE Step
  <2>1. sage' = step(sage) /\ port' = C!cpu_step(port)
    BY <1>3 DEF Step
  <2>2. Follows(C!cpu_step(port), step(sage))
    BY <1>1, <1>2, StepFollows
  <2>. QED
    BY <2>1, <2>2 DEF InStep
<1>4. CASE Interrupt
  <2>1. sage' = [sage EXCEPT !.irq = yes] /\ port' = [port EXCEPT !.irq_pending = yes]
    BY <1>4 DEF Interrupt, C!cpu_interrupt, yes
  <2>2. sage' = CoreOf(m, c, yes, n)
    BY <1>1, <2>1, CoreIrq
  <2>3. port' = PortOf(m, c, yes, n)
    BY <1>1, <2>1, PortIrq
  <2>. QED
    BY <1>2, <2>2, <2>3, SideBySide DEF InStep
<1>5. CASE Nmi
  <2>1. sage' = [sage EXCEPT !.nmi = yes] /\ port' = [port EXCEPT !.nmi_pending = yes]
    BY <1>5 DEF Nmi, C!cpu_nmi, yes
  <2>2. sage' = CoreOf(m, c, i, yes)
    BY <1>1, <2>1, CoreNmi
  <2>3. port' = PortOf(m, c, i, yes)
    BY <1>1, <2>1, PortNmi
  <2>. QED
    BY <1>2, <2>2, <2>3, SideBySide DEF InStep
<1>6. CASE Receive
  <2>1. PICK v \in Received : /\ sage' = [sage EXCEPT !.m = receive(@, v)]
                              /\ port' = [port EXCEPT !.bus = hu_feed(@, v)]
    BY <1>6 DEF Receive
  <2>2. v \in Byte
    BY <2>1, PortAssumption
  <2>3. Len(m.uart.rx) + 1 < RXCAP
    <3>1. Len(port.bus.rx) + 1 < RXCAP
      BY <1>6 DEF Receive
    <3>2. port.bus = Bus(m)
      BY <1>1, PortFields
    <3>3. port.bus.rx = m.uart.rx
      BY <3>2 DEF Bus
    <3>. QED
      BY <3>1, <3>3
  <2>4. Follows([port EXCEPT !.bus = hu_feed(@, v)], [sage EXCEPT !.m = receive(@, v)])
    BY <1>1, <1>2, <2>2, <2>3, ReceiveFollows
  <2>. QED
    BY <2>1, <2>4 DEF InStep
<1>7. CASE Reset
  <2>1. /\ sage' = [m |-> reset(m), cycles |-> 0, irq |-> FALSE, nmi |-> FALSE]
        /\ port' = C!cpu_reset(port)
    BY <1>7 DEF Reset, m
  <2>2. Follows(C!cpu_reset(port), [m |-> reset(m), cycles |-> 0, irq |-> FALSE, nmi |-> FALSE])
    BY <1>1, <1>2, ResetFollows
  <2>. QED
    BY <2>1, <2>2 DEF InStep
<1>8. CASE Done \/ UNCHANGED vars
  <2>1. sage' = sage /\ port' = port
    BY <1>8 DEF Done, vars
  <2>. QED
    BY <2>1 DEF InStep
<1>. QED
  BY <1>3, <1>4, <1>5, <1>6, <1>7, <1>8 DEF Next

(* The port is the twin of the reference in every state: what the theorems      *)
(* below come from. *)
THEOREM AlwaysInStep == Spec => []InStep
BY InitInStep, NextInStep, PTL DEF Spec

(* What the runs check follows from it. *)
LEMMA InStepTypes == InStep => TypeOK
<1> SUFFICES ASSUME InStep
             PROVE  TypeOK
  OBVIOUS
<1> DEFINE m == sage.m
<1>1. m \in Machine /\ sage.cycles \in Nat /\ port = PortOf(m, sage.cycles, sage.irq, sage.nmi)
  BY DEF InStep, Follows
<1>2. port.a = m.a /\ port.x = m.x /\ port.y = m.y /\ port.sp = m.sp
  BY <1>1 DEF PortOf, Twin
<1>3. port.pc = m.pc /\ port.p = m.p /\ port.cycount = Counted(sage.cycles) /\ port.bus = Bus(m)
  BY <1>1, PortFields
<1>4. port.bus.ram = m.mem /\ port.bus.rx = m.uart.rx
  BY <1>3 DEF Bus
<1> HIDE DEF m
<1>5. {port.a, port.x, port.y, port.sp} \subseteq Byte /\ port.pc \in Address
  BY <1>1, <1>2, <1>3, MachineFields
<1>6. port.p \subseteq Flags /\ port.cycount \in 0..(CYCOUNT_RANGE - 1)
  BY <1>1, <1>3, MachineFields, Remainder DEF Counted
<1>7. DOMAIN port.bus.ram = Ram /\ \A x \in Ram : port.bus.ram[x] \in Byte
  BY <1>1, <1>4, MachineFields
<1>8. Len(port.bus.rx) < RXCAP
  BY <1>1, <1>4, MachineFields
<1>. QED
  BY <1>5, <1>6, <1>7, <1>8 DEF TypeOK

LEMMA InStepCores == InStep => CoresInStep /\ CyclesInStep
<1> SUFFICES ASSUME InStep
             PROVE  CoresInStep /\ CyclesInStep
  OBVIOUS
<1> DEFINE m == sage.m
           c == sage.cycles
           i == sage.irq
           n == sage.nmi
           no == FALSE
<1>1. port = PortOf(m, c, i, n)
  BY DEF InStep, Follows
<1>2. port.cycount = Counted(c)
  BY <1>1, PortFields
<1>3. Ported(m) = PortOf(m, 0, no, no)
  BY CountedZero DEF Ported, PortOf, Twin, Bus
<1>4. CoresInStep <=> port = [[[Ported(m) EXCEPT !.cycount = port.cycount]
                                EXCEPT !.irq_pending = i] EXCEPT !.nmi_pending = n]
  BY DEF CoresInStep
<1>5. CyclesInStep <=> port.cycount = Counted(c)
  BY DEF CyclesInStep, Counted
<1> HIDE DEF m, c, i, n, no
<1>6. [PortOf(m, 0, no, no) EXCEPT !.cycount = Counted(c)] = PortOf(m, c, no, no)
  BY DEF PortOf, Twin
<1>7. [PortOf(m, c, no, no) EXCEPT !.irq_pending = i] = PortOf(m, c, i, no)
  BY PortIrq
<1>8. [PortOf(m, c, i, no) EXCEPT !.nmi_pending = n] = PortOf(m, c, i, n)
  BY PortNmi
<1>. QED
  BY <1>1, <1>2, <1>3, <1>4, <1>5, <1>6, <1>7, <1>8

(* The C port keeps its registers in the widths of their types, bytes in its   *)
(* memory and a cell of the receive ring free, whatever it runs. *)
THEOREM RegistersKeepTheirWidths == Spec => []TypeOK
BY AlwaysInStep, InStepTypes, PTL

(* Whatever the ROM and the program, the C port and the Sage core have the     *)
(* same registers, flags, memory, latches and serial bytes after every         *)
(* instruction, interrupt, byte received and reset. *)
THEOREM PortMirrorsTheCore == Spec => []CoresInStep
BY AlwaysInStep, InStepCores, PTL

(* And they have counted the same cycles, up to the wrap of the port's counter. *)
THEOREM PortCountsTheSameCycles == Spec => []CyclesInStep
BY AlwaysInStep, InStepCores, PTL

=============================================================================
