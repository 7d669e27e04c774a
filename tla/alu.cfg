SPECIFICATION Spec
CONSTANT Operands <- AllBytes
INVARIANTS TypeOK CoresAgree BinaryExact DecimalExact RotateRing
