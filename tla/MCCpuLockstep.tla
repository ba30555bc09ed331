--------------------------- MODULE MCCpuLockstep ---------------------------
EXTENDS CpuLockstep

\* Pointers of the zero page: low bytes at and beside the end of a page, RAM of both kinds.
MCFill(a) == IF a < 256 THEN <<7, 96, 255, 2, 127, 128, 1>>[(a % 7) + 1] ELSE (a * 73 + 5) % 256
MCStarts == { <<0, 0, 0, 255, {"I"}>>, <<255, 1, 128, 0, {"C", "N"}>>, <<128, 255, 127, 1, {"V", "Z"}>>,
              <<127, 2, 255, 254, {"C", "D", "Z", "N"}>> }
\* A file that ends a page before its last bank does.
MCRom == 32768 .. 65279
MCOpcodes == 0 .. 255
\* PHP, PLP, PLA, RTS, RTI, SEI, ROL A, BPL, BCC, BNE, BVS, ADC #, INC abs, INX, TSX
MCFollow == {8, 40, 104, 96, 64, 120, 42, 16, 144, 208, 112, 105, 238, 232, 186}
MCOperands == { <<0, 64>>, <<2, 64>>, <<255, 6>>, <<127, 128>>, <<128, 255>>, <<254, 127>> }
============================================================================
