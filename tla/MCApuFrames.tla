--------------------------- MODULE MCApuFrames ---------------------------
(* Real clock counts; setups that start each unit of the chip. *)
EXTENDS ApuFrames, TLC

MCChips == {<<FALSE, 0 .. 4, <<1, 1>>>>, <<TRUE, {0, 3}, <<1, 1>>>>, <<FALSE, {1, 2, 4}, <<3, 2>>>>}
MCTempos == {<<3, 2>>}

R(reg) == 16384 + reg
\* A square with a sweep and an envelope, a triangle, the noise; a sample of 17 bytes with its
\* IRQ; a loop of one byte at the highest rate; a sample of one byte.
MCSetups == {
    <<<<R(0), 3>>, <<R(1), 154>>, <<R(2), 200>>, <<R(3), 8>>, <<R(8), 5>>, <<R(10), 40>>,
      <<R(11), 16>>, <<R(12), 2>>, <<R(14), 5>>, <<R(15), 24>>, <<R(23), 0>>>>,
    <<<<R(16), 143>>, <<R(19), 1>>, <<R(21), 31>>, <<R(5), 145>>, <<R(6), 255>>, <<R(7), 1>>,
      <<R(23), 128>>>>,
    <<<<R(16), 79>>, <<R(18), 3>>, <<R(21), 16>>, <<R(0), 32>>, <<R(23), 64>>>>,
    <<<<R(16), 128>>, <<R(21), 16>>>> }
MCWrites == {
    <<R(21), 0>>, <<R(21), 31>>, <<R(3), 8>>, <<R(16), 143>>,
    <<R(19), 1>>, <<R(23), 0>>, <<R(23), 128>> }
MCWaits == {4, 7457, 14915}
MCProbes == {1, 431, 432, 433, 9000}
==========================================================================
