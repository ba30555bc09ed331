--------------------------- MODULE MCNsfPlayer6502 ---------------------------
(* A page of SRAM and one of ROM; a ROM of two and a half banks with bank   *)
(* switching and one of a single bank without.                              *)
EXTENDS NsfPlayer6502

MCPages == {6, 8}
MCSram == {6}
MCBanks == {0, 2}
Nowhere == [p \in MCPages |-> <<0, 0>>]

Banked == [size |-> 5, songs |-> 2, use_bankswitch |-> TRUE,
           bank |-> [p \in {8} |-> 1], direct |-> Nowhere]
Plain  == [size |-> 2, songs |-> 1, use_bankswitch |-> FALSE,
           bank |-> [p \in {8} |-> 0], direct |-> [Nowhere EXCEPT ![8] = <<1, 2>>]]
MCFiles == {Banked, Plain}
=============================================================================
