------------------------------- MODULE MCDwI2c --------------------------------
(* Clocks of the APB bus (25 MHz before, 100 MHz after the PLLs) and speeds  *)
(* of all three modes, with too small and with sufficient ratios.            *)
EXTENDS DwI2c

MCFreqs == {<<25000, 100>>, <<25000, 300>>, <<100000, 400>>, <<100000, 1000>>,
            <<100000, 3400>>}

==============================================================================
