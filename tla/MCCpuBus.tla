------------------------------ MODULE MCCpuBus ------------------------------
EXTENDS CpuBus

AllOpcodes == 0..255
\* Followed by bytes of their own page, of the next one, and by page 0.
MCCode == {11, 13}

================================================================================
