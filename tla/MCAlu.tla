-------------------------------- MODULE MCAlu --------------------------------
EXTENDS Alu

================================================================================
