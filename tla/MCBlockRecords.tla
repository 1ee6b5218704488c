--------------------------- MODULE MCBlockRecords ---------------------------
EXTENDS BlockRecords
=============================================================================
