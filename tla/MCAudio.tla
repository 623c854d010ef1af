------------------------------ MODULE MCAudio ------------------------------
EXTENDS Audio

MCWire == <<1, 2, 3, 4, 5, 6>>
=============================================================================
