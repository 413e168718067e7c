------------------------------- MODULE MCCrc8 -------------------------------
EXTENDS Crc8

\* All of them: every message of two bytes, so every value of the register
\* followed by every byte.
TheBytes == 0..255
=============================================================================
