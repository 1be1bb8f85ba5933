------------------------------- MODULE Serial -------------------------------
(***************************************************************************)
(* Serial number arithmetic (RFC 1982): lib/isc/serial.c and the macros    *)
(* DNS_SERIAL_GT and DNS_SERIAL_GE of lib/dns/include/dns/journal.h.  The  *)
(* code compares the sign of a 32-bit difference; here a serial number is  *)
(* a number below Space, which is even, and Half is the sign bit.          *)
(***************************************************************************)
EXTENDS Integers

CONSTANT Half

ASSUME HalfAssumption == Half \in Nat \ {0}

Space == 2 * Half

Serials == 0 .. Space - 1

\* a - b as an unsigned number
Minus(a, b) == (a - b) % Space

\* isc_serial_gt() and DNS_SERIAL_GT: the signed difference is positive.
SERIAL_GT(a, b) == Minus(a, b) \in 1 .. Half - 1

\* isc_serial_ge() and DNS_SERIAL_GE
SERIAL_GE(a, b) == Minus(a, b) \in 0 .. Half - 1
=============================================================================
