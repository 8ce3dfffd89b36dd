-------------------------------- MODULE MCWire --------------------------------
(* A small instance of Wire, one connection (they share nothing but the        *)
(* sweep): bytes have three values, a length has two bytes, a long frame does  *)
(* not fit the socket at once.                                                 *)
EXTENDS Wire

CONSTANT c1

\* A discriminant alone, and a discriminant with a field.
ShortAndLong == {<<1>>, <<2, 0>>}
=============================================================================
