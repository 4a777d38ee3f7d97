------------------------------- MODULE UbxBytes -------------------------------
(***************************************************************************)
(* The bytes that the reader of the tty and the parser of its UBX frames   *)
(* both look at.                                                           *)
(***************************************************************************)
EXTENDS Integers

CONSTANTS Base,         \* 256: values of a byte
          Sync1, Sync2  \* 0xB5, 0x62

Bytes == 0 .. Base - 1
=============================================================================
