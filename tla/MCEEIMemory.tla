---------------------------- MODULE MCEEIMemory ----------------------------
(* Words of 4 one-bit bytes, addresses of 2, a memory of 5 bytes; the      *)
(* offsets reach past the end of memory and the widths include a partial *)
(* width, the full word and one past it (clamped).                          *)
EXTENDS EEIMemory
====
