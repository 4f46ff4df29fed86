----------------------------- MODULE NrRlcBase ------------------------------
(***************************************************************************)
(* What the halves of the RLC AM and UM entities share                     *)
(* (openair2/LAYER2/nr_rlc): sequence number arithmetic and segments.      *)
(*                                                                         *)
(* A segment is [so, size, data]: bytes so .. so+size-1 of the SDU `data'. *)
(* The payload of an SDU is only its identity, so that a delivered SDU can *)
(* be compared with the one that was sent.  All SDUs have SduSize bytes,   *)
(* hence is_first and is_last follow from so and size.                     *)
(***************************************************************************)
EXTENDS Integers, FiniteSets, Sequences

CONSTANTS
    Window,     \* window_size; sn_modulus is twice that
    SduSize     \* bytes in an SDU

ASSUME RlcConstants == /\ Window \in Nat \ {0, 1}
                       /\ SduSize \in Nat \ {0}

SnMod == 2 * Window
SN == 0 .. SnMod - 1

(* modulus_rx and modulus_tx: the distance from the modulus base.          *)
Modulus(base, a) == (a - base) % SnMod

(* sn_compare_rx and sn_compare_tx.                                        *)
SnCompare(base, a, b) == Modulus(base, a) - Modulus(base, b)

Plus(sn, n) == (sn + n) % SnMod

LastByte(seg) == seg.so + seg.size - 1
IsFirst(seg) == seg.so = 0
IsLast(seg) == seg.so + seg.size = SduSize

Bytes(seg) == seg.so .. LastByte(seg)

(* so_end of a NACK, 0xffff: "to the end of the SDU".                      *)
END == -1

=============================================================================
