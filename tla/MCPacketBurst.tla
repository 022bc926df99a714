---------------------------- MODULE MCPacketBurst ----------------------------
(* Model values for PacketBurst. *)
EXTENDS PacketBurst, TLC

CONSTANTS m1, m2, m3

MbufSymmetry == Permutations(Mbufs)
=============================================================================
