-------------------------- MODULE MCRoomDirectory --------------------------
(* Small instances of the room directory for TLC.                          *)
EXTENDS RoomDirectory, TLC

CONSTANTS i1, i2, w1, w2, general, trading

(* Windows are interchangeable.                                            *)
Symmetric == Permutations(Windows)
=============================================================================
