-------------------------------- MODULE MCBitIO --------------------------------
(***************************************************************************)
(* Headers of up to nine bits in bytes of three, in buffers that are too     *)
(* small, just large enough and larger.                                     *)
(***************************************************************************)
EXTENDS BitIO

MCRooms == {0, 1, 2, 3, 6}
===============================================================================
