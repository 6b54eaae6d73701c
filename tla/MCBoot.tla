------------------------------- MODULE MCBoot -------------------------------
(* The timer, a device on the master controller and one on the slave; every    *)
(* vector with an entry point of its own and, between 22 and 31 and behind 47,  *)
(* vectors with the default handler.                                            *)
EXTENDS Boot

MCDevices == {0, 1, 8}
MCFirmwareMasks == {{}, 0 .. 15}
MCRaised == (0 .. 48) \union {255}
MCDivisors == {<<12, 0>>, <<0, 1>>}
=============================================================================
