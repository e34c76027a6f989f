-------------------------- MODULE MCClientThreads --------------------------
(***************************************************************************)
(* One client for TLC, of a server or of a client process, on Linux or on  *)
(* Win32.  The peer sends two packets and then something that is no IceNet *)
(* packet, or closes the connection before; one datagram arrives.          *)
(***************************************************************************)
EXTENDS ClientThreads

AllBuilds == [linux : BOOLEAN, local : BOOLEAN]
LinuxServer == [linux : {TRUE}, local : {FALSE}]

OnePacket == <<1>>
OneAndGarbage == <<1, 9>>
=============================================================================
