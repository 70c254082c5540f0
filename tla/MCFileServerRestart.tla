------------------------- MODULE MCFileServerRestart ------------------------
(***************************************************************************)
(* Instances of FileServerRestart for TLC.                                 *)
(***************************************************************************)
EXTENDS FileServerRestart, MCFileServer
=============================================================================
