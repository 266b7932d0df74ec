------------------------------ MODULE MCBackend ------------------------------
(* The instance of Backend for TLC.                                          *)
EXTENDS Backend
=============================================================================
