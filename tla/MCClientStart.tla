--------------------------- MODULE MCClientStart ---------------------------
(* Every table of two modules, with CLIENT_vStart at any node of any queue.*)
EXTENDS ClientStart
=============================================================================
