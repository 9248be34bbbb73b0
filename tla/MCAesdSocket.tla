---------------------------- MODULE MCAesdSocket ----------------------------
(* Connections are interchangeable; used for safety only.                  *)
EXTENDS AesdSocket, TLC

MCSymmetry == Permutations(Client)
=============================================================================
