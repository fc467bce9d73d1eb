------------------------------ MODULE MCServer -------------------------------
(* Server on a small instance: who logs is everybody.                      *)
EXTENDS Server

CONSTANTS h1, p1

Everybody == {Main, HTTP} \cup Handlers \cup Pages
=============================================================================
