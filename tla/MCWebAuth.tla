------------------------------ MODULE MCWebAuth ------------------------------
(* WebAuth on small instances: everyone asks for the same name, or not.    *)
EXTENDS WebAuth, TLC

CONSTANTS b1, b2, r1, r2

SameName == [name : {"admin"}, password : {"p", "q"}]

TwoNames == [name : {"admin", "root"}, password : {"p"}]

Symmetric == Permutations(Browsers) \cup Permutations(Requests)
=============================================================================
