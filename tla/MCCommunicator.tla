---------------------------- MODULE MCCommunicator ---------------------------
(* Peers and requests for TLC.                                             *)
EXTENDS Communicator, TLC

(* The shortest request, the one that just fills a nonce, a longer one.    *)
SomeRequests == {"Register", "NeedsData", "HasData"}

Symmetric == Permutations(Peers) \cup Permutations(Keys)
=============================================================================
