----------------------------- MODULE MCMailboxes -----------------------------
(* Nodes, streams and a few messages for TLC.                              *)
EXTENDS Mailboxes, TLC

CONSTANT MaxPosts       \* so many messages reach the server

Posts == 1 .. MaxPosts

Symmetric == Permutations(NodeIDs) \cup Permutations(Streams)
=============================================================================
