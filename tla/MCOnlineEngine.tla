---------------------------- MODULE MCOnlineEngine ----------------------------
(* One worker and two spellings: a late answer can meet either of them. *)
EXTENDS OnlineEngine

CONSTANT cloud

MCSources == {cloud}
MCRequests == [generation : 1..MaxGeneration, query : Queries, eligible : SUBSET MCSources]

=============================================================================
