---------------------------- MODULE MCPollServer ----------------------------
(* Instances of PollServer for TLC. *)
EXTENDS PollServer, TLC

\* main's frame holds nothing printable where tmpbuf lies, or two cells of it.
Stack == {<<>>, <<<<None, 1>>, <<None, 2>>>>}

\* No property tells one client from another.
Symmetry == Permutations(Client)
=============================================================================
