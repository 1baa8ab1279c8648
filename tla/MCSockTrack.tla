---------------------------- MODULE MCSockTrack ----------------------------
(* The socket tables of an rpc probe for TLC: threads and connections are  *)
(* interchangeable.                                                        *)
EXTENDS SockTrack, TLC

Symmetry == Permutations(Thread) \cup Permutations(Conn)

============================================================================
