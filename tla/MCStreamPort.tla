----------------------------- MODULE MCStreamPort -----------------------------
(* An instance of StreamPort for TLC: messages of one to four cells through *)
(* a socket of two chunks of one or two cells, with one handle or none.    *)
EXTENDS StreamPort

M(size, handles) == [size |-> size, handles |-> handles]

MCMessage == {M(0, 0), M(1, 1), M(3, 0), M(5, 0), M(3, 1)}
MCGarbage == {M(0, 0), M(1, 0), M(1, 1), M(0, 2)}
=============================================================================
