--------------------------- MODULE MCOrderBackend ---------------------------
(* Instances of the order and admin servers for TLC. *)
EXTENDS OrderBackend, TLC

\* Threads are interchangeable, and so are books.
ThreadAndBookSymmetry ==
    {p @@ q : p \in Permutations(Workers), q \in Permutations(Books)}
=============================================================================
