------------------------------ MODULE MCReviews ------------------------------
(***************************************************************************)
(* Instances of the reviews for TLC: two users with a tab each, of whom    *)
(* one bought the books.                                                   *)
(***************************************************************************)
EXTENDS Reviews, TLC
CONSTANTS u1, u2, t1, t2

OneTabEach == [t \in Tabs |-> IF t = t1 THEN u1 ELSE u2]
FirstBuys == [u \in Users |-> IF u = u1 THEN Books ELSE {}]

\* Threads of the server are interchangeable, and so are generated ids.
ReviewSymmetry == {p @@ q : p \in Permutations(Workers), q \in Permutations(ReviewIds)}
=============================================================================
