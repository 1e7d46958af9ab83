---------------------------- MODULE MCStorefront ----------------------------
(***************************************************************************)
(* Instances of the storefront for TLC: one tab in one session, two tabs   *)
(* in one session, or two customers with a session and a tab each.         *)
(***************************************************************************)
EXTENDS StorefrontProps, TLC
CONSTANTS u1, u2, s1, s2, t1, t2

OneUser == [s \in Sessions |-> u1]
TwoUsers == [s \in Sessions |-> IF s = s1 THEN u1 ELSE u2]
OneSession == [t \in Tabs |-> s1]
OneTabEach == [t \in Tabs |-> IF t = t1 THEN s1 ELSE s2]

\* The threads of the order server are interchangeable ...
WorkerSymmetry == Permutations(Workers)
\* ... and so are the tabs of one session.
TabSymmetry == {p @@ q : p \in WorkerSymmetry, q \in Permutations(Tabs)}
=============================================================================
