------------------------------ MODULE BallotBox ------------------------------
(***************************************************************************)
(* What is left of "a user can vote only once" when votes on one review    *)
(* overlap.  Each review has a box: who is counted, and how many of them   *)
(* found it helpful.  A vote is counted on top of some state the box was   *)
(* in, the present one or an older one, in which its voter was not yet     *)
(* counted; what was counted since that state is lost.                     *)
(***************************************************************************)
EXTENDS Integers

CONSTANTS Users, ReviewIds

VARIABLES
    box,             \* box[r]: the votes counted on review r
    past             \* past[r]: the states that box has been in

Empty == [voters |-> {}, tally |-> 0]

Init ==
    /\ box = [r \in ReviewIds |-> Empty]
    /\ past = [r \in ReviewIds |-> {Empty}]

Counted(b, u, helpful) ==
    [voters |-> b.voters \cup {u},
     tally |-> b.tally + (IF helpful THEN 1 ELSE 0)]

Cast(r, u, helpful) ==
    \E b \in past[r] :
        /\ u \notin b.voters
        /\ box' = [box EXCEPT ![r] = Counted(b, u, helpful)]
        /\ past' = [past EXCEPT ![r] = @ \cup {Counted(b, u, helpful)}]

Next == \E r \in ReviewIds, u \in Users, helpful \in BOOLEAN : Cast(r, u, helpful)

Spec == Init /\ [][Next]_<<box, past>>
=============================================================================
