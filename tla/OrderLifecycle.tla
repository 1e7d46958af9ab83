--------------------------- MODULE OrderLifecycle ---------------------------
(***************************************************************************)
(* What the shop promises of its orders, without servers, sessions or      *)
(* documents: an order is created as a cart, goes between CART and         *)
(* PRE_AUTHORIZE while its customer pays, is placed once and only once,    *)
(* and is then at most shipped.  It may be placed from either state: an    *)
(* accepted payment can be followed by a second attempt that is refused,   *)
(* which makes the order a cart, and whose answer is late.                 *)
(***************************************************************************)
CONSTANT OrderIds
VARIABLE state               \* state[o]: the state of order o

States == {"none", "CART", "PRE_AUTHORIZE", "PRE_SHIPPING", "SHIPPED"}

Init == state = [o \in OrderIds |-> "none"]

Move(o, from, to) == state[o] \in from /\ state' = [state EXCEPT ![o] = to]

Create(o) == Move(o, {"none"}, "CART")
CheckOut(o) == Move(o, {"CART"}, "PRE_AUTHORIZE")
Reopen(o) == Move(o, {"PRE_AUTHORIZE"}, "CART")
Place(o) == Move(o, {"CART", "PRE_AUTHORIZE"}, "PRE_SHIPPING")
Ship(o) == Move(o, {"PRE_SHIPPING"}, "SHIPPED")

Next == \E o \in OrderIds :
    Create(o) \/ CheckOut(o) \/ Reopen(o) \/ Place(o) \/ Ship(o)

Spec == Init /\ [][Next]_state
=============================================================================
