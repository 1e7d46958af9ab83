----------------------------- MODULE ReviewProofs -----------------------------
(***************************************************************************)
(* The reviews: types, the tally of a review, that votes which overlap     *)
(* follow BallotBox, and that a user writes one review for a book.  Every  *)
(* vote that is about to be written was built on a state its review was    *)
(* in; Pending says so of the calls, Counts of the documents, and          *)
(* KnownReviews that nobody works on a review that is not in the index.    *)
(* IInv is what is proved to be inductive; the last part adds Once, which  *)
(* follows a book from the home page to the review in the index.           *)
(***************************************************************************)
EXTENDS Reviews, FiniteSetTheorems, TLAPS

\* Only reviews in the index are found, shown and voted on.
KnownReviews ==
    /\ \A r \in ReviewIds : ~Present(r) => reviews[r] = NoDoc
    /\ \A r \in found : Present(r)
    /\ \A t \in Tabs : \A r \in tab[t].todo \cup tab[t].buttons : Present(r)

\* A call has what it works on, and a vote to be written was counted on top of a
\* state of its review in which the voter was not counted yet.
Pending(w) ==
    /\ At(w, "create", "start") => \E u \in Users, b \in Books :
                                        srv[w].doc = NewReview(u, b)
    /\ srv[w].pc = "refresh" => srv[w].review \in ReviewIds /\ Present(srv[w].review)
    /\ srv[w].op = "vote" => /\ srv[w].user \in Users
                             /\ srv[w].review \in ReviewIds
                             /\ Present(srv[w].review)
    /\ At(w, "vote", "write") =>
            /\ srv[w].doc.userId # NoUser
            /\ \E v \in versions[srv[w].review] :
                /\ srv[w].user \notin v.voters
                /\ Votes(srv[w].doc) = Box!Counted(v, srv[w].user, srv[w].helpful)

\* State v of the votes on review r consists of votes in `votes`.
Backed(r, v, votes) ==
    /\ IsFiniteSet(v.voters)
    /\ \E yes \in SUBSET v.voters :
        /\ Cardinality(yes) = v.tally
        /\ \A u \in yes : <<u, r, TRUE>> \in votes
        /\ \A u \in v.voters \ yes : <<u, r, FALSE>> \in votes

Counts ==
    /\ \A r \in ReviewIds : Votes(reviews[r]) \in versions[r]
    /\ \A r \in ReviewIds : \A v \in versions[r] : Backed(r, v, accepted)

IInv == TypeOK /\ KnownReviews /\ Counts /\ \A w \in Workers : Pending(w)

-----------------------------------------------------------------------------
\* A stored review never disappears, and its votes are remembered.
Grows ==
    /\ \A r \in ReviewIds : Present(r) => Present(r)'
    /\ \A r \in ReviewIds : versions[r] \subseteq versions'[r]

\* A call that nobody touches stays all right when reviews and votes only grow.
LEMMA PendingStays ==
    ASSUME Grows, NEW w \in Workers, Pending(w), srv'[w] = srv[w]
    PROVE  Pending(w)'
  BY DEF Grows, Pending, At

\* An idle call, and one that is over, has nothing left to write.
LEMMA PendingIdle ==
    ASSUME NEW w \in Workers, srv'[w] = Idle
    PROVE  Pending(w)'
  BY DEF Pending, Idle, At

\* The initial state.
LEMMA InitOK == Init => IInv
<1> SUFFICES ASSUME Init PROVE IInv
    OBVIOUS
<1> USE NullsAssumption DEF Init
<1>1. TypeOK
  <2>1. NoDoc \in Review /\ Votes(NoDoc) \in [voters: SUBSET Users, tally: Nat]
      BY DEF NoDoc, NewReview, Review, Votes
  <2>2. Idle \in Call /\ Idle.op = "none" /\ Idle.pc = "idle"
      BY <2>1 DEF Idle, Call
  <2>3. OtherPage \in Page /\ OtherPage.at = "other"
      BY DEF OtherPage, Page
  <2> QED
      BY <2>1, <2>2, <2>3 DEF TypeOK
<1>2. KnownReviews
    BY DEF KnownReviews, Present, NoDoc, NewReview, OtherPage
<1>3. Counts
  <2>1. Votes(NoDoc) = [voters |-> {}, tally |-> 0]
      BY DEF Votes, NoDoc, NewReview
  <2>2. ASSUME NEW r \in ReviewIds PROVE Backed(r, Votes(NoDoc), accepted)
      BY <2>1, FS_EmptySet DEF Backed
  <2> QED
      BY <2>2 DEF Counts
<1>4. ASSUME NEW w \in Workers PROVE Pending(w)
    BY DEF Pending, Idle, At
<1> QED
    BY <1>1, <1>2, <1>3, <1>4 DEF IInv

-----------------------------------------------------------------------------
\* Nothing about the votes changes when no document does.
LEMMA CountsStay ==
    ASSUME Counts, reviews' = reviews, versions' = versions, accepted' = accepted
    PROVE  Counts' /\ Grows
  BY DEF Counts, Backed, Grows, Present

\* Whoever shows another page of known reviews disturbs nothing.
LEMMA PageOK ==
    ASSUME IInv, NEW t \in Tabs, NEW p \in Page, tab' = [tab EXCEPT ![t] = p],
           p.at = "waiting" => p.worker # NoWorker,
           \A r \in p.todo \cup p.buttons : Present(r),
           UNCHANGED <<reviews, found, versions, accepted>>
    PROVE  /\ tab' \in [Tabs -> Page]
           /\ \A x \in Tabs : tab'[x].at = "waiting" => tab'[x].worker # NoWorker
           /\ KnownReviews'
           /\ Counts' /\ Grows
<1>1. tab \in [Tabs -> Page] /\ \A x \in Tabs :
            tab'[x] = IF x = t THEN p ELSE tab[x]
    BY DEF IInv, TypeOK
<1>2. \A r : Present(r)' <=> Present(r)
    BY DEF Present
<1>3. KnownReviews'
    BY <1>1, <1>2 DEF IInv, KnownReviews
<1> QED
    BY <1>1, <1>3, CountsStay DEF IInv, TypeOK

\* The page is all that changes.
LEMMA PageOnly ==
    ASSUME IInv, NEW t \in Tabs, NEW p \in Page, tab' = [tab EXCEPT ![t] = p],
           p.at = "waiting" => p.worker # NoWorker,
           \A r \in p.todo \cup p.buttons : Present(r),
           UNCHANGED <<reviews, found, srv, versions, accepted>>
    PROVE  IInv'
<1>1. /\ tab' \in [Tabs -> Page]
      /\ \A x \in Tabs : tab'[x].at = "waiting" => tab'[x].worker # NoWorker
      /\ KnownReviews' /\ Counts' /\ Grows
    BY PageOK
<1>2. \A w \in Workers : Pending(w)'
    BY <1>1, PendingStays DEF IInv
<1> QED
    BY <1>1, <1>2 DEF IInv, TypeOK

\* A request to the server: a call of a thread that was idle.
LEMMA SendOK ==
    ASSUME IInv, NEW t \in Tabs, NEW c \in Call, Send(t, c),
           c.op = "vote" \/ c.pc = "refresh" => c.review # NoReview,
           \A w \in Workers : srv'[w] = c => Pending(w)',
           UNCHANGED <<reviews, found, versions, accepted>>
    PROVE  IInv'
<1>1. PICK w \in Workers :
        /\ srv' = [srv EXCEPT ![w] = c]
        /\ tab' = [tab EXCEPT ![t] = [OtherPage EXCEPT !.at = "waiting", !.worker = w]]
    BY DEF Send
<1> DEFINE p == [OtherPage EXCEPT !.at = "waiting", !.worker = w]
<1>2. p \in Page /\ p.worker # NoWorker /\ p.todo \cup p.buttons = {}
    BY NullsAssumption DEF Page, OtherPage
<1> HIDE DEF p
<1>3. /\ tab' \in [Tabs -> Page]
      /\ \A x \in Tabs : tab'[x].at = "waiting" => tab'[x].worker # NoWorker
      /\ KnownReviews' /\ Counts' /\ Grows
    BY <1>1, <1>2, PageOK DEF p
<1>4. srv \in [Workers -> Call] /\ \A x \in Workers :
            srv'[x] = IF x = w THEN c ELSE srv[x]
    BY <1>1 DEF IInv, TypeOK
<1>5. \A x \in Workers : Pending(x)'
    BY <1>3, <1>4, PendingStays DEF IInv
<1> QED
    BY <1>1, <1>3, <1>4, <1>5 DEF IInv, TypeOK

\* A call that is taken away disturbs nothing.
LEMMA IdleOK ==
    ASSUME IInv, NEW w \in Workers, srv' = [srv EXCEPT ![w] = Idle],
           UNCHANGED <<reviews, found, versions, accepted>>,
           KnownReviews', tab' \in [Tabs -> Page],
           \A x \in Tabs : tab'[x].at = "waiting" => tab'[x].worker # NoWorker
    PROVE  IInv'
<1>1. Idle \in Call /\ Idle.op = "none" /\ Idle.pc = "idle"
    BY DEF Idle, Call, NoDoc, NewReview, Review
<1>2. srv \in [Workers -> Call] /\ \A x \in Workers :
            srv'[x] = IF x = w THEN Idle ELSE srv[x]
    BY DEF IInv, TypeOK
<1>3. Counts' /\ Grows
    BY CountsStay DEF IInv
<1>4. \A x \in Workers : Pending(x)'
    BY <1>2, <1>3, PendingStays, PendingIdle DEF IInv
<1> QED
    BY <1>1, <1>2, <1>3, <1>4 DEF IInv, TypeOK

-----------------------------------------------------------------------------
\* Every step of a tab keeps the inductive invariant: one case per action.
LEMMA TabStepOK ==
    ASSUME IInv, NEW t \in Tabs, TabStep(t) PROVE IInv'
<1> USE NullsAssumption, TabUserAssumption, BoughtAssumption
<1>1. tab[t] \in Page /\ reviews \in [ReviewIds -> Review] /\ found \subseteq ReviewIds
    BY DEF IInv, TypeOK
<1>2. CASE OpenHome(t)
  <2>1. PICK p : /\ tab' = [tab EXCEPT ![t] = p]
                 /\ \E hits \in Hits({r \in ReviewIds : reviews[r].userId = TabUser[t]}) :
                        p = [OtherPage EXCEPT !.at = "home",
                                !.offers = Bought[TabUser[t]] \ {reviews[r].bookId : r \in hits}]
      BY <1>2 DEF OpenHome
  <2>2. p \in Page /\ p.at = "home" /\ p.todo \cup p.buttons = {}
      BY <2>1 DEF Page, OtherPage
  <2> QED
      BY <1>2, <2>1, <2>2, PageOnly DEF OpenHome
<1>3. CASE OpenBook(t)
  <2>1. PICK hits \in SUBSET found : tab' = [tab EXCEPT ![t] = Reading(hits, {})]
      BY <1>3 DEF OpenBook, Hits
  <2>2. /\ Reading(hits, {}) \in Page /\ Reading(hits, {}).at # "waiting"
        /\ Reading(hits, {}).todo \cup Reading(hits, {}).buttons \subseteq found
      BY <1>1, <2>1 DEF Reading, Page, OtherPage
  <2>3. \A r \in found : Present(r)
      BY DEF IInv, KnownReviews
  <2> HIDE <1>1
  <2> QED
      BY <1>3, <2>1, <2>2, <2>3, PageOnly DEF OpenBook
<1>4. CASE HasVoted(t)
  <2>1. PICK r \in tab[t].todo :
            tab' = [tab EXCEPT ![t] = Reading(@.todo \ {r},
                IF TabUser[t] \in reviews[r].voterIds THEN @.buttons
                                                      ELSE @.buttons \cup {r})]
      BY <1>4 DEF HasVoted
  <2> DEFINE b == IF TabUser[t] \in reviews[r].voterIds
                  THEN tab[t].buttons ELSE tab[t].buttons \cup {r}
             p == Reading(tab[t].todo \ {r}, b)
  <2>2. /\ tab[t].todo \subseteq ReviewIds /\ tab[t].buttons \subseteq ReviewIds
        /\ b \subseteq tab[t].todo \cup tab[t].buttons
      BY <1>1 DEF Page
  <2>3. tab' = [tab EXCEPT ![t] = p]
      BY <2>1
  <2>4. /\ p \in Page /\ p.at # "waiting"
        /\ p.todo \cup p.buttons \subseteq tab[t].todo \cup tab[t].buttons
      BY <2>2 DEF Reading, Page, OtherPage
  <2>5. \A q \in p.todo \cup p.buttons : Present(q)
      BY <2>4 DEF IInv, KnownReviews
  <2> HIDE DEF p
  <2> QED
      BY <1>4, <2>3, <2>4, <2>5, PageOnly DEF HasVoted
<1>5. CASE PostReview(t)
  <2>1. PICK b \in tab[t].offers : Send(t, CreateCall(TabUser[t], b))
      BY <1>5 DEF PostReview
  <2>2. b \in Books /\ TabUser[t] \in Users
      BY <1>1, <2>1 DEF Page
  <2> DEFINE c == CreateCall(TabUser[t], b)
  <2>3. /\ c \in Call /\ c.op = "create" /\ c.pc = "start"
        /\ c.doc = NewReview(TabUser[t], b)
      BY <2>2 DEF CreateCall, Idle, Call, NewReview, NoDoc, Review
  <2> HIDE DEF c
  <2>4. \A w \in Workers : srv'[w] = c => Pending(w)'
      BY <2>2, <2>3 DEF Pending, At
  <2> QED
      BY <1>5, <2>1, <2>3, <2>4, SendOK DEF PostReview, c
<1>6. CASE PostVote(t)
  <2>1. PICK r \in tab[t].buttons, helpful \in BOOLEAN :
            Send(t, VoteCall(TabUser[t], r, helpful))
      BY <1>6 DEF PostVote
  <2>2. r \in ReviewIds /\ Present(r) /\ TabUser[t] \in Users
      BY <1>1, <2>1 DEF Page, IInv, KnownReviews
  <2> DEFINE c == VoteCall(TabUser[t], r, helpful)
  <2>3. /\ c \in Call /\ c.op = "vote" /\ c.pc = "start"
        /\ c.user = TabUser[t] /\ c.review = r
      BY <2>1, <2>2 DEF VoteCall, Idle, Call, NewReview, NoDoc, Review
  <2> HIDE DEF c
  <2>4. Present(r)' /\ UNCHANGED <<reviews, found, versions, accepted>>
      BY <1>6, <2>2 DEF PostVote, Present
  <2>5. \A w \in Workers : srv'[w] = c => Pending(w)'
      BY <2>2, <2>3, <2>4 DEF Pending, At
  <2> QED
      BY <2>1, <2>2, <2>3, <2>4, <2>5, SendOK DEF c
<1>7. CASE Answered(t)
  <2>1. OtherPage \in Page /\ OtherPage.at = "other"
        /\ OtherPage.todo \cup OtherPage.buttons = {}
      BY DEF OtherPage, Page
  <2>2. /\ tab' \in [Tabs -> Page] /\ KnownReviews'
        /\ \A x \in Tabs : tab'[x].at = "waiting" => tab'[x].worker # NoWorker
      BY <1>7, <2>1, PageOK DEF Answered
  <2>3. tab[t].worker \in Workers
      BY <1>1, <1>7 DEF Answered, IInv, TypeOK, Page
  <2> QED
      BY <1>7, <2>2, <2>3, IdleOK DEF Answered
<1>8. CASE Timeout(t)
  <2>1. OtherPage \in Page /\ OtherPage.at = "other"
        /\ OtherPage.todo \cup OtherPage.buttons = {}
      BY DEF OtherPage, Page
  <2> QED
      BY <1>8, <2>1, PageOnly DEF Timeout
<1> QED
    BY <1>2, <1>3, <1>4, <1>5, <1>6, <1>7, <1>8 DEF TabStep

-----------------------------------------------------------------------------
\* A state that some votes back is backed by more of them.
LEMMA BackedStays ==
    ASSUME NEW r, NEW v, NEW votes, NEW more, Backed(r, v, votes), votes \subseteq more
    PROVE  Backed(r, v, more)
  BY DEF Backed

\* A vote that is accepted backs what it adds to a state.
LEMMA CountedIsBacked ==
    ASSUME NEW r, NEW v, NEW u, NEW helpful \in BOOLEAN, NEW votes,
           Backed(r, v, votes), v.tally \in Nat, u \notin v.voters
    PROVE  Backed(r, Box!Counted(v, u, helpful), votes \cup {<<u, r, helpful>>})
<1>1. PICK yes \in SUBSET v.voters :
        /\ Cardinality(yes) = v.tally
        /\ \A x \in yes : <<x, r, TRUE>> \in votes
        /\ \A x \in v.voters \ yes : <<x, r, FALSE>> \in votes
    BY DEF Backed
<1> DEFINE c == Box!Counted(v, u, helpful)
           all == IF helpful THEN yes \cup {u} ELSE yes
           more == votes \cup {<<u, r, helpful>>}
<1>2. /\ c.voters = v.voters \cup {u}
      /\ c.tally = v.tally + (IF helpful THEN 1 ELSE 0)
    BY DEF Box!Counted
<1>3. IsFiniteSet(v.voters) /\ IsFiniteSet(yes)
    BY <1>1, FS_Subset DEF Backed
<1>4. IsFiniteSet(c.voters)
    BY <1>2, <1>3, FS_AddElement
<1>5. Cardinality(all) = c.tally
  <2>1. CASE helpful
    <3>1. Cardinality(yes \cup {u}) = Cardinality(yes) + 1
        BY <1>3, FS_AddElement
    <3> QED
        BY <1>1, <1>2, <2>1, <3>1
  <2>2. CASE ~helpful
      BY <1>1, <1>2, <2>2
  <2> QED
      BY <2>1, <2>2
<1>6. /\ all \in SUBSET c.voters
      /\ \A x \in all : <<x, r, TRUE>> \in more
      /\ \A x \in c.voters \ all : <<x, r, FALSE>> \in more
    BY <1>1, <1>2
<1> HIDE DEF c, all, more
<1>7. Backed(r, c, more)
    BY <1>4, <1>5, <1>6 DEF Backed
<1> QED
    BY <1>7 DEF c, more

\* A call that goes on without changing a document or what a search finds.
LEMMA CallOnly ==
    ASSUME IInv, NEW w \in Workers, NEW c \in Call, srv' = [srv EXCEPT ![w] = c],
           c.op = "vote" \/ c.pc = "refresh" => c.review # NoReview,
           srv'[w] = c => Pending(w)',
           UNCHANGED <<reviews, found, tab, versions, accepted>>
    PROVE  IInv'
<1>1. srv \in [Workers -> Call] /\ \A x \in Workers :
            srv'[x] = IF x = w THEN c ELSE srv[x]
    BY DEF IInv, TypeOK
<1>2. Counts' /\ Grows
    BY CountsStay DEF IInv
<1>3. \A x \in Workers : Pending(x)'
    BY <1>1, <1>2, PendingStays DEF IInv
<1>4. KnownReviews'
    BY DEF IInv, KnownReviews, Present
<1> QED
    BY <1>1, <1>2, <1>3, <1>4 DEF IInv, TypeOK

\* Every step of the review server but WriteVote keeps the inductive invariant.
LEMMA ServerStepOK ==
    ASSUME IInv, NEW w \in Workers, ServerStep(w), ~WriteVote(w) PROVE IInv'
<1> USE NullsAssumption
<1>1. /\ reviews \in [ReviewIds -> Review] /\ srv \in [Workers -> Call]
      /\ srv[w] \in Call /\ Pending(w)
      /\ srv[w].op = "vote" \/ srv[w].pc = "refresh" => srv[w].review # NoReview
    BY DEF IInv, TypeOK
<1>2. CASE DropReply(w)
  <2>1. KnownReviews'
      BY <1>2 DEF DropReply, IInv, KnownReviews, Present
  <2> QED
      BY <1>2, <2>1, IdleOK DEF DropReply, IInv, TypeOK
<1>3. CASE CreateReview(w)
  <2>1. PICK r \in ReviewIds :
            /\ ~Present(r)
            /\ reviews' = [reviews EXCEPT ![r] = srv[w].doc]
            /\ srv' = [srv EXCEPT ![w].pc = "refresh", ![w].review = r]
      BY <1>3 DEF CreateReview
  <2> DEFINE c == [srv[w] EXCEPT !.pc = "refresh", !.review = r]
  <2>2. /\ srv' = [srv EXCEPT ![w] = c] /\ c \in Call
        /\ c.op = "create" /\ c.pc = "refresh" /\ c.review = r
      BY <1>1, <1>3, <2>1 DEF Call, CreateReview, At
  <2>3. PICK u \in Users, b \in Books : srv[w].doc = NewReview(u, b)
      BY <1>1, <1>3 DEF Pending, CreateReview
  <2>4. /\ srv[w].doc \in Review /\ srv[w].doc.userId # NoUser
        /\ Votes(srv[w].doc) = Votes(reviews[r])
    <3>1. reviews[r] = NewReview(NoUser, NoBook)
        BY <2>1 DEF IInv, KnownReviews, NoDoc
    <3>2. Votes(srv[w].doc) = Votes(reviews[r])
        BY <2>3, <3>1 DEF NewReview, Votes
    <3>3. srv[w].doc.userId # NoUser
        BY <2>3 DEF NewReview
    <3>4. srv[w].doc \in Review
        BY <1>1 DEF Call
    <3> QED
        BY <3>2, <3>3, <3>4
  <2> HIDE DEF c
  <2>5. \A x \in Workers : srv'[x] = IF x = w THEN c ELSE srv[x]
      BY <1>1, <2>2
  <2>6. /\ reviews' \in [ReviewIds -> Review]
        /\ \A q \in ReviewIds : reviews'[q] = IF q = r THEN srv[w].doc ELSE reviews[q]
      BY <1>1, <2>1, <2>4
  <2>7. /\ \A q \in ReviewIds : Present(q) => Present(q)'
        /\ Present(r)'
      BY <2>4, <2>6 DEF Present
  <2>8. KnownReviews'
      BY <1>3, <2>6, <2>7 DEF CreateReview, IInv, TypeOK, KnownReviews, Present, Page
  <2>9. Counts' /\ Grows
    <3>1. /\ UNCHANGED <<versions, accepted>>
          /\ \A q \in ReviewIds : Votes(reviews[q])' = Votes(reviews[q])
        BY <1>3, <2>4, <2>6 DEF CreateReview, Votes
    <3> QED
        BY <2>7, <3>1, BackedStays DEF Counts, Grows, IInv
  <2>10. \A x \in Workers : Pending(x)'
    <3>1. Pending(w)'
        BY <2>2, <2>5, <2>7 DEF Pending, At
    <3> QED
        BY <2>5, <2>9, <3>1, PendingStays DEF IInv
  <2> QED
      BY <1>3, <2>2, <2>5, <2>6, <2>8, <2>9, <2>10
         DEF IInv, TypeOK, CreateReview
<1>4. CASE RefreshCreated(w)
  <2> DEFINE c == [srv[w] EXCEPT !.pc = "done"]
  <2>1. /\ srv' = [srv EXCEPT ![w] = c] /\ c \in Call /\ c.op = "create" /\ c.pc = "done"
        /\ srv[w].review \in ReviewIds /\ Present(srv[w].review)
      BY <1>1, <1>4 DEF RefreshCreated, At, Call, Pending
  <2> HIDE DEF c
  <2>2. \A x \in Workers : srv'[x] = IF x = w THEN c ELSE srv[x]
      BY <1>1, <2>1
  <2>3. KnownReviews' /\ found' \subseteq ReviewIds
      BY <1>4, <2>1 DEF RefreshCreated, IInv, TypeOK, KnownReviews, Present
  <2>4. Counts' /\ Grows
      BY <1>4, CountsStay DEF RefreshCreated, IInv
  <2>5. \A x \in Workers : Pending(x)'
    <3>1. Pending(w)'
        BY <2>1, <2>2 DEF Pending, At
    <3> QED
        BY <2>2, <2>4, <3>1, PendingStays DEF IInv
  <2> QED
      BY <1>4, <2>1, <2>2, <2>3, <2>4, <2>5 DEF IInv, TypeOK, RefreshCreated
<1>5. CASE ReadForVote(w)
  <2> DEFINE doc == reviews[srv[w].review]
             new == WithVote(doc, srv[w].user, srv[w].helpful)
             refused == [srv[w] EXCEPT !.pc = "conflict"]
             counted == [srv[w] EXCEPT !.pc = "write", !.doc = new]
  <2>1. /\ srv[w].review \in ReviewIds /\ srv[w].user \in Users
        /\ srv[w].helpful \in BOOLEAN /\ doc \in Review /\ Present(srv[w].review)
      BY <1>1, <1>5 DEF ReadForVote, At, Pending, Call
  <2>2. CASE srv' = [srv EXCEPT ![w].pc = "conflict"]
    <3>1. /\ srv' = [srv EXCEPT ![w] = refused] /\ refused \in Call
          /\ refused.op = "vote" /\ refused.pc = "conflict"
          /\ refused.user = srv[w].user /\ refused.review = srv[w].review
        BY <1>1, <1>5, <2>2 DEF Call, ReadForVote, At
    <3> HIDE DEF refused
    <3>2. srv'[w] = refused => Pending(w)'
        BY <1>5, <2>1, <3>1 DEF Pending, At, Present, ReadForVote
    <3> QED
        BY <1>1, <1>5, <3>1, <3>2, CallOnly DEF ReadForVote, At
  <2>3. CASE /\ srv[w].user \notin doc.voterIds
             /\ srv' = [srv EXCEPT ![w].pc = "write", ![w].doc = new]
    <3>1. /\ new \in Review /\ new.userId = doc.userId
          /\ Votes(new) = Box!Counted(Votes(doc), srv[w].user, srv[w].helpful)
          /\ Votes(doc).voters = doc.voterIds
      <4> DEFINE n == doc.helpfulVotes + (IF srv[w].helpful THEN 1 ELSE 0)
      <4>1. new = [doc EXCEPT !.voterIds = doc.voterIds \cup {srv[w].user},
                              !.helpfulVotes = n]
          BY <2>1 DEF WithVote, Review
      <4>2. n \in Nat /\ doc.helpfulVotes \in Nat
          BY <2>1 DEF Review
      <4>3. /\ new \in Review /\ new.userId = doc.userId
            /\ new.voterIds = doc.voterIds \cup {srv[w].user} /\ new.helpfulVotes = n
        <5> HIDE DEF n, doc
        <5> QED
            BY <2>1, <4>1, <4>2 DEF Review
      <4> HIDE DEF new, doc
      <4> QED
          BY <4>3 DEF Votes, Box!Counted
    <3> HIDE DEF new
    <3>2. /\ srv' = [srv EXCEPT ![w] = counted] /\ counted \in Call
          /\ counted.op = "vote" /\ counted.pc = "write" /\ counted.doc = new
          /\ counted.user = srv[w].user /\ counted.review = srv[w].review
          /\ counted.helpful = srv[w].helpful
        BY <1>1, <1>5, <2>3, <3>1 DEF Call, ReadForVote, At
    <3> HIDE DEF counted
    <3>3. Votes(doc) \in versions[srv[w].review] /\ doc.userId # NoUser
        BY <2>1 DEF IInv, Counts, Present
    <3>4. \E v \in versions[srv[w].review] :
            /\ counted.user \notin v.voters
            /\ Votes(counted.doc) = Box!Counted(v, counted.user, counted.helpful)
        BY <2>3, <3>1, <3>2, <3>3
    <3>5. counted.user \in Users /\ counted.review \in ReviewIds
          /\ reviews[counted.review].userId # NoUser /\ counted.doc.userId # NoUser
        BY <2>1, <3>1, <3>2, <3>3 DEF Present
    <3> HIDE DEF doc
    <3>6. srv'[w] = counted => Pending(w)'
        BY <1>5, <3>2, <3>4, <3>5 DEF Pending, At, Present, ReadForVote, Votes
    <3> QED
        BY <1>1, <1>5, <3>2, <3>6, CallOnly DEF ReadForVote, At
  <2> QED
      BY <1>5, <2>2, <2>3 DEF ReadForVote
<1>6. CASE Fail(w)
  <2> DEFINE c == [srv[w] EXCEPT !.pc = "failed", !.doc = NoDoc]
  <2>1. /\ srv' = [srv EXCEPT ![w] = c] /\ c \in Call /\ c.pc = "failed"
        /\ c.op = srv[w].op /\ c.user = srv[w].user /\ c.review = srv[w].review
      BY <1>1, <1>6 DEF Fail, Call, NoDoc, NewReview, Review
  <2> HIDE DEF c
  <2>2. srv'[w] = c => Pending(w)'
      BY <1>1, <1>6, <2>1 DEF Pending, At, Fail, Present
  <2> QED
      BY <1>1, <1>6, <2>1, <2>2, CallOnly DEF Fail
<1> QED
    BY <1>2, <1>3, <1>4, <1>5, <1>6 DEF ServerStep

\* So does WriteVote: the state it writes is backed by the vote just accepted.
LEMMA WriteVoteOK ==
    ASSUME IInv, NEW w \in Workers, WriteVote(w) PROVE IInv'
<1> USE NullsAssumption
<1> DEFINE r == srv[w].review
           doc == srv[w].doc
           u == srv[w].user
           helpful == srv[w].helpful
           c == [srv[w] EXCEPT !.pc = "done", !.doc = NoDoc]
<1>1. /\ reviews \in [ReviewIds -> Review] /\ srv \in [Workers -> Call]
      /\ versions \in [ReviewIds -> SUBSET [voters: SUBSET Users, tally: Nat]]
      /\ srv[w] \in Call /\ At(w, "vote", "write") /\ Pending(w)
    BY DEF IInv, TypeOK, WriteVote
<1>2. /\ r \in ReviewIds /\ u \in Users /\ helpful \in BOOLEAN
      /\ Present(r) /\ doc \in Review /\ doc.userId # NoUser
    BY <1>1 DEF Pending, At, Call
<1>3. PICK v \in versions[r] : u \notin v.voters /\ Votes(doc) = Box!Counted(v, u, helpful)
    BY <1>1 DEF Pending
<1>4. /\ srv' = [srv EXCEPT ![w] = c] /\ c \in Call /\ c.pc = "done"
      /\ c.op = "vote" /\ c.user = u /\ c.review = r
    BY <1>1 DEF WriteVote, At, Call, NoDoc, NewReview, Review
<1>5. /\ reviews' = [reviews EXCEPT ![r] = doc]
      /\ versions' = [versions EXCEPT ![r] = @ \cup {Votes(doc)}]
      /\ accepted' = accepted \cup {<<u, r, helpful>>}
      /\ UNCHANGED <<found, tab>>
    BY DEF WriteVote
<1>6. Votes(doc) \in [voters: SUBSET Users, tally: Nat]
    BY <1>2 DEF Votes, Review
<1>7. /\ \A x \in Workers : srv'[x] = IF x = w THEN c ELSE srv[x]
      /\ reviews' \in [ReviewIds -> Review]
      /\ \A q \in ReviewIds : reviews'[q] = IF q = r THEN doc ELSE reviews[q]
      /\ \A q \in ReviewIds :
            versions'[q] = IF q = r THEN versions[q] \cup {Votes(doc)} ELSE versions[q]
  <2> HIDE DEF c, r, doc
  <2> QED
      BY <1>1, <1>2, <1>4, <1>5
<1> HIDE DEF c, r, doc, u, helpful
<1>8. TypeOK'
  <2>1. versions' \in [ReviewIds -> SUBSET [voters: SUBSET Users, tally: Nat]]
      BY <1>1, <1>2, <1>5, <1>6
  <2> QED
      BY <1>2, <1>4, <1>5, <1>7, <2>1 DEF IInv, TypeOK
<1>9. Grows /\ KnownReviews'
    BY <1>2, <1>5, <1>7 DEF Grows, IInv, TypeOK, KnownReviews, Present, Page
<1>10. Counts'
  <2>1. \A q \in ReviewIds : (Votes(reviews[q]) \in versions[q])'
      BY <1>7 DEF Votes, IInv, Counts
  <2>2. ASSUME NEW q \in ReviewIds, NEW x \in versions'[q]
        PROVE  Backed(q, x, accepted')
    <3>1. CASE x \in versions[q]
        BY <1>5, <3>1, BackedStays DEF IInv, Counts
    <3>2. CASE q = r /\ x = Votes(doc)
      <4>1. Backed(r, v, accepted) /\ v.tally \in Nat
          BY <1>1, <1>2, <1>3 DEF IInv, Counts
      <4>2. Backed(r, Box!Counted(v, u, helpful), accepted \cup {<<u, r, helpful>>})
          BY <1>2, <1>3, <4>1, CountedIsBacked
      <4> QED
          BY <1>3, <1>5, <3>2, <4>2
    <3> QED
        BY <1>7, <3>1, <3>2
  <2> QED
      BY <2>1, <2>2 DEF Counts
<1>11. \A x \in Workers : Pending(x)'
  <2>1. Pending(w)'
      BY <1>2, <1>4, <1>7, <1>9 DEF Pending, At, Grows
  <2> QED
      BY <1>7, <1>9, <2>1, PendingStays DEF IInv
<1> QED
    BY <1>8, <1>9, <1>10, <1>11 DEF IInv

\* A refresh lets a search find a review that is in the index.
LEMMA RefreshOK ==
    ASSUME IInv, NEW r \in ReviewIds, Refresh(r) PROVE IInv'
<1>1. Counts' /\ Grows
    BY CountsStay DEF Refresh, IInv
<1>2. KnownReviews' /\ found' \subseteq ReviewIds
    BY DEF Refresh, IInv, TypeOK, KnownReviews, Present
<1>3. \A w \in Workers : Pending(w)'
    BY <1>1, PendingStays DEF Refresh, IInv
<1> QED
    BY <1>1, <1>2, <1>3 DEF Refresh, IInv, TypeOK

\* Every step keeps the inductive invariant.
LEMMA NextOK == IInv /\ [Next]_vars => IInv'
<1> SUFFICES ASSUME IInv, [Next]_vars PROVE IInv'
    OBVIOUS
<1>1. CASE UNCHANGED vars
  <2>1. Counts' /\ Grows
      BY <1>1, CountsStay DEF vars, IInv
  <2>2. KnownReviews'
      BY <1>1 DEF vars, IInv, KnownReviews, Present
  <2>3. \A w \in Workers : Pending(w)'
      BY <1>1, <2>1, PendingStays DEF vars, IInv
  <2> QED
      BY <1>1, <2>1, <2>2, <2>3 DEF vars, IInv, TypeOK
<1>2. ASSUME NEW w \in Workers, ServerStep(w) PROVE IInv'
    BY <1>2, ServerStepOK, WriteVoteOK
<1> QED
    BY <1>1, <1>2, TabStepOK, RefreshOK DEF Next

\* The inductive invariant always holds.
THEOREM Invariant == Spec => []IInv
  BY InitOK, NextOK, PTL DEF Spec

\* Every variable keeps its type; a tab that waits has a thread that works for it,
\* and a call of voteHelpful has a review, for any number of users, tabs, threads
\* and reviews.
THEOREM TypeCorrect == Spec => []TypeOK
<1>1. IInv => TypeOK
    BY DEF IInv
<1> QED
    BY <1>1, Invariant, PTL

\* The tally of every stored review is the number of its voters who found it
\* helpful, each by a vote that addVote answered with 200, however many votes
\* overlap.
THEOREM TallySupported == Spec => []TallyIsSupported
<1>1. IInv => TallyIsSupported
  <2> SUFFICES ASSUME IInv, NEW r \in ReviewIds
               PROVE  \E yes \in SUBSET reviews[r].voterIds :
                        /\ Cardinality(yes) = reviews[r].helpfulVotes
                        /\ \A u \in yes : <<u, r, TRUE>> \in accepted
                        /\ \A u \in reviews[r].voterIds \ yes :
                                <<u, r, FALSE>> \in accepted
      BY DEF TallyIsSupported
  <2>1. Backed(r, Votes(reviews[r]), accepted)
      BY DEF IInv, Counts
  <2> QED
      BY <2>1 DEF Backed, Votes
<1> QED
    BY <1>1, Invariant, PTL

-----------------------------------------------------------------------------
\* A step that writes no vote leaves every box alone: a new review has no votes,
\* like the absent one.
LEMMA BoxStutters ==
    ASSUME IInv, [Next]_vars, \A w \in Workers : ~WriteVote(w)
    PROVE  versions' = versions
           /\ \A r \in ReviewIds : Votes(reviews'[r]) = Votes(reviews[r])
<1>1. CASE reviews' = reviews /\ versions' = versions
    BY <1>1
<1>2. ASSUME NEW w \in Workers, CreateReview(w)
      PROVE  versions' = versions
             /\ \A r \in ReviewIds : Votes(reviews'[r]) = Votes(reviews[r])
  <2>1. PICK r \in ReviewIds : ~Present(r) /\ reviews' = [reviews EXCEPT ![r] = srv[w].doc]
      BY <1>2 DEF CreateReview
  <2>2. PICK u \in Users, b \in Books : srv[w].doc = NewReview(u, b)
      BY <1>2 DEF CreateReview, IInv, Pending
  <2>3. Votes(srv[w].doc) = Votes(reviews[r])
    <3>1. reviews[r] = NewReview(NoUser, NoBook)
        BY <2>1 DEF IInv, KnownReviews, NoDoc
    <3> QED
        BY <2>2, <3>1 DEF NewReview, Votes
  <2>4. \A q \in ReviewIds : reviews'[q] = IF q = r THEN srv[w].doc ELSE reviews[q]
      BY <2>1 DEF IInv, TypeOK
  <2> QED
      BY <1>2, <2>3, <2>4 DEF CreateReview
<1>3. \/ reviews' = reviews /\ versions' = versions
      \/ \E w \in Workers : CreateReview(w)
    BY DEF Next, vars, TabStep, OpenHome, OpenBook, HasVoted, PostReview, PostVote,
           Answered, Timeout, ServerStep, DropReply, RefreshCreated, ReadForVote,
           Fail, Refresh
<1> QED
    BY <1>1, <1>2, <1>3

\* A vote that is written is a vote on a state of its box.
LEMMA VoteIsCast ==
    ASSUME IInv, NEW w \in Workers, WriteVote(w)
    PROVE  Box!Cast(srv[w].review, srv[w].user, srv[w].helpful)
           /\ srv[w].review \in ReviewIds /\ srv[w].user \in Users
           /\ srv[w].helpful \in BOOLEAN
<1> DEFINE r == srv[w].review
           doc == srv[w].doc
           u == srv[w].user
           helpful == srv[w].helpful
           box == [q \in ReviewIds |-> Votes(reviews[q])]
<1>1. /\ r \in ReviewIds /\ u \in Users /\ helpful \in BOOLEAN
      /\ reviews \in [ReviewIds -> Review]
    BY DEF IInv, TypeOK, Pending, WriteVote, At, Call
<1>2. PICK v \in versions[r] : u \notin v.voters /\ Votes(doc) = Box!Counted(v, u, helpful)
    BY DEF IInv, Pending, WriteVote
<1>3. /\ reviews' = [reviews EXCEPT ![r] = doc]
      /\ versions' = [versions EXCEPT ![r] = @ \cup {Votes(doc)}]
    BY DEF WriteVote
<1>4. box' = [box EXCEPT ![r] = Votes(doc)]
  <2>1. \A q \in ReviewIds : reviews'[q] = IF q = r THEN doc ELSE reviews[q]
    <3> HIDE DEF r, doc
    <3> QED
        BY <1>1, <1>3
  <2>2. \A q \in ReviewIds : Votes(reviews'[q]) =
                                IF q = r THEN Votes(doc) ELSE Votes(reviews[q])
      BY <2>1
  <2>3. box' = [q \in ReviewIds |-> Votes(reviews'[q])]
      BY DEF Votes
  <2> HIDE DEF r, doc
  <2> QED
      BY <2>2, <2>3
<1>5. Box!Cast(r, u, helpful)
  <2>1. /\ v \in versions[r] /\ u \notin v.voters
        /\ box' = [box EXCEPT ![r] = Box!Counted(v, u, helpful)]
        /\ versions' = [versions EXCEPT ![r] = @ \cup {Box!Counted(v, u, helpful)}]
      BY <1>2, <1>3, <1>4
  <2> HIDE DEF r, u, helpful
  <2> QED
      BY <2>1 DEF Box!Cast
<1> QED
    BY <1>1, <1>5

\* The review server implements the ballot box: overlapping votes may bring an
\* earlier state of a review back, but never count a voter twice or build on a
\* state that never was.
THEOREM VotesImplementBallotBox == Spec => VotesFollowBallotBox
<1>1. Init => Box!Init
  <2> SUFFICES ASSUME Init PROVE Box!Init
      OBVIOUS
  <2>1. Votes(NoDoc) = Box!Empty
      BY DEF Votes, NoDoc, NewReview, Box!Empty
  <2>2. [r \in ReviewIds |-> Votes(reviews[r])] = [r \in ReviewIds |-> Box!Empty]
      BY <2>1 DEF Init
  <2> QED
      BY <2>1, <2>2 DEF Init, Box!Init
<1>2. IInv /\ [Next]_vars => [Box!Next]_<<[r \in ReviewIds |-> Votes(reviews[r])], versions>>
  <2> SUFFICES ASSUME IInv, [Next]_vars
               PROVE  [Box!Next]_<<[r \in ReviewIds |-> Votes(reviews[r])], versions>>
      OBVIOUS
  <2>1. CASE \E w \in Workers : WriteVote(w)
    <3>1. Box!Next
        BY <2>1, VoteIsCast DEF Box!Next
    <3> QED
        BY <3>1
  <2>2. CASE \A w \in Workers : ~WriteVote(w)
    <3>1. /\ versions' = versions
          /\ \A r \in ReviewIds : Votes(reviews'[r]) = Votes(reviews[r])
        BY <2>2, BoxStutters
    <3>2. [r \in ReviewIds |-> Votes(reviews[r])]'
            = [r \in ReviewIds |-> Votes(reviews[r])]
        BY <3>1 DEF Votes
    <3> QED
        BY <3>1, <3>2
  <2> QED
      BY <2>1, <2>2
<1> QED
    BY <1>1, <1>2, Invariant, PTL DEF Spec, VotesFollowBallotBox, Box!Spec

-----------------------------------------------------------------------------
(* One review of a book per user.  The servers do not check it: the user's *)
(* only tab does.  It offers books that the user has not reviewed, and     *)
(* cannot offer one again before the answer, which comes after the review  *)
(* can be found.                                                           *)

\* Each user has one tab, no createReview outlives the gateway's timeout, and a
\* search for the reviews of a user is not cut off at SearchSize hits.
OneTabEach == \A t, x \in Tabs : TabUser[t] = TabUser[x] => t = x
CreateInTime == "create" \notin LateOps
FewBooks == \A u \in Users : IsFiniteSet(Bought[u]) /\ Cardinality(Bought[u]) <= SearchSize

Reviewed(u, b) == \E r \in ReviewIds : reviews[r].userId = u /\ reviews[r].bookId = b

\* Tab t waits for the call of thread w.
WaitsFor(t, w) == tab[t].at = "waiting" /\ tab[t].worker = w

\* A home page, however old, offers only books that its user may review.
Offered ==
    \A t \in Tabs : tab[t].at = "home" =>
        \A b \in tab[t].offers : b \in Bought[TabUser[t]] /\ ~Reviewed(TabUser[t], b)

\* The tab waits while its review is created ...
Posting ==
    \A w \in Workers : At(w, "create", "start") =>
        \E t \in Tabs : \E b \in Bought[TabUser[t]] :
            /\ WaitsFor(t, w) /\ srv[w].doc = NewReview(TabUser[t], b)
            /\ ~Reviewed(TabUser[t], b)

\* ... and until it can be found.
Unseen ==
    \A r \in ReviewIds : Present(r) /\ r \notin found =>
        \E t \in Tabs, w \in Workers :
            /\ WaitsFor(t, w) /\ At(w, "create", "refresh")
            /\ srv[w].review = r /\ reviews[r].userId = TabUser[t]

\* A vote changes neither the user nor the book of a review.
Voting ==
    \A w \in Workers : At(w, "vote", "write") =>
        /\ srv[w].doc.userId = reviews[srv[w].review].userId
        /\ srv[w].doc.bookId = reviews[srv[w].review].bookId

\* Only books that the user bought are reviewed.
BoughtFirst ==
    \A r \in ReviewIds : Present(r) =>
        reviews[r].userId \in Users /\ reviews[r].bookId \in Bought[reviews[r].userId]

\* Inductive together with IInv.
Once == OneReviewPerBook /\ BoughtFirst /\ Offered /\ Posting /\ Unseen /\ Voting

\* A search for the reviews of a user finds all that can be found: they are of
\* different books that the user bought.
LEMMA SearchIsComplete ==
    ASSUME IInv, Once, FewBooks, NEW u \in Users,
           NEW hits \in Hits({r \in ReviewIds : reviews[r].userId = u})
    PROVE  hits = {r \in ReviewIds : reviews[r].userId = u} \cap found
<1> DEFINE M == {r \in ReviewIds : reviews[r].userId = u} \cap found
<1>1. /\ hits \in SUBSET M
      /\ Cardinality(hits) = Min({SearchSize, Cardinality(M)})
    BY DEF Hits
<1>2. IsFiniteSet(M) /\ Cardinality(M) <= Cardinality(Bought[u])
  <2> DEFINE f == [r \in M |-> reviews[r].bookId]
  <2>1. \A r \in M : r \in ReviewIds /\ Present(r) /\ reviews[r].userId = u
      BY NullsAssumption DEF Present
  <2>2. f \in [M -> Bought[u]]
      BY <2>1 DEF Once, BoughtFirst
  <2>3. \A r, q \in M : f[r] = f[q] => r = q
      BY <2>1 DEF Once, OneReviewPerBook
  <2>4. f \in Injection(M, Bought[u])
    <3> HIDE DEF f, M
    <3> QED
        BY <2>2, <2>3 DEF Injection, IsInjective
  <2>5. IsFiniteSet(Bought[u])
      BY DEF FewBooks
  <2> HIDE DEF f, M
  <2> QED
      BY <2>4, <2>5, FS_Injection
<1> HIDE DEF M
<1>3. /\ Cardinality(M) \in Nat /\ SearchSize \in Nat /\ Cardinality(Bought[u]) \in Nat
      /\ Cardinality(Bought[u]) <= SearchSize
    BY <1>2, FS_CardinalityType, SearchSizeAssumption DEF FewBooks
<1>4. Min({SearchSize, Cardinality(M)}) = Cardinality(M)
  <2> DEFINE n == Cardinality(M)
  <2>1. n \in Nat /\ SearchSize \in Nat /\ n <= SearchSize
      BY <1>2, <1>3
  <2> HIDE DEF n
  <2>2. n \in {SearchSize, n} /\ \A y \in {SearchSize, n} : n =< y
      BY <2>1
  <2>3. Min({SearchSize, n}) \in {SearchSize, n} /\ \A y \in {SearchSize, n} : Min({SearchSize, n}) =< y
      BY <2>2 DEF Min
  <2>4. Min({SearchSize, n}) = n
      BY <2>1, <2>3
  <2> QED
      BY <2>4 DEF n
<1>5. hits = M
    BY <1>1, <1>2, <1>4, FS_Subset
<1> QED
    BY <1>5 DEF M

\* No review appears, or is given to another user or book.
SameReviews ==
    \A r \in ReviewIds : /\ reviews'[r].userId = reviews[r].userId
                         /\ reviews'[r].bookId = reviews[r].bookId

\* Then what is said of the reviews alone remains so ...
LEMMA ReviewsKept ==
    ASSUME Once, SameReviews
    PROVE  /\ OneReviewPerBook' /\ BoughtFirst'
           /\ \A r \in ReviewIds : Present(r)' <=> Present(r)
           /\ \A u, b : Reviewed(u, b)' <=> Reviewed(u, b)
<1>1. \A r \in ReviewIds : Present(r)' <=> Present(r)
    BY DEF SameReviews, Present
<1>2. OneReviewPerBook' /\ BoughtFirst'
    BY <1>1 DEF Once, OneReviewPerBook, BoughtFirst, SameReviews
<1>3. \A u, b : Reviewed(u, b)' <=> Reviewed(u, b)
    BY DEF Reviewed, SameReviews
<1> QED
    BY <1>1, <1>2, <1>3

\* ... and it is left to see which pages and calls changed.
LEMMA OnceKept ==
    ASSUME IInv, Once, SameReviews, found \subseteq found',
           \A t \in Tabs : tab'[t].at = "home" /\ tab'[t] # tab[t] =>
                \A b \in tab'[t].offers :
                    b \in Bought[TabUser[t]] /\ ~Reviewed(TabUser[t], b),
           \A w \in Workers : srv'[w] # srv[w] /\ At(w, "create", "start")' =>
                \E t \in Tabs : \E b \in Bought[TabUser[t]] :
                    /\ WaitsFor(t, w)' /\ srv'[w].doc = NewReview(TabUser[t], b)
                    /\ ~Reviewed(TabUser[t], b),
           \A w \in Workers : srv'[w] # srv[w] /\ At(w, "create", "refresh") =>
                srv[w].review \in found',
           \A w \in Workers : srv'[w] # srv[w] /\ At(w, "vote", "write")' =>
                /\ srv'[w].review \in ReviewIds
                /\ srv'[w].doc.userId = reviews[srv'[w].review].userId
                /\ srv'[w].doc.bookId = reviews[srv'[w].review].bookId,
           \A t \in Tabs, w \in Workers :
                srv'[w] = srv[w] /\ srv[w].op = "create" /\ srv[w].pc \notin Finished
                    /\ WaitsFor(t, w) => WaitsFor(t, w)'
    PROVE  Once'
<1>1. /\ OneReviewPerBook' /\ BoughtFirst'
      /\ \A r \in ReviewIds : Present(r)' <=> Present(r)
      /\ \A u, b : Reviewed(u, b)' <=> Reviewed(u, b)
    BY ReviewsKept
<1>2. Offered'
    BY <1>1 DEF Once, Offered
<1>3. ASSUME NEW w \in Workers, At(w, "create", "start")'
      PROVE  \E t \in Tabs : \E b \in Bought[TabUser[t]] :
                /\ WaitsFor(t, w)' /\ srv'[w].doc = NewReview(TabUser[t], b)
                /\ ~Reviewed(TabUser[t], b)'
  <2>1. CASE srv'[w] # srv[w]
      BY <1>1, <1>3, <2>1
  <2>2. CASE srv'[w] = srv[w]
    <3>1. At(w, "create", "start") /\ srv[w].op = "create" /\ srv[w].pc \notin Finished
        BY <1>3, <2>2 DEF At, Finished
    <3>2. PICK t \in Tabs : \E b \in Bought[TabUser[t]] :
            /\ WaitsFor(t, w) /\ srv[w].doc = NewReview(TabUser[t], b)
            /\ ~Reviewed(TabUser[t], b)
        BY <3>1 DEF Once, Posting
    <3> QED
        BY <1>1, <2>2, <3>1, <3>2
  <2> QED
      BY <2>1, <2>2
<1>4. Posting'
    BY <1>3 DEF Posting
<1>5. Unseen'
  <2> SUFFICES ASSUME NEW r \in ReviewIds, Present(r)', r \notin found'
               PROVE  \E t \in Tabs, w \in Workers :
                        /\ WaitsFor(t, w)' /\ At(w, "create", "refresh")'
                        /\ srv'[w].review = r /\ reviews'[r].userId = TabUser[t]
      BY DEF Unseen
  <2>1. PICK t \in Tabs, w \in Workers :
            /\ WaitsFor(t, w) /\ At(w, "create", "refresh")
            /\ srv[w].review = r /\ reviews[r].userId = TabUser[t]
      BY <1>1 DEF Once, Unseen
  <2>2. srv'[w] = srv[w] /\ srv[w].op = "create" /\ srv[w].pc \notin Finished
      BY <2>1 DEF At, Finished
  <2>3. WaitsFor(t, w)' /\ At(w, "create", "refresh")'
      BY <2>1, <2>2 DEF At
  <2> QED
      BY <2>1, <2>2, <2>3 DEF SameReviews
<1>6. Voting'
  <2> SUFFICES ASSUME NEW w \in Workers, At(w, "vote", "write")'
               PROVE  /\ srv'[w].doc.userId = reviews'[srv'[w].review].userId
                      /\ srv'[w].doc.bookId = reviews'[srv'[w].review].bookId
      BY DEF Voting
  <2>1. CASE srv'[w] # srv[w]
      BY <2>1 DEF SameReviews
  <2>2. CASE srv'[w] = srv[w]
    <3>1. At(w, "vote", "write") /\ srv[w].review \in ReviewIds
        BY <2>2 DEF At, IInv, Pending
    <3> QED
        BY <2>2, <3>1 DEF Once, Voting, SameReviews
  <2> QED
      BY <2>1, <2>2
<1> QED
    BY <1>1, <1>2, <1>4, <1>5, <1>6 DEF Once

\* A tab opens a page, or leaves one; no review is offered that was written.
LEMMA PageKeepsOnce ==
    ASSUME IInv, Once, NEW t \in Tabs, NEW p \in Page, tab' = [tab EXCEPT ![t] = p],
           UNCHANGED <<reviews, found, srv>>,
           tab[t].at = "waiting" => srv[tab[t].worker].op # "create",
           p.at = "home" => \A b \in p.offers :
                                b \in Bought[TabUser[t]] /\ ~Reviewed(TabUser[t], b)
    PROVE  Once'
<1>1. \A x \in Tabs : tab'[x] = IF x = t THEN p ELSE tab[x]
    BY DEF IInv, TypeOK
<1>2. SameReviews
    BY DEF SameReviews
<1>3. ASSUME NEW x \in Tabs, NEW w \in Workers, srv[w].op = "create", WaitsFor(x, w)
      PROVE  WaitsFor(x, w)'
    BY <1>1, <1>3 DEF WaitsFor
<1> QED
    BY <1>1, <1>2, <1>3, OnceKept

\* A tab that waits for nothing sends a request.
LEMMA SendKeepsOnce ==
    ASSUME IInv, Once, NEW t \in Tabs, NEW c \in Call, Send(t, c),
           UNCHANGED <<reviews, found>>, tab[t].at # "waiting", c.pc = "start",
           c.op = "create" => \E b \in Bought[TabUser[t]] :
                c.doc = NewReview(TabUser[t], b) /\ ~Reviewed(TabUser[t], b)
    PROVE  Once'
<1>1. PICK w \in Workers :
        /\ srv[w] = Idle /\ srv' = [srv EXCEPT ![w] = c]
        /\ tab' = [tab EXCEPT ![t] = [OtherPage EXCEPT !.at = "waiting", !.worker = w]]
    BY DEF Send
<1> DEFINE p == [OtherPage EXCEPT !.at = "waiting", !.worker = w]
<1>2. p.at = "waiting" /\ p.worker = w
    BY DEF OtherPage
<1> HIDE DEF p
<1>3. /\ \A x \in Tabs : tab'[x] = IF x = t THEN p ELSE tab[x]
      /\ \A x \in Workers : srv'[x] = IF x = w THEN c ELSE srv[x]
    BY <1>1 DEF IInv, TypeOK, p
<1>4. SameReviews
    BY DEF SameReviews
<1>5. WaitsFor(t, w)'
    BY <1>2, <1>3 DEF WaitsFor
<1>6. \A x \in Tabs, y \in Workers : WaitsFor(x, y) => WaitsFor(x, y)'
    BY <1>3 DEF WaitsFor
<1>7. ASSUME NEW y \in Workers, srv'[y] # srv[y] PROVE y = w /\ srv'[y] = c
    BY <1>3, <1>7
<1>8. \A x \in Tabs : tab'[x].at = "home" => tab'[x] = tab[x]
    BY <1>2, <1>3
<1>9. ~At(w, "create", "refresh") /\ c.pc # "write"
    BY <1>1 DEF At, Idle
<1> QED
    BY <1>3, <1>4, <1>5, <1>6, <1>7, <1>8, <1>9, OnceKept DEF At

\* The answer of a call is taken, by its tab or by nobody.
LEMMA AnswerKeepsOnce ==
    ASSUME IInv, Once, NEW w \in Workers, srv[w].pc \in Finished,
           srv' = [srv EXCEPT ![w] = Idle], UNCHANGED <<reviews, found>>,
           \A x \in Tabs : \/ tab'[x] = tab[x]
                           \/ tab'[x] = OtherPage /\ tab[x].worker = w
    PROVE  Once'
<1>1. \A x \in Workers : srv'[x] = IF x = w THEN Idle ELSE srv[x]
    BY DEF IInv, TypeOK
<1>2. SameReviews
    BY DEF SameReviews
<1>3. \A x \in Tabs : tab'[x].at = "home" => tab'[x] = tab[x]
    BY DEF OtherPage
<1>4. ASSUME NEW x \in Tabs, NEW y \in Workers, srv[y].pc \notin Finished, WaitsFor(x, y)
      PROVE  WaitsFor(x, y)'
    BY <1>4 DEF WaitsFor
<1>5. ASSUME NEW y \in Workers, srv'[y] # srv[y] PROVE y = w /\ srv'[y] = Idle
    BY <1>1, <1>5
<1>6. ~At(w, "create", "refresh") /\ Idle.op = "none"
    BY DEF At, Idle, Finished
<1> QED
    BY <1>2, <1>3, <1>4, <1>5, <1>6, OnceKept DEF At

\* A thread goes on, and changes no more than the votes of a review and what a
\* search finds.
LEMMA CallKeepsOnce ==
    ASSUME IInv, Once, NEW w \in Workers, NEW c, srv' = [srv EXCEPT ![w] = c],
           UNCHANGED tab, SameReviews, found \subseteq found',
           ~(c.op = "create" /\ c.pc = "start"),
           At(w, "create", "refresh") => srv[w].review \in found',
           c.op = "vote" /\ c.pc = "write" =>
                /\ c.review \in ReviewIds
                /\ c.doc.userId = reviews[c.review].userId
                /\ c.doc.bookId = reviews[c.review].bookId
    PROVE  Once'
<1>1. \A x \in Workers : srv'[x] = IF x = w THEN c ELSE srv[x]
    BY DEF IInv, TypeOK
<1>2. ASSUME NEW y \in Workers, srv'[y] # srv[y] PROVE y = w /\ srv'[y] = c
    BY <1>1, <1>2
<1>3. \A x \in Tabs, y \in Workers : WaitsFor(x, y) => WaitsFor(x, y)'
    BY DEF WaitsFor
<1> QED
    BY <1>2, <1>3, OnceKept DEF At

\* The steps of a tab.
LEMMA TabKeepsOnce ==
    ASSUME IInv, Once, OneTabEach, CreateInTime, FewBooks, NEW t \in Tabs, TabStep(t)
    PROVE  Once'
<1> USE TabUserAssumption, BoughtAssumption
<1>1. /\ tab \in [Tabs -> Page] /\ tab[t] \in Page /\ TabUser[t] \in Users
      /\ reviews \in [ReviewIds -> Review]
    BY DEF IInv, TypeOK
<1>2. CASE OpenHome(t)
  <2> DEFINE M == {r \in ReviewIds : reviews[r].userId = TabUser[t]}
             offers(hits) == Bought[TabUser[t]] \ {reviews[r].bookId : r \in hits}
             p(hits) == [OtherPage EXCEPT !.at = "home", !.offers = offers(hits)]
  <2>1. PICK hits \in Hits(M) : tab' = [tab EXCEPT ![t] = p(hits)]
      BY <1>2 DEF OpenHome
  <2>2. hits = M \cap found
      BY <1>1, <2>1, SearchIsComplete
  <2>3. ASSUME NEW r \in M PROVE r \in found
    <3>1. Present(r) /\ reviews[r].userId = TabUser[t] /\ r \in ReviewIds
        BY <1>1, NullsAssumption DEF Present
    <3>2. CASE r \notin found
      <4>1. PICK x \in Tabs, w \in Workers : WaitsFor(x, w) /\ reviews[r].userId = TabUser[x]
          BY <3>1, <3>2 DEF Once, Unseen
      <4>2. x = t
          BY <3>1, <4>1 DEF OneTabEach
      <4> QED
          BY <1>2, <4>1, <4>2 DEF OpenHome, WaitsFor
    <3> QED
        BY <3>2
  <2>4. \A b \in offers(hits) : b \in Bought[TabUser[t]] /\ ~Reviewed(TabUser[t], b)
      BY <2>2, <2>3 DEF Reviewed
  <2>5. p(hits) \in Page /\ p(hits).at = "home" /\ p(hits).offers = offers(hits)
      BY <1>1 DEF OtherPage, Page
  <2> HIDE DEF p, offers
  <2> QED
      BY <1>2, <2>1, <2>4, <2>5, PageKeepsOnce DEF OpenHome
<1>3. ASSUME NEW todo \in SUBSET ReviewIds, NEW buttons \in SUBSET ReviewIds
      PROVE  Reading(todo, buttons) \in Page /\ Reading(todo, buttons).at # "home"
    BY DEF Reading, OtherPage, Page
<1>4. CASE OpenBook(t)
  <2>1. PICK hits \in SUBSET found : tab' = [tab EXCEPT ![t] = Reading(hits, {})]
      BY <1>4 DEF OpenBook, Hits
  <2>2. hits \in SUBSET ReviewIds /\ {} \in SUBSET ReviewIds
      BY DEF IInv, TypeOK
  <2> HIDE <1>1
  <2> QED
      BY <1>3, <1>4, <2>1, <2>2, PageKeepsOnce DEF OpenBook
<1>5. CASE HasVoted(t)
  <2>1. PICK r \in tab[t].todo :
            tab' = [tab EXCEPT ![t] = Reading(@.todo \ {r},
                IF TabUser[t] \in reviews[r].voterIds THEN @.buttons
                                                      ELSE @.buttons \cup {r})]
      BY <1>5 DEF HasVoted
  <2> DEFINE todo == tab[t].todo \ {r}
             b == IF TabUser[t] \in reviews[r].voterIds
                  THEN tab[t].buttons ELSE tab[t].buttons \cup {r}
  <2>2. todo \in SUBSET ReviewIds /\ b \in SUBSET ReviewIds
      BY <1>1, <2>1 DEF Page
  <2>3. tab' = [tab EXCEPT ![t] = Reading(todo, b)]
      BY <2>1
  <2> HIDE DEF todo, b
  <2> QED
      BY <1>3, <1>5, <2>2, <2>3, PageKeepsOnce DEF HasVoted
<1>6. CASE PostReview(t)
  <2>1. PICK b \in tab[t].offers : Send(t, CreateCall(TabUser[t], b))
      BY <1>6 DEF PostReview
  <2>2. b \in Books /\ b \in Bought[TabUser[t]] /\ ~Reviewed(TabUser[t], b)
      BY <1>1, <1>6, <2>1 DEF PostReview, Once, Offered, Page
  <2> DEFINE c == CreateCall(TabUser[t], b)
  <2>3. c \in Call /\ c.pc = "start" /\ c.doc = NewReview(TabUser[t], b)
      BY <1>1, <2>2 DEF CreateCall, Idle, Call, NewReview, NoDoc, Review
  <2> HIDE DEF c
  <2>4. /\ \E x \in Bought[TabUser[t]] :
            c.doc = NewReview(TabUser[t], x) /\ ~Reviewed(TabUser[t], x)
        /\ tab[t].at # "waiting" /\ UNCHANGED <<reviews, found>>
      BY <1>6, <2>2, <2>3 DEF PostReview
  <2> QED
      BY <2>1, <2>3, <2>4, SendKeepsOnce DEF c
<1>7. CASE PostVote(t)
  <2>1. PICK r \in tab[t].buttons, helpful \in BOOLEAN :
            Send(t, VoteCall(TabUser[t], r, helpful))
      BY <1>7 DEF PostVote
  <2> DEFINE c == VoteCall(TabUser[t], r, helpful)
  <2>2. c \in Call /\ c.op = "vote" /\ c.pc = "start"
      BY <1>1, <2>1 DEF VoteCall, Idle, Call, NewReview, NoDoc, Review, Page
  <2> HIDE DEF c
  <2>3. tab[t].at # "waiting" /\ UNCHANGED <<reviews, found>>
      BY <1>7 DEF PostVote
  <2> QED
      BY <2>1, <2>2, <2>3, SendKeepsOnce DEF c
<1>8. CASE Answered(t)
  <2>1. tab[t].worker \in Workers
      BY <1>1, <1>8 DEF Answered, IInv, TypeOK, Page
  <2>2. \A x \in Tabs : \/ tab'[x] = tab[x]
                        \/ tab'[x] = OtherPage /\ tab[x].worker = tab[t].worker
      BY <1>1, <1>8 DEF Answered
  <2> QED
      BY <1>8, <2>1, <2>2, AnswerKeepsOnce DEF Answered
<1>9. CASE Timeout(t)
  <2>1. OtherPage \in Page /\ OtherPage.at # "home"
      BY DEF OtherPage, Page
  <2>2. srv[tab[t].worker].op # "create"
      BY <1>9 DEF Timeout, CreateInTime
  <2> QED
      BY <1>9, <2>1, <2>2, PageKeepsOnce DEF Timeout
<1> QED
    BY <1>2, <1>4, <1>5, <1>6, <1>7, <1>8, <1>9 DEF TabStep

\* The review is created: its user's tab waits, and nobody else can create or
\* offer the same.
LEMMA CreateKeepsOnce ==
    ASSUME IInv, Once, OneTabEach, NEW w \in Workers, CreateReview(w)
    PROVE  Once'
<1> USE NullsAssumption, TabUserAssumption, BoughtAssumption
<1>1. /\ reviews \in [ReviewIds -> Review] /\ srv \in [Workers -> Call]
      /\ At(w, "create", "start") /\ UNCHANGED <<found, tab>>
    BY DEF IInv, TypeOK, CreateReview
<1>2. PICK t \in Tabs : \E b \in Bought[TabUser[t]] :
            /\ WaitsFor(t, w) /\ srv[w].doc = NewReview(TabUser[t], b)
            /\ ~Reviewed(TabUser[t], b)
    BY <1>1 DEF Once, Posting
<1>3. PICK b \in Bought[TabUser[t]] :
            /\ WaitsFor(t, w) /\ srv[w].doc = NewReview(TabUser[t], b)
            /\ ~Reviewed(TabUser[t], b)
    BY <1>2
<1> DEFINE u == TabUser[t]
           doc == srv[w].doc
<1>4. u \in Users /\ u # NoUser /\ doc.userId = u /\ doc.bookId = b
    BY <1>3 DEF NewReview
<1>5. PICK r \in ReviewIds :
            /\ ~Present(r) /\ reviews' = [reviews EXCEPT ![r] = doc]
            /\ srv' = [srv EXCEPT ![w].pc = "refresh", ![w].review = r]
    BY DEF CreateReview
<1> DEFINE c == [srv[w] EXCEPT !.pc = "refresh", !.review = r]
<1>6. c.op = "create" /\ c.pc = "refresh" /\ c.review = r
    BY <1>1 DEF Call, At
<1>7. \A x \in Workers : srv'[x] = IF x = w THEN c ELSE srv[x]
    BY <1>1, <1>5
<1> HIDE DEF c, doc, u
<1>8. \A q \in ReviewIds : reviews'[q] = IF q = r THEN doc ELSE reviews[q]
    BY <1>1, <1>5
<1>9. /\ \A q \in ReviewIds : Present(q)' <=> (q = r \/ Present(q))
      /\ \A v, x : Reviewed(v, x)' => Reviewed(v, x) \/ (v = u /\ x = b)
    BY <1>4, <1>8 DEF Present, Reviewed
<1>10. OneReviewPerBook'
  <2>1. ~Reviewed(u, b)
      BY <1>3 DEF u
  <2> SUFFICES ASSUME NEW p \in ReviewIds, NEW q \in ReviewIds, Present(p)', Present(q)',
                      reviews'[p].userId = reviews'[q].userId,
                      reviews'[p].bookId = reviews'[q].bookId
               PROVE  p = q
      BY DEF OneReviewPerBook
  <2>2. CASE p # r /\ q # r
      BY <1>8, <1>9, <2>2 DEF Once, OneReviewPerBook
  <2>3. CASE p = r \/ q = r
      BY <1>4, <1>8, <2>1, <2>3 DEF Reviewed
  <2> QED
      BY <2>2, <2>3
<1>11. BoughtFirst'
    BY <1>4, <1>8, <1>9 DEF Once, BoughtFirst, u
<1>12. Offered'
  <2> SUFFICES ASSUME NEW x \in Tabs, tab[x].at = "home", NEW o \in tab[x].offers
               PROVE  o \in Bought[TabUser[x]] /\ ~Reviewed(TabUser[x], o)'
      BY <1>1 DEF Offered
  <2>1. x # t
      BY <1>3 DEF WaitsFor
  <2>2. TabUser[x] # u
      BY <2>1 DEF OneTabEach, u
  <2> QED
      BY <1>9, <2>2 DEF Once, Offered
<1>13. Posting'
  <2> SUFFICES ASSUME NEW y \in Workers, At(y, "create", "start")'
               PROVE  \E x \in Tabs : \E a \in Bought[TabUser[x]] :
                        /\ WaitsFor(x, y)' /\ srv'[y].doc = NewReview(TabUser[x], a)
                        /\ ~Reviewed(TabUser[x], a)'
      BY DEF Posting
  <2>1. y # w /\ srv'[y] = srv[y] /\ At(y, "create", "start")
      BY <1>6, <1>7 DEF At
  <2>2. PICK x \in Tabs : \E a \in Bought[TabUser[x]] :
            /\ WaitsFor(x, y) /\ srv[y].doc = NewReview(TabUser[x], a)
            /\ ~Reviewed(TabUser[x], a)
      BY <2>1 DEF Once, Posting
  <2>3. x # t
      BY <1>3, <2>1, <2>2 DEF WaitsFor
  <2>4. TabUser[x] # u
      BY <2>3 DEF OneTabEach, u
  <2>5. WaitsFor(x, y)'
      BY <1>1, <2>2 DEF WaitsFor
  <2> QED
      BY <1>9, <2>1, <2>2, <2>4, <2>5
<1>14. Unseen'
  <2> SUFFICES ASSUME NEW q \in ReviewIds, Present(q)', q \notin found
               PROVE  \E x \in Tabs, y \in Workers :
                        /\ WaitsFor(x, y)' /\ At(y, "create", "refresh")'
                        /\ srv'[y].review = q /\ reviews'[q].userId = TabUser[x]
      BY <1>1 DEF Unseen
  <2>1. \A x \in Tabs, y \in Workers : WaitsFor(x, y)' <=> WaitsFor(x, y)
      BY <1>1 DEF WaitsFor
  <2>2. CASE q = r
    <3>1. At(w, "create", "refresh")' /\ srv'[w].review = q /\ reviews'[q].userId = TabUser[t]
        BY <1>4, <1>6, <1>7, <1>8, <2>2 DEF At, u
    <3> QED
        BY <1>3, <2>1, <3>1
  <2>3. CASE q # r
    <3>1. PICK x \in Tabs, y \in Workers :
            /\ WaitsFor(x, y) /\ At(y, "create", "refresh")
            /\ srv[y].review = q /\ reviews[q].userId = TabUser[x]
        BY <1>9, <2>3 DEF Once, Unseen
    <3>2. srv'[y] = srv[y]
        BY <1>1, <1>7, <3>1 DEF At
    <3>3. At(y, "create", "refresh")' /\ reviews'[q] = reviews[q]
        BY <1>8, <2>3, <3>1, <3>2 DEF At
    <3> QED
        BY <2>1, <3>1, <3>2, <3>3
  <2> QED
      BY <2>2, <2>3
<1>15. Voting'
  <2> SUFFICES ASSUME NEW y \in Workers, At(y, "vote", "write")'
               PROVE  /\ srv'[y].doc.userId = reviews'[srv'[y].review].userId
                      /\ srv'[y].doc.bookId = reviews'[srv'[y].review].bookId
      BY DEF Voting
  <2>1. srv'[y] = srv[y] /\ At(y, "vote", "write")
      BY <1>6, <1>7 DEF At
  <2>2. srv[y].review \in ReviewIds /\ Present(srv[y].review)
      BY <2>1 DEF IInv, Pending, At
  <2>3. srv[y].review # r
      BY <1>5, <2>2
  <2> QED
      BY <1>8, <2>1, <2>2, <2>3 DEF Once, Voting
<1> QED
    BY <1>10, <1>11, <1>12, <1>13, <1>14, <1>15 DEF Once

\* The other steps of the server.
LEMMA ServerKeepsOnce ==
    ASSUME IInv, Once, OneTabEach, NEW w \in Workers, ServerStep(w)
    PROVE  Once'
<1>1. /\ srv \in [Workers -> Call] /\ srv[w] \in Call /\ reviews \in [ReviewIds -> Review]
      /\ Pending(w)
    BY DEF IInv, TypeOK
<1>2. CASE DropReply(w)
    BY <1>2, AnswerKeepsOnce DEF DropReply
<1>3. CASE RefreshCreated(w)
  <2> DEFINE c == [srv[w] EXCEPT !.pc = "done"]
  <2>1. srv' = [srv EXCEPT ![w] = c] /\ c.pc = "done"
      BY <1>1, <1>3 DEF RefreshCreated, Call
  <2>2. SameReviews /\ found \subseteq found' /\ srv[w].review \in found' /\ UNCHANGED tab
      BY <1>3 DEF RefreshCreated, SameReviews
  <2> HIDE DEF c
  <2> QED
      BY <2>1, <2>2, CallKeepsOnce
<1>4. CASE Fail(w)
  <2> DEFINE c == [srv[w] EXCEPT !.pc = "failed", !.doc = NoDoc]
  <2>1. srv' = [srv EXCEPT ![w] = c] /\ c.pc = "failed"
      BY <1>1, <1>4 DEF Fail, Call
  <2>2. SameReviews /\ found \subseteq found' /\ ~At(w, "create", "refresh") /\ UNCHANGED tab
      BY <1>4 DEF Fail, SameReviews, At
  <2> HIDE DEF c
  <2> QED
      BY <2>1, <2>2, CallKeepsOnce
<1>5. CASE ReadForVote(w)
  <2> DEFINE r == srv[w].review
             new == WithVote(reviews[r], srv[w].user, srv[w].helpful)
             refused == [srv[w] EXCEPT !.pc = "conflict"]
             counted == [srv[w] EXCEPT !.pc = "write", !.doc = new]
  <2>1. /\ SameReviews /\ found \subseteq found' /\ ~At(w, "create", "refresh")
        /\ UNCHANGED tab /\ srv[w].op = "vote" /\ r \in ReviewIds
      BY <1>1, <1>5 DEF ReadForVote, SameReviews, At, Pending
  <2>2. new.userId = reviews[r].userId /\ new.bookId = reviews[r].bookId
    <3> DEFINE doc == reviews[r]
    <3>1. doc \in Review
        BY <1>1, <2>1
    <3> HIDE DEF doc
    <3> QED
        BY <3>1 DEF WithVote, Review, doc
  <2>3. srv' = [srv EXCEPT ![w] = refused] \/ srv' = [srv EXCEPT ![w] = counted]
      BY <1>1, <1>5 DEF ReadForVote
  <2>4. refused.pc = "conflict"
      BY <1>1 DEF Call
  <2>5. counted.op = "vote" /\ counted.review = r /\ counted.doc = new
    <3> HIDE DEF new
    <3> QED
        BY <1>1, <2>1 DEF Call
  <2> HIDE DEF refused, counted, new, r
  <2>6. CASE srv' = [srv EXCEPT ![w] = refused]
      BY <2>1, <2>4, <2>6, CallKeepsOnce
  <2>7. CASE srv' = [srv EXCEPT ![w] = counted]
      BY <2>1, <2>2, <2>5, <2>7, CallKeepsOnce
  <2> QED
      BY <2>3, <2>6, <2>7
<1>6. CASE WriteVote(w)
  <2> DEFINE r == srv[w].review
             c == [srv[w] EXCEPT !.pc = "done", !.doc = NoDoc]
  <2>1. srv' = [srv EXCEPT ![w] = c] /\ c.pc = "done"
      BY <1>1, <1>6 DEF WriteVote, Call
  <2>2. /\ At(w, "vote", "write") /\ r \in ReviewIds
        /\ reviews' = [reviews EXCEPT ![r] = srv[w].doc] /\ UNCHANGED <<found, tab>>
      BY <1>1, <1>6 DEF WriteVote, Pending, At
  <2>3. srv[w].doc.userId = reviews[r].userId /\ srv[w].doc.bookId = reviews[r].bookId
      BY <2>2 DEF Once, Voting
  <2> HIDE DEF c, r
  <2>4. SameReviews
      BY <1>1, <2>2, <2>3 DEF SameReviews
  <2>5. ~At(w, "create", "refresh") /\ found \subseteq found'
      BY <2>2 DEF At
  <2> QED
      BY <2>1, <2>2, <2>4, <2>5, CallKeepsOnce
<1> QED
    BY <1>2, <1>3, <1>4, <1>5, <1>6, CreateKeepsOnce DEF ServerStep

\* A user who has one tab writes one review of a book at most, on the three
\* conditions: no server looks for an earlier review, but the home page offers
\* no reviewed book, and the tab is busy until the new review can be found.
THEOREM OneReview ==
    ASSUME OneTabEach, CreateInTime, FewBooks
    PROVE  Spec => []OneReviewPerBook
<1>1. Init => Once
  <2> SUFFICES ASSUME Init PROVE Once
      OBVIOUS
  <2>1. \A r \in ReviewIds : ~Present(r)
      BY DEF Init, Present, NoDoc, NewReview
  <2> QED
      BY <2>1 DEF Init, Once, OneReviewPerBook, BoughtFirst, Offered, Posting, Unseen,
                  Voting, OtherPage, Idle, At
<1>2. IInv /\ Once /\ [Next]_vars => Once'
  <2> SUFFICES ASSUME IInv, Once, [Next]_vars PROVE Once'
      OBVIOUS
  <2>1. CASE UNCHANGED vars
      BY <2>1 DEF vars, Once, OneReviewPerBook, BoughtFirst, Offered, Posting, Unseen,
                  Voting, Present, Reviewed, WaitsFor, At
  <2>2. ASSUME NEW r \in ReviewIds, Refresh(r) PROVE Once'
    <3>1. SameReviews /\ found \subseteq found' /\ UNCHANGED <<srv, tab>>
        BY <2>2 DEF Refresh, SameReviews
    <3>2. \A t \in Tabs, w \in Workers : WaitsFor(t, w) => WaitsFor(t, w)'
        BY <3>1 DEF WaitsFor
    <3> QED
        BY <3>1, <3>2, OnceKept
  <2> QED
      BY <2>1, <2>2, TabKeepsOnce, ServerKeepsOnce DEF Next
<1>3. Once => OneReviewPerBook
    BY DEF Once
<1> QED
    BY <1>1, <1>2, <1>3, Invariant, PTL DEF Spec
=============================================================================
