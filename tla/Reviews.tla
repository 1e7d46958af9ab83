------------------------------- MODULE Reviews -------------------------------
(***************************************************************************)
(* The reviews of books: ReviewController and the two pages of the         *)
(* frontend that lead to it, the review server, and its index              *)
(* gutenberg-reviews.                                                      *)
(*                                                                         *)
(* The home page offers a user the books of shipped orders that a search   *)
(* finds no review for; the page of a book shows its reviews, with a vote  *)
(* button on each that the user has not voted on.  Posting leaves the page *)
(* for a page of thanks or an error page.  A user may have several tabs,   *)
(* and a page stays as it was built until the tab opens another one.       *)
(***************************************************************************)
EXTENDS Integers, FiniteSets, FiniteSetsExt

CONSTANTS
    Users, NoUser,
    Books, NoBook,
    ReviewIds,       \* ids Elasticsearch can generate (bounds the reviews)
    NoReview,
    Tabs,            \* browser tabs
    TabUser,         \* the logged user of each tab
    Bought,          \* Bought[u]: the books of u's shipped orders
    Workers,         \* threads of the review server
    NoWorker,
    SearchSize,      \* default number of hits of a search (10)
    LateOps,         \* the calls that can outlive the gateway's timeout
    Failing          \* can Elasticsearch fail?

ASSUME NullsAssumption ==
    /\ NoUser \notin Users /\ NoBook \notin Books
    /\ NoReview \notin ReviewIds /\ NoWorker \notin Workers
ASSUME TabUserAssumption == TabUser \in [Tabs -> Users]
ASSUME BoughtAssumption == Bought \in [Users -> SUBSET Books]
ASSUME SearchSizeAssumption == SearchSize \in Nat
ASSUME FaultsAssumption == LateOps \subseteq {"create", "vote"} /\ Failing \in BOOLEAN

VARIABLES
    reviews,         \* gutenberg-reviews: the current documents
    found,           \* the reviews that a search can find
    srv,             \* srv[w]: the call that thread w works on
    tab,             \* tab[t]: the page tab t shows, or the call it waits for
    accepted,        \* history: the votes answered with 200
    versions         \* history: the states each review's votes were in

vars == <<reviews, found, srv, tab, accepted, versions>>

Review == [userId: Users \cup {NoUser}, bookId: Books \cup {NoBook},
           voterIds: SUBSET Users, helpfulVotes: Nat]
NewReview(u, b) == [userId |-> u, bookId |-> b, voterIds |-> {}, helpfulVotes |-> 0]
NoDoc == NewReview(NoUser, NoBook)

Votes(doc) == [voters |-> doc.voterIds, tally |-> doc.helpfulVotes]

Call == [op: {"none", "create", "vote"},
         pc: {"idle", "start", "refresh", "write", "done", "conflict", "failed"},
         user: Users \cup {NoUser}, review: ReviewIds \cup {NoReview},
         helpful: BOOLEAN, doc: Review]
Idle == [op |-> "none", pc |-> "idle", user |-> NoUser, review |-> NoReview,
         helpful |-> FALSE, doc |-> NoDoc]
CreateCall(u, b) == [Idle EXCEPT !.op = "create", !.pc = "start",
                                 !.doc = NewReview(u, b)]
VoteCall(u, r, helpful) == [Idle EXCEPT !.op = "vote", !.pc = "start", !.user = u,
                                        !.review = r, !.helpful = helpful]
Finished == {"done", "conflict", "failed"}

Page == [at: {"other", "home", "reading", "book", "waiting"},
         offers: SUBSET Books,       \* home: the books to review
         todo: SUBSET ReviewIds,     \* reading: reviews still to look up
         buttons: SUBSET ReviewIds,  \* book: reviews with a vote button
         worker: Workers \cup {NoWorker}]
OtherPage == [at |-> "other", offers |-> {}, todo |-> {}, buttons |-> {},
              worker |-> NoWorker]

\* Types; a tab waits for a call that is under way, and a call past its first
\* step has its review.
TypeOK ==
    /\ reviews \in [ReviewIds -> Review]
    /\ found \in SUBSET ReviewIds
    /\ srv \in [Workers -> Call]
    /\ tab \in [Tabs -> Page]
    /\ accepted \in SUBSET (Users \X ReviewIds \X BOOLEAN)
    /\ versions \in [ReviewIds -> SUBSET [voters: SUBSET Users, tally: Nat]]
    /\ \A t \in Tabs : tab[t].at = "waiting" => tab[t].worker # NoWorker
    /\ \A w \in Workers :
        srv[w].op = "vote" \/ srv[w].pc = "refresh" => srv[w].review # NoReview

Init ==
    /\ reviews = [r \in ReviewIds |-> NoDoc]
    /\ found = {}
    /\ srv = [w \in Workers |-> Idle]
    /\ tab = [t \in Tabs |-> OtherPage]
    /\ accepted = {}
    /\ versions = [r \in ReviewIds |-> {Votes(NoDoc)}]

Present(r) == reviews[r].userId # NoUser

-----------------------------------------------------------------------------
(* Pages.                                                                  *)

\* The hits of a search among the reviews `matches` that it can find.
Hits(matches) ==
    {hits \in SUBSET (matches \cap found) :
        Cardinality(hits) = Min({SearchSize, Cardinality(matches \cap found)})}

\* greetings: getBooksNotReviewed searches the user's reviews, then the order
\* server leaves their books out of the books the user bought.
OpenHome(t) ==
    /\ tab[t].at \notin {"reading", "waiting"}
    /\ \E hits \in Hits({r \in ReviewIds : reviews[r].userId = TabUser[t]}) :
        tab' = [tab EXCEPT ![t] =
            [OtherPage EXCEPT !.at = "home",
                !.offers = Bought[TabUser[t]] \ {reviews[r].bookId : r \in hits}]]
    /\ UNCHANGED <<reviews, found, srv, accepted, versions>>

Reading(todo, buttons) ==
    [OtherPage EXCEPT !.at = IF todo = {} THEN "book" ELSE "reading",
                      !.todo = todo, !.buttons = buttons]

\* getBook: a search for the reviews of a book ...
OpenBook(t) ==
    /\ tab[t].at \notin {"reading", "waiting"}
    /\ \E b \in Books :
        \E hits \in Hits({r \in ReviewIds : reviews[r].bookId = b}) :
            tab' = [tab EXCEPT ![t] = Reading(hits, {})]
    /\ UNCHANGED <<reviews, found, srv, accepted, versions>>

\* ... and for each of them hasVoted: was this user counted by now?
HasVoted(t) ==
    /\ tab[t].at = "reading"
    /\ \E r \in tab[t].todo :
        tab' = [tab EXCEPT ![t] = Reading(@.todo \ {r},
            IF TabUser[t] \in reviews[r].voterIds THEN @.buttons
                                                  ELSE @.buttons \cup {r})]
    /\ UNCHANGED <<reviews, found, srv, accepted, versions>>

-----------------------------------------------------------------------------
(* Posting.                                                                *)

Send(t, c) ==
    \E w \in Workers :
        /\ srv[w] = Idle
        /\ srv' = [srv EXCEPT ![w] = c]
        /\ tab' = [tab EXCEPT ![t] = [OtherPage EXCEPT !.at = "waiting", !.worker = w]]

\* A book is chosen on the home page and its form filled in; user and book
\* travel in the form.
PostReview(t) ==
    /\ tab[t].at = "home"
    /\ \E b \in tab[t].offers : Send(t, CreateCall(TabUser[t], b))
    /\ UNCHANGED <<reviews, found, accepted, versions>>

PostVote(t) ==
    /\ tab[t].at = "book"
    /\ \E r \in tab[t].buttons, helpful \in BOOLEAN :
        Send(t, VoteCall(TabUser[t], r, helpful))
    /\ UNCHANGED <<reviews, found, accepted, versions>>

\* The answer arrives: success page, or the error page of a 409 or a 500.
Answered(t) ==
    /\ tab[t].at = "waiting"
    /\ srv[tab[t].worker].pc \in Finished
    /\ srv' = [srv EXCEPT ![tab[t].worker] = Idle]
    /\ tab' = [tab EXCEPT ![t] = OtherPage]
    /\ UNCHANGED <<reviews, found, accepted, versions>>

\* The gateway's response-timeout: an error page, while the call goes on.
Timeout(t) ==
    /\ tab[t].at = "waiting"
    /\ srv[tab[t].worker].op \in LateOps
    /\ tab' = [tab EXCEPT ![t] = OtherPage]
    /\ UNCHANGED <<reviews, found, srv, accepted, versions>>

DropReply(w) ==
    /\ srv[w].pc \in Finished
    /\ \A t \in Tabs : tab[t].worker # w
    /\ srv' = [srv EXCEPT ![w] = Idle]
    /\ UNCHANGED <<reviews, found, tab, accepted, versions>>

-----------------------------------------------------------------------------
(* The review server.                                                      *)

At(w, op, pc) == srv[w].op = op /\ srv[w].pc = pc

\* createReview: whether the user has reviewed the book is not looked up.
CreateWithoutId(w) ==               \* mutant: the generated id is not kept
    /\ At(w, "create", "start")
    /\ \E r \in ReviewIds :
        /\ ~Present(r)
        /\ reviews' = [reviews EXCEPT ![r] = srv[w].doc]
        /\ srv' = [srv EXCEPT ![w].pc = "refresh"]
    /\ UNCHANGED <<found, tab, accepted, versions>>
CreateReview(w) ==
    /\ At(w, "create", "start")
    /\ \E r \in ReviewIds :
        /\ ~Present(r)
        /\ reviews' = [reviews EXCEPT ![r] = srv[w].doc]
        /\ srv' = [srv EXCEPT ![w].pc = "refresh", ![w].review = r]
    /\ UNCHANGED <<found, tab, accepted, versions>>

\* RefreshPolicy.IMMEDIATE: the answer comes when a search finds the review.
NoRefresh(w) ==                     \* mutant: no refresh policy
    /\ At(w, "create", "refresh")
    /\ srv' = [srv EXCEPT ![w].pc = "done"]
    /\ UNCHANGED <<reviews, found, tab, accepted, versions>>
RefreshCreated(w) ==
    /\ At(w, "create", "refresh")
    /\ found' = found \cup {srv[w].review}
    /\ srv' = [srv EXCEPT ![w].pc = "done"]
    /\ UNCHANGED <<reviews, tab, accepted, versions>>

\* Elasticsearch refreshes the shard of review r by itself.
Refresh(r) ==
    /\ Present(r) /\ r \notin found
    /\ found' = found \cup {r}
    /\ UNCHANGED <<reviews, srv, tab, accepted, versions>>

\* The document after user u has voted.
WithVote(doc, u, helpful) ==
    [doc EXCEPT !.voterIds = @ \cup {u},
                !.helpfulVotes = @ + (IF helpful THEN 1 ELSE 0)]

\* voteHelpful: get the review, and refuse a user who was counted (409) ...
ReadAnyVote(w) ==                   \* mutant: voterIds.add is not looked at
    /\ At(w, "vote", "start")
    /\ LET doc == reviews[srv[w].review]
       IN  srv' = [srv EXCEPT ![w].pc = "write",
                              ![w].doc = WithVote(doc, srv[w].user, srv[w].helpful)]
    /\ UNCHANGED <<reviews, found, tab, accepted, versions>>
ReadForVote(w) ==
    /\ At(w, "vote", "start")
    /\ LET doc == reviews[srv[w].review]
       IN  \/ /\ srv[w].user \in doc.voterIds
              /\ srv' = [srv EXCEPT ![w].pc = "conflict"]
           \/ /\ srv[w].user \notin doc.voterIds
              /\ srv' = [srv EXCEPT
                    ![w].pc = "write",
                    ![w].doc = WithVote(doc, srv[w].user, srv[w].helpful)]
    /\ UNCHANGED <<reviews, found, tab, accepted, versions>>

\* ... then doUpdate writes the whole document back: the last writer wins.
WriteTallyOnly(w) ==                \* mutant: voterIds is not set
    /\ At(w, "vote", "write")
    /\ LET r == srv[w].review
           doc == [reviews[r] EXCEPT !.helpfulVotes = srv[w].doc.helpfulVotes]
       IN  /\ reviews' = [reviews EXCEPT ![r] = doc]
           /\ versions' = [versions EXCEPT ![r] = @ \cup {Votes(doc)}]
           /\ accepted' = accepted \cup {<<srv[w].user, r, srv[w].helpful>>}
           /\ srv' = [srv EXCEPT ![w].pc = "done", ![w].doc = NoDoc]
    /\ UNCHANGED <<found, tab>>
WriteVote(w) ==
    /\ At(w, "vote", "write")
    /\ LET r == srv[w].review
       IN  /\ reviews' = [reviews EXCEPT ![r] = srv[w].doc]
           /\ versions' = [versions EXCEPT ![r] = @ \cup {Votes(srv[w].doc)}]
           /\ accepted' = accepted \cup {<<srv[w].user, r, srv[w].helpful>>}
           /\ srv' = [srv EXCEPT ![w].pc = "done", ![w].doc = NoDoc]
    /\ UNCHANGED <<found, tab>>

\* Elasticsearch fails (500), or the model has no more ids.
Fail(w) ==
    /\ \/ Failing
       \/ At(w, "create", "start") /\ \A r \in ReviewIds : Present(r)
    /\ srv[w].pc \in {"start", "write"}
    /\ srv' = [srv EXCEPT ![w].pc = "failed", ![w].doc = NoDoc]
    /\ UNCHANGED <<reviews, found, tab, accepted, versions>>

TabStep(t) ==
    \/ OpenHome(t) \/ OpenBook(t) \/ HasVoted(t)
    \/ PostReview(t) \/ PostVote(t) \/ Answered(t) \/ Timeout(t)

ServerStep(w) ==
    \/ DropReply(w) \/ CreateReview(w) \/ RefreshCreated(w)
    \/ ReadForVote(w) \/ WriteVote(w) \/ Fail(w)

Next ==
    \/ \E t \in Tabs : TabStep(t)
    \/ \E w \in Workers : ServerStep(w)
    \/ \E r \in ReviewIds : Refresh(r)

Spec == Init /\ [][Next]_vars

-----------------------------------------------------------------------------
\* Votes on one review read the document, decide and write it back, and may
\* overwrite each other: still, the tally of a stored review is the number of
\* its voters who found it helpful, each by a vote that was accepted.
TallyIsSupported ==
    \A r \in ReviewIds : \E yes \in SUBSET reviews[r].voterIds :
        /\ Cardinality(yes) = reviews[r].helpfulVotes
        /\ \A u \in yes : <<u, r, TRUE>> \in accepted
        /\ \A u \in reviews[r].voterIds \ yes : <<u, r, FALSE>> \in accepted

Box == INSTANCE BallotBox WITH
    box <- [r \in ReviewIds |-> Votes(reviews[r])],
    past <- versions

\* Votes that overlap are votes on a box that may fall back to an earlier state,
\* and nothing worse: no vote counts twice in one state, none is built on a
\* state that never was.
VotesFollowBallotBox == Box!Spec

\* "A given user can write only one review for the same book" (Review): when
\* each user has one tab and no createReview outlives its timeout.  No server
\* checks it: it rests on the immediate refresh and on the page that is left.
OneReviewPerBook ==
    \A r, q \in ReviewIds :
        /\ Present(r) /\ Present(q)
        /\ reviews[r].userId = reviews[q].userId
        /\ reviews[r].bookId = reviews[q].bookId
        => r = q

\* "a user can vote only once" (ReviewRestEndpoint.addVote): no second vote of a
\* user on a review is answered with 200.
VoteOnlyOnce ==
    [][\A w \in Workers : At(w, "vote", "write") /\ srv'[w].pc = "done"
            => \A helpful \in BOOLEAN :
                <<srv[w].user, srv[w].review, helpful>> \notin accepted]_vars
=============================================================================
