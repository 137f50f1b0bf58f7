---------------------------- MODULE PagesProofs -----------------------------
(***************************************************************************)
(* Proofs about Pages for any criteria and any number of requests.         *)
(*                                                                         *)
(* What the properties say of a quiet page, or of the moment of a click,   *)
(* depends on the requests under way before: who hides something or makes   *)
(* it turn is one of them (LoadingEnds); the only listing, while listings   *)
(* do not overlap, asks what the form has (ListFollowsForm); and a list     *)
(* that has become wrong is on its way to be replaced (StaleListIsReplaced).*)
(***************************************************************************)
EXTENDS Pages, TLAPS

Acts == {s \in Slots : requests[s].kind = "act"}

\* What is hidden will be shown by the end of a request of its own kind; a
\* spinner and a disabled button end with any request.  The flusher never
\* disables its button, and never enables it either.
LoadingEnds ==
  /\ page = "flusher" => view.enabled
  /\ ~view.listShown => Listings(requests) # {}
  /\ ~view.resultShown => Acts # {}
  /\ ~view.enabled \/ view.listSpins \/ view.resultSpins =>
       \E s \in Slots : requests[s].kind # "none"

\* There is one listing, and it and the list it gives are of what the form
\* has, as long as the form has not been edited and listings do not overlap.
ListFollowsForm ==
  ~overlapped =>
    /\ \A s, r \in Listings(requests) : s = r
    /\ ~dirty => \A s \in Listings(requests) : requests[s].of = form
    /\ ~dirty /\ view.button = "act" => list.of = form

\* A list made before a flush, on the page or still under way, is followed by a
\* newer one: it is under way, or the answer of the flush will ask for it.
StaleListIsReplaced ==
  /\ page = "flusher" /\ ~missed /\ ~overlapped
  /\ list.stale \/ \E s \in Listings(requests) : requests[s].stale
  => \E s \in Slots :
       \/ requests[s].kind = "act" /\ requests[s].answer # "none"
       \/ requests[s].kind = "list" /\ ~requests[s].stale

IInv == TypeOK /\ LoadingEnds /\ ListFollowsForm /\ StaleListIsReplaced

-----------------------------------------------------------------------------
(***************************************************************************)
(* Requests and the page                                                   *)
(***************************************************************************)

\* A request of a kind, with what the form has now.
Posted(kind) == [kind |-> kind, of |-> form, answer |-> "none", stale |-> FALSE]

\* What is sent takes one free slot and leaves the other requests alone.
LEMMA SentShape ==
  ASSUME NEW reqs, NEW kind, FreeSlots(reqs) # {}
  PROVE  \E s \in FreeSlots(reqs) :
           Sent(reqs, kind) = [reqs EXCEPT ![s] = Posted(kind)]
  <1> DEFINE s == CHOOSE s \in FreeSlots(reqs) : TRUE
  <1>1. s \in FreeSlots(reqs)
    OBVIOUS
  <1> QED BY <1>1 DEF Sent, Posted

\* Requests stay requests when one is sent.
LEMMA SentTyping ==
  ASSUME NEW reqs \in [Slots -> Requests], NEW kind \in {"list", "act"},
         FreeSlots(reqs) # {}, form \in Criteria
  PROVE  Sent(reqs, kind) \in [Slots -> Requests]
  <1>1. PICK s \in FreeSlots(reqs) :
               Sent(reqs, kind) = [reqs EXCEPT ![s] = Posted(kind)]
    BY SentShape
  <1>2. s \in Slots /\ Posted(kind) \in Requests
    BY DEF FreeSlots, Posted, Requests
  <1> QED BY <1>1, <1>2

\* The page's scripts turn a view into a view.
LEMMA ViewTyping ==
  ASSUME NEW v \in Views
  PROVE  /\ Loading(v) \in Views
         /\ LoadingDone(v) \in Views
         /\ ToSearch(v) \in Views
         /\ ToAct(v) \in Views
  BY DEF Views, Loading, ArchiverLoading, FlusherLoading, LoadingDone,
         ArchiverLoadingDone, FlusherLoadingDone, ToSearch, ArchiverToSearch,
         FlusherToSearch, ToAct

\* A form in use is valid or it is the invalid one.
LEMMA ValidForm ==
  ASSUME TypeOK, form # Invalid
  PROVE  form \in Criteria
  BY DEF TypeOK

\* One request less.
LEMMA WithoutShape ==
  ASSUME TypeOK, NEW s \in Slots
  PROVE  /\ Without(s) \in [Slots -> Requests]
         /\ s \in FreeSlots(Without(s))
         /\ Without(s)[s].kind = "none"
         /\ \A r \in Slots \ {s} : Without(s)[r] = requests[r]
  BY DEF TypeOK, Without, NoRequest, Requests, FreeSlots

\* A flush changes nothing of a request but that it may be stale.
LEMMA AfterFlushShape ==
  ASSUME NEW reqs \in [Slots -> Requests]
  PROVE  /\ AfterFlush(reqs) \in [Slots -> Requests]
         /\ \A s \in Slots :
              /\ AfterFlush(reqs)[s].kind = reqs[s].kind
              /\ AfterFlush(reqs)[s].of = reqs[s].of
              /\ AfterFlush(reqs)[s].answer = reqs[s].answer
              /\ AfterFlush(reqs)[s].kind = "act" =>
                   AfterFlush(reqs)[s] = reqs[s]
  BY DEF AfterFlush, Requests

\* Whatever is served, the requests are the same, one of them answered.
LEMMA ServedShape ==
  ASSUME TypeOK, NEW s \in Slots, Serve(s)
  PROVE  /\ requests' \in [Slots -> Requests]
         /\ requests[s].kind # "none"
         /\ requests'[s].answer # "none"
         /\ \A r \in Slots : /\ requests'[r].kind = requests[r].kind
                             /\ requests'[r].of = requests[r].of
         /\ \A r \in Slots \ {s} : requests'[r].answer = requests[r].answer
  <1>1. PICK a \in {"page", "failure"} :
          \/ requests' = [requests EXCEPT ![s].answer = a]
          \/ requests' = AfterFlush([requests EXCEPT ![s].answer = a])
    BY DEF Serve, ServeListing, ServeAction, Answered
  <1> DEFINE served == [requests EXCEPT ![s].answer = a]
  <1>2. /\ served \in [Slots -> Requests]
        /\ served[s].answer = a
        /\ \A r \in Slots : /\ served[r].kind = requests[r].kind
                            /\ served[r].of = requests[r].of
        /\ \A r \in Slots \ {s} : served[r] = requests[r]
    BY DEF TypeOK, Requests
  <1>3. requests' = served \/ requests' = AfterFlush(served)
    BY <1>1
  <1>4. requests[s].kind # "none"
    BY DEF Serve, ServeListing, ServeAction
  <1> HIDE DEF served
  <1>5. CASE requests' = served
    BY <1>2, <1>4, <1>5
  <1>6. CASE requests' = AfterFlush(served)
    BY <1>2, <1>4, <1>6, AfterFlushShape
  <1> QED BY <1>3, <1>5, <1>6

-----------------------------------------------------------------------------
(***************************************************************************)
(* Types                                                                   *)
(***************************************************************************)

\* A listing is posted by a typed page.
LEMMA PostListingTyping ==
  ASSUME TypeOK, NEW reqs \in [Slots -> Requests], NEW v \in Views,
         Room(reqs), PostListing(reqs, v)
  PROVE  /\ requests' \in [Slots -> Requests]
         /\ view' \in Views
         /\ overlapped' \in BOOLEAN
  <1>1. CASE form = Invalid
    BY <1>1 DEF PostListing, TypeOK
  <1>2. CASE form # Invalid
    <2>1. Sent(reqs, "list") \in [Slots -> Requests]
      BY <1>2, SentTyping, ValidForm DEF Room
    <2> QED BY <1>2, <2>1, ViewTyping DEF PostListing, TypeOK
  <1> QED BY <1>1, <1>2

\* The page as it is loaded is well typed.
LEMMA InitTyping == Init => TypeOK
  <1> SUFFICES ASSUME Init PROVE TypeOK
    OBVIOUS
  <1> DEFINE none == [s \in Slots |-> NoRequest]
  <1>1. none \in [Slots -> Requests] /\ 1 \in FreeSlots(none)
    BY MaxRequestsAssumption DEF NoRequest, Requests, FreeSlots, Slots
  <1>2. Sent(none, "list") \in [Slots -> Requests]
    BY <1>1, SentTyping, CriteriaAssumption DEF Init
  <1>3. view \in Views
    BY ViewTyping DEF Init, Views
  <1> QED BY <1>2, <1>3, CriteriaAssumption DEF Init, TypeOK

\* Events of the user, of the server and of requests keep the types.
LEMMA NextTyping == TypeOK /\ [Next]_vars => TypeOK'
  <1> SUFFICES ASSUME TypeOK, [Next]_vars PROVE TypeOK'
    OBVIOUS
  <1>1. ASSUME NEW c \in Criteria \cup {Invalid}, Edit(c) PROVE TypeOK'
    BY <1>1 DEF Edit, TypeOK
  <1>2. CASE Change
    <2>1. [view EXCEPT !.enabled = TRUE] \in Views
      BY DEF TypeOK, Views
    <2> QED BY <1>2, <2>1, ViewTyping DEF Change, TypeOK
  <1>3. CASE Enter
    <2>1. ToSearch(view) \in Views
      BY ViewTyping DEF TypeOK
    <2> QED BY <1>3, <2>1, PostListingTyping DEF Enter, TypeOK
  <1>4. CASE ClickSearch
    BY <1>4, PostListingTyping DEF ClickSearch, TypeOK
  <1>5. CASE ThawBuckets
    BY <1>5, SentTyping, ValidForm, ViewTyping DEF ThawBuckets, TypeOK
  <1>6. CASE FlushBuckets
    <2>1. [view EXCEPT !.resultPage = TRUE] \in Views
      BY DEF TypeOK, Views
    <2> QED BY <1>6, <2>1, SentTyping, ValidForm, ViewTyping
            DEF FlushBuckets, TypeOK
  <1>8. ASSUME NEW s \in Slots, ServeListing(s) PROVE TypeOK'
    BY <1>8, ServedShape DEF Serve, ServeListing, TypeOK
  <1>9. ASSUME NEW s \in Slots, ServeAction(s) PROVE TypeOK'
    <2>2. requests' \in [Slots -> Requests]
      BY <1>9, ServedShape DEF Serve
    <2>3. list' \in [of : Criteria \cup {NoCriteria}, stale : BOOLEAN]
      BY <1>9 DEF ServeAction, TypeOK
    <2>4. late' \in BOOLEAN
      BY <1>9 DEF ServeAction, TypeOK
    <2> QED BY <1>9, <2>2, <2>3, <2>4 DEF ServeAction, TypeOK
  <1>10. CASE LateFlush
    BY <1>10, AfterFlushShape DEF LateFlush, TypeOK
  <1>11. ASSUME NEW v \in Views
         PROVE  /\ [LoadingDone(v) EXCEPT !.listShown = TRUE] \in Views
                /\ [LoadingDone(v) EXCEPT !.resultShown = TRUE] \in Views
    <2>1. LoadingDone(v) \in Views
      BY ViewTyping
    <2> QED BY <2>1 DEF Views
  <1>12. ASSUME NEW s \in Slots, ListingDone(s) PROVE TypeOK'
    <2>1. requests' \in [Slots -> Requests]
      BY <1>12, WithoutShape DEF ListingDone
    <2>2. ToAct(view) \in Views
      BY ViewTyping DEF TypeOK
    <2>3. view' \in Views
      BY <1>11, <1>12, <2>2 DEF ListingDone, TypeOK
    <2>4. list' \in [of : Criteria \cup {NoCriteria}, stale : BOOLEAN]
      BY <1>12 DEF ListingDone, TypeOK, Requests
    <2> QED BY <1>12, <2>1, <2>3, <2>4 DEF ListingDone, TypeOK
  <1>13. ASSUME NEW s \in Slots, ThawDone(s) PROVE TypeOK'
    BY <1>11, <1>13, WithoutShape DEF ThawDone, TypeOK
  <1>14. ASSUME NEW s \in Slots, FlushDone(s) PROVE TypeOK'
    <2>1. Without(s) \in [Slots -> Requests] /\ Room(Without(s))
      BY WithoutShape DEF Room
    <2>2. [LoadingDone(view) EXCEPT !.resultShown = TRUE] \in Views
      BY <1>11 DEF TypeOK
    <2> QED BY <1>14, <2>1, <2>2, PostListingTyping DEF FlushDone, TypeOK
  <1>15. CASE UNCHANGED vars
    BY <1>15 DEF vars, TypeOK
  <1> QED BY <1>1, <1>2, <1>3, <1>4, <1>5, <1>6, <1>8, <1>9, <1>10, <1>12,
             <1>13, <1>14, <1>15 DEF Next, User, Serve, Done

\* The form, the button, the list and the requests under way keep their types.
THEOREM PagesTyping == Spec => []TypeOK
  <1> QED BY InitTyping, NextTyping, PTL DEF Spec

-----------------------------------------------------------------------------
(***************************************************************************)
(* Every loading ends                                                      *)
(***************************************************************************)

\* What a post of a listing does.
LEMMA PostListingShape ==
  ASSUME NEW reqs, NEW v, Room(reqs), PostListing(reqs, v), form # Invalid
  PROVE  /\ \E s \in FreeSlots(reqs) :
              requests' = [reqs EXCEPT ![s] = Posted("list")]
         /\ view' = Loading(v)
         /\ overlapped' = (overlapped \/ Listings(reqs) # {})
  BY SentShape DEF PostListing, Room

\* The page a listing is posted from hides the list at most.
LEMMA PostListingLoads ==
  ASSUME TypeOK, NEW reqs \in [Slots -> Requests], NEW v \in Views,
         Room(reqs), PostListing(reqs, v), page' = page,
         page = "archiver" => v.button = "search",
         page = "flusher" => v.enabled,
         ~v.listShown => Listings(reqs) # {},
         ~v.resultShown => \E s \in Slots : reqs[s].kind = "act",
         ~v.enabled \/ v.listSpins \/ v.resultSpins =>
           \E s \in Slots : reqs[s].kind # "none"
  PROVE  LoadingEnds'
  <1>1. CASE form = Invalid
    BY <1>1 DEF PostListing, LoadingEnds, Listings, Acts
  <1>2. CASE form # Invalid
    <2>1. PICK s \in FreeSlots(reqs) :
                 requests' = [reqs EXCEPT ![s] = Posted("list")]
      BY <1>2, PostListingShape
    <2>2. s \in Slots /\ reqs[s].kind = "none" /\ requests'[s].kind = "list"
      BY <2>1 DEF FreeSlots, Posted
    <2>3. \A r \in Slots \ {s} : requests'[r] = reqs[r]
      BY <2>1
    <2>4. Listings(requests)' # {}
      BY <2>2 DEF Listings
    <2>5. view' = Loading(v)
      BY <1>2, PostListingShape
    <2>7. /\ view'.resultShown = v.resultShown
          /\ page = "flusher" => view'.enabled = v.enabled
      BY <2>5 DEF Loading, ArchiverLoading, FlusherLoading, Views, TypeOK
    <2>6. (\E r \in Slots : reqs[r].kind = "act") => Acts' # {}
      BY <2>2, <2>3 DEF Acts
    <2> QED BY <2>2, <2>4, <2>6, <2>7 DEF LoadingEnds
  <1> QED BY <1>1, <1>2

\* The page begins with a listing under way.
LEMMA InitLoading == Init => LoadingEnds
  <1> SUFFICES ASSUME Init PROVE LoadingEnds
    OBVIOUS
  <1> DEFINE none == [s \in Slots |-> NoRequest]
  <1>1. none \in [Slots -> Requests] /\ 1 \in FreeSlots(none)
    BY MaxRequestsAssumption DEF NoRequest, Requests, FreeSlots, Slots
  <1>2. PICK s \in FreeSlots(none) :
               requests = [none EXCEPT ![s] = Posted("list")]
    BY <1>1, SentShape DEF Init
  <1>3. s \in Slots /\ requests[s].kind = "list"
    BY <1>1, <1>2 DEF FreeSlots, Posted
  <1>4. view.resultShown = TRUE /\ (page = "flusher" => view.enabled)
    BY DEF Init, Loading, ArchiverLoading, FlusherLoading
  <1> QED BY <1>3, <1>4 DEF LoadingEnds, Listings

\* Events keep it so that what is hidden, disabled or spins has a request.
LEMMA NextLoading ==
  TypeOK /\ LoadingEnds /\ [Next]_vars => LoadingEnds'
  <1> SUFFICES ASSUME TypeOK, LoadingEnds, [Next]_vars PROVE LoadingEnds'
    OBVIOUS
  <1> USE DEF Listings, Acts
  <1>1. ASSUME NEW c \in Criteria \cup {Invalid}, Edit(c) PROVE LoadingEnds'
    BY <1>1 DEF Edit, LoadingEnds
  <1>2. CASE Change
    BY <1>2 DEF Change, LoadingEnds, ToSearch, ArchiverToSearch,
                FlusherToSearch, TypeOK, Views
  <1>3. CASE Enter
    <2> DEFINE v == ToSearch(view)
    <2>1. /\ v \in Views /\ v.button = "search"
          /\ v.listShown = view.listShown /\ v.resultShown = view.resultShown
          /\ v.enabled = view.enabled /\ v.listSpins = view.listSpins
          /\ v.resultSpins = view.resultSpins
      BY DEF ToSearch, ArchiverToSearch, FlusherToSearch, TypeOK, Views
    <2>2. requests \in [Slots -> Requests]
      BY DEF TypeOK
    <2>3. Room(requests) /\ PostListing(requests, v) /\ page' = page
      BY <1>3 DEF Enter
    <2> HIDE DEF v
    <2> QED BY <2>1, <2>2, <2>3, PostListingLoads DEF LoadingEnds
  <1>4. CASE ClickSearch
    BY <1>4, PostListingLoads DEF ClickSearch, LoadingEnds, TypeOK
  <1>5. CASE ThawBuckets \/ FlushBuckets
    <2>1. FreeSlots(requests) # {} /\ requests' = Sent(requests, "act")
      BY <1>5 DEF ThawBuckets, FlushBuckets
    <2>2. PICK s \in FreeSlots(requests) :
                 requests' = [requests EXCEPT ![s] = Posted("act")]
      BY <2>1, SentShape
    <2>3. s \in Slots /\ requests[s].kind = "none" /\ requests'[s].kind = "act"
      BY <2>2 DEF FreeSlots, Posted, TypeOK
    <2>4. \A r \in Slots \ {s} : requests'[r] = requests[r]
      BY <2>2 DEF TypeOK
    <2>5. /\ view'.listShown = view.listShown /\ page' = page
          /\ page = "flusher" => view'.enabled = view.enabled
      BY <1>5 DEF ThawBuckets, FlushBuckets, Loading, ArchiverLoading,
                  FlusherLoading, TypeOK, Views
    <2> QED BY <2>3, <2>4, <2>5 DEF LoadingEnds
  <1>6. ASSUME NEW s \in Slots, Serve(s) PROVE LoadingEnds'
    <2>1. view' = view /\ page' = page
      BY <1>6 DEF Serve, ServeListing, ServeAction
    <2>2. \A r \in Slots : requests'[r].kind = requests[r].kind
      BY <1>6, ServedShape
    <2> QED BY <2>1, <2>2 DEF LoadingEnds
  <1>7. CASE LateFlush
    <2>1. \A r \in Slots : requests'[r].kind = requests[r].kind
      BY <1>7, AfterFlushShape DEF LateFlush, TypeOK
    <2> QED BY <1>7, <2>1 DEF LateFlush, LoadingEnds
  <1>8. /\ page = "archiver" => LoadingDone(view).enabled
        /\ ~LoadingDone(view).listSpins /\ ~LoadingDone(view).resultSpins
        /\ LoadingDone(view).resultShown = view.resultShown
        /\ view.listShown => LoadingDone(view).listShown
        /\ page = "flusher" => LoadingDone(view).enabled
    BY DEF LoadingDone, ArchiverLoadingDone, FlusherLoadingDone, TypeOK, Views,
           LoadingEnds
  <1>9. LoadingDone(ToAct(view)) = [LoadingDone(view) EXCEPT !.button = "act"]
    BY DEF LoadingDone, ArchiverLoadingDone, FlusherLoadingDone, TypeOK, Views,
           ToAct
  <1>10. LoadingDone(view) \in Views
    BY ViewTyping DEF TypeOK
  <1>11. ASSUME NEW s \in Slots, ListingDone(s) PROVE LoadingEnds'
    <2>1. requests[s].kind = "list" /\ requests' = Without(s) /\ page' = page
      BY <1>11 DEF ListingDone
    <2>2. \A r \in Slots : requests[r].kind = "act" =>
                            requests'[r].kind = "act"
      BY <2>1, WithoutShape
    <2>3. /\ view'.listShown /\ view'.enabled
          /\ ~view'.listSpins /\ ~view'.resultSpins
          /\ view'.resultShown = view.resultShown
      BY <1>8, <1>9, <1>10, <1>11 DEF ListingDone, TypeOK, Views
    <2> QED BY <2>1, <2>2, <2>3 DEF LoadingEnds
  <1>12. ASSUME NEW s \in Slots, ThawDone(s) PROVE LoadingEnds'
    <2>1. requests[s].kind = "act" /\ requests' = Without(s) /\ page' = page
      BY <1>12 DEF ThawDone
    <2>2. \A r \in Slots : requests[r].kind = "list" =>
                            requests'[r].kind = "list"
      BY <2>1, WithoutShape
    <2>3. /\ view'.resultShown /\ view'.enabled
          /\ ~view'.listSpins /\ ~view'.resultSpins
          /\ view.listShown => view'.listShown
      BY <1>8, <1>10, <1>12 DEF ThawDone, TypeOK, Views
    <2> QED BY <2>1, <2>2, <2>3 DEF LoadingEnds
  <1>13. ASSUME NEW s \in Slots, FlushDone(s) PROVE LoadingEnds'
    <2> DEFINE v == [LoadingDone(view) EXCEPT !.resultShown = TRUE]
    <2>1. page = "flusher" /\ page' = page /\ requests[s].kind = "act"
      BY <1>13 DEF FlushDone
    <2>2. /\ v \in Views /\ v.resultShown /\ v.enabled
          /\ ~v.listSpins /\ ~v.resultSpins
          /\ view.listShown => v.listShown
      BY <1>8, <1>10, <2>1 DEF Views, TypeOK
    <2>3. Without(s) \in [Slots -> Requests] /\ Room(Without(s))
      BY WithoutShape DEF Room
    <2>4. PostListing(Without(s), v)
      BY <1>13 DEF FlushDone
    <2>5. view.listShown \/ Listings(Without(s)) # {}
      BY <2>1, WithoutShape DEF LoadingEnds
    <2> HIDE DEF v
    <2> QED BY <2>1, <2>2, <2>3, <2>4, <2>5, PostListingLoads
  <1>14. CASE UNCHANGED vars
    BY <1>14 DEF vars, LoadingEnds
  <1> QED BY <1>1, <1>2, <1>3, <1>4, <1>5, <1>6, <1>7, <1>11, <1>12, <1>13,
             <1>14 DEF Next, User, Done

-----------------------------------------------------------------------------
(***************************************************************************)
(* The list and the form                                                   *)
(***************************************************************************)

\* A listing that is posted asks what the form has, and is the only one unless
\* listings overlap.
LEMMA PostListingFollows ==
  ASSUME NEW reqs \in [Slots -> Requests], NEW v \in Views,
         Room(reqs), PostListing(reqs, v), overlapped \in BOOLEAN,
         dirty' = dirty, form' = form, list' = list,
         v.button = "act" => view.button = "act",
         ListFollowsForm,
         \A s \in Slots : reqs[s].kind = "list" => reqs[s] = requests[s]
  PROVE  ListFollowsForm'
  <1>1. CASE form = Invalid
    BY <1>1 DEF PostListing, ListFollowsForm, Listings, Views
  <1>2. CASE form # Invalid
    <2>1. PICK s \in FreeSlots(reqs) :
                 requests' = [reqs EXCEPT ![s] = Posted("list")]
      BY <1>2, PostListingShape
    <2>2. overlapped' = (overlapped \/ Listings(reqs) # {})
      BY <1>2, PostListingShape
    <2>3. s \in Slots /\ requests'[s].of = form
      BY <2>1 DEF FreeSlots, Posted
    <2>4. \A r \in Slots \ {s} : requests'[r] = reqs[r]
      BY <2>1
    <2>5. ~overlapped' => Listings(requests)' \subseteq {s}
      BY <2>2, <2>4 DEF Listings
    <2>6. Loading(v).button = v.button
      BY DEF Loading, ArchiverLoading, FlusherLoading, Views
    <2>7. view'.button = v.button
      BY <1>2, <2>6, PostListingShape
    <2> QED BY <2>2, <2>3, <2>5, <2>7 DEF ListFollowsForm
  <1> QED BY <1>1, <1>2

\* A request that is no listing, or no request at all, does not matter.
LEMMA SameListings ==
  ASSUME ListFollowsForm,
         \A s \in Slots : requests'[s].kind = "list" =>
           requests[s].kind = "list" /\ requests'[s].of = requests[s].of,
         form' = form, dirty' = dirty, overlapped' = overlapped,
         view'.button = view.button, list'.of = list.of
  PROVE  ListFollowsForm'
  BY DEF ListFollowsForm, Listings

\* The page begins with one listing, of what its form has.
LEMMA InitFollows == Init => ListFollowsForm
  <1> SUFFICES ASSUME Init PROVE ListFollowsForm
    OBVIOUS
  <1> DEFINE none == [s \in Slots |-> NoRequest]
  <1>1. none \in [Slots -> Requests] /\ 1 \in FreeSlots(none)
    BY MaxRequestsAssumption DEF NoRequest, Requests, FreeSlots, Slots
  <1>2. PICK s \in FreeSlots(none) :
               requests = [none EXCEPT ![s] = Posted("list")]
    BY <1>1, SentShape DEF Init
  <1>3. Listings(requests) \subseteq {s} /\ requests[s].of = form
    BY <1>2 DEF Listings, FreeSlots, NoRequest, Posted
  <1>4. view.button = "search"
    BY DEF Init, Loading, ArchiverLoading, FlusherLoading
  <1> QED BY <1>3, <1>4 DEF ListFollowsForm

\* Events keep the list to the form, until it is edited or listings overlap.
LEMMA NextFollows ==
  TypeOK /\ ListFollowsForm /\ [Next]_vars => ListFollowsForm'
  <1> SUFFICES ASSUME TypeOK, ListFollowsForm, [Next]_vars
               PROVE  ListFollowsForm'
    OBVIOUS
  <1>1. ASSUME NEW c \in Criteria \cup {Invalid}, Edit(c)
        PROVE  ListFollowsForm'
    BY <1>1 DEF Edit, ListFollowsForm, Listings
  <1>2. CASE Change
    <2>1. view'.button = "search" /\ requests' = requests
      BY <1>2 DEF Change, ToSearch, ArchiverToSearch, FlusherToSearch, TypeOK,
                  Views
    <2>2. overlapped' = (overlapped \/ Listings(requests) # {})
      BY <1>2 DEF Change
    <2> QED BY <2>1, <2>2 DEF ListFollowsForm, Listings
  <1>3. ToSearch(view) \in Views /\ ToSearch(view).button = "search"
    BY ViewTyping DEF ToSearch, ArchiverToSearch, FlusherToSearch, TypeOK, Views
  <1>4. CASE Enter
    BY <1>3, <1>4, PostListingFollows DEF Enter, TypeOK
  <1>5. CASE ClickSearch
    <2>1. /\ Room(requests) /\ PostListing(requests, view)
          /\ dirty' = dirty /\ form' = form /\ list' = list
      BY <1>5 DEF ClickSearch
    <2>2. requests \in [Slots -> Requests] /\ view \in Views
      BY DEF TypeOK
    <2> QED BY <2>1, <2>2, PostListingFollows DEF TypeOK
  <1>6. CASE ThawBuckets \/ FlushBuckets
    <2>1. PICK s \in FreeSlots(requests) :
                 requests' = [requests EXCEPT ![s] = Posted("act")]
      BY <1>6, SentShape DEF ThawBuckets, FlushBuckets
    <2>2. \A r \in Slots : requests'[r].kind = "list" =>
            requests[r].kind = "list" /\ requests'[r].of = requests[r].of
      BY <2>1 DEF FreeSlots, Posted, TypeOK
    <2>3. view'.button = view.button
      BY <1>6 DEF ThawBuckets, FlushBuckets, Loading, ArchiverLoading,
                  FlusherLoading, TypeOK, Views
    <2> QED BY <1>6, <2>2, <2>3, SameListings DEF ThawBuckets, FlushBuckets
  <1>7. ASSUME NEW s \in Slots, Serve(s) PROVE ListFollowsForm'
    <2>1. /\ view' = view /\ form' = form /\ dirty' = dirty
          /\ overlapped' = overlapped /\ list'.of = list.of
      BY <1>7 DEF Serve, ServeListing, ServeAction, TypeOK
    <2> QED BY <1>7, <2>1, ServedShape, SameListings
  <1>8. CASE LateFlush
    <2>1. list'.of = list.of
      BY <1>8 DEF LateFlush, TypeOK
    <2> QED BY <1>8, <2>1, AfterFlushShape, SameListings DEF LateFlush, TypeOK
  <1>9. /\ LoadingDone(ToAct(view)).button = "act"
        /\ LoadingDone(view).button = view.button
        /\ LoadingDone(view) \in Views /\ LoadingDone(ToAct(view)) \in Views
    <2>1. ToAct(view) \in Views /\ ToAct(view).button = "act"
      BY DEF TypeOK, Views, ToAct
    <2>2. ASSUME NEW v \in Views PROVE LoadingDone(v).button = v.button
      BY DEF LoadingDone, ArchiverLoadingDone, FlusherLoadingDone, Views
    <2> QED BY <2>1, <2>2, ViewTyping DEF TypeOK
  <1>10. ASSUME NEW s \in Slots, ListingDone(s) PROVE ListFollowsForm'
    <2>1. /\ requests[s].kind = "list" /\ requests' = Without(s)
          /\ form' = form /\ dirty' = dirty
      BY <1>10 DEF ListingDone
    <2>2. Listings(requests)' = Listings(requests) \ {s}
      BY <2>1, WithoutShape DEF Listings
    <2>3. \A r \in Listings(requests)' : requests'[r] = requests[r]
      BY <2>1, <2>2, WithoutShape DEF Listings
    <2>4. CASE requests[s].answer = "page"
      <3>1. view'.button = "act" /\ list'.of = requests[s].of
        BY <1>9, <1>10, <2>4 DEF ListingDone, Views
      <3>2. overlapped' = (overlapped /\ ~(/\ requests[s].of = form
                                           /\ ~requests[s].stale
                                           /\ Listings(requests) = {s}))
        BY <1>10, <2>4 DEF ListingDone
      <3>3. CASE overlapped /\ ~overlapped'
        BY <2>1, <2>2, <3>1, <3>2, <3>3 DEF ListFollowsForm
      <3>4. CASE ~overlapped
        BY <2>1, <2>2, <2>3, <3>1, <3>4 DEF ListFollowsForm, Listings
      <3> QED BY <3>2, <3>3, <3>4 DEF ListFollowsForm
    <2>5. CASE requests[s].answer # "page"
      <3>1. /\ view'.button = view.button /\ list' = list
            /\ overlapped' = overlapped
        BY <1>9, <1>10, <2>5 DEF ListingDone, Views
      <3> QED BY <2>1, <2>2, <2>3, <3>1 DEF ListFollowsForm
    <2> QED BY <2>4, <2>5
  <1>11. ASSUME NEW s \in Slots, ThawDone(s) PROVE ListFollowsForm'
    <2>1. view'.button = view.button
      BY <1>9, <1>11 DEF ThawDone, Views
    <2> QED BY <1>11, <2>1, WithoutShape, SameListings DEF ThawDone
  <1>12. ASSUME NEW s \in Slots, FlushDone(s) PROVE ListFollowsForm'
    <2> DEFINE v == [LoadingDone(view) EXCEPT !.resultShown = TRUE]
    <2>1. v \in Views /\ v.button = view.button
      BY <1>9 DEF Views
    <2>2. /\ PostListing(Without(s), v) /\ form' = form /\ dirty' = dirty
          /\ list' = list
      BY <1>12 DEF FlushDone
    <2>3. /\ Without(s) \in [Slots -> Requests] /\ Room(Without(s))
          /\ \A r \in Slots : Without(s)[r].kind = "list" =>
                                 Without(s)[r] = requests[r]
      BY WithoutShape DEF Room
    <2> HIDE DEF v
    <2> QED BY <2>1, <2>2, <2>3, PostListingFollows DEF TypeOK
  <1>13. CASE UNCHANGED vars
    BY <1>13 DEF vars, ListFollowsForm, Listings
  <1> QED BY <1>1, <1>2, <1>4, <1>5, <1>6, <1>7, <1>8, <1>10, <1>11, <1>12,
             <1>13 DEF Next, User, Done

-----------------------------------------------------------------------------
(***************************************************************************)
(* The list after a flush                                                  *)
(***************************************************************************)

\* Nothing has become stale, and what was to replace it still is.
LEMMA SameStaleness ==
  ASSUME StaleListIsReplaced,
         page' = page, ~missed' => ~missed, ~overlapped' => ~overlapped,
         list'.stale => list.stale,
         \A s \in Slots : requests'[s].kind = "list" /\ requests'[s].stale =>
           requests[s].kind = "list" /\ requests[s].stale,
         \A s \in Slots : requests[s].kind = "act" /\ requests[s].answer # "none" =>
           requests'[s].kind = "act" /\ requests'[s].answer # "none",
         \A s \in Slots : requests[s].kind = "list" /\ ~requests[s].stale =>
           requests'[s].kind = "list" /\ ~requests'[s].stale
  PROVE  StaleListIsReplaced'
  BY DEF StaleListIsReplaced, Listings

\* A listing that is begun replaces what there was.
LEMMA PostListingReplaces ==
  ASSUME StaleListIsReplaced, NEW reqs \in [Slots -> Requests], NEW v,
         form # Invalid, Room(reqs), PostListing(reqs, v)
  PROVE  StaleListIsReplaced'
  <1>1. PICK s \in FreeSlots(reqs) :
               requests' = [reqs EXCEPT ![s] = Posted("list")]
    BY PostListingShape
  <1>2. s \in Slots /\ requests'[s].kind = "list" /\ ~requests'[s].stale
    BY <1>1 DEF FreeSlots, Posted
  <1> QED BY <1>2 DEF StaleListIsReplaced

\* The page begins with nothing flushed.
LEMMA InitStale == Init => StaleListIsReplaced
  <1> SUFFICES ASSUME Init PROVE StaleListIsReplaced
    OBVIOUS
  <1> DEFINE none == [s \in Slots |-> NoRequest]
  <1>1. none \in [Slots -> Requests] /\ 1 \in FreeSlots(none)
    BY MaxRequestsAssumption DEF NoRequest, Requests, FreeSlots, Slots
  <1>2. PICK s \in FreeSlots(none) :
               requests = [none EXCEPT ![s] = Posted("list")]
    BY <1>1, SentShape DEF Init
  <1>3. s \in Slots /\ requests[s].kind = "list" /\ ~requests[s].stale
    BY <1>2 DEF FreeSlots, Posted
  <1> QED BY <1>3 DEF StaleListIsReplaced

\* Events keep a list with flushed buckets followed by a newer one.
LEMMA NextStale ==
  TypeOK /\ ListFollowsForm /\ StaleListIsReplaced /\ [Next]_vars
    => StaleListIsReplaced'
  <1> SUFFICES ASSUME TypeOK, ListFollowsForm, StaleListIsReplaced, [Next]_vars
               PROVE  StaleListIsReplaced'
    OBVIOUS
  <1>1. ASSUME NEW c \in Criteria \cup {Invalid}, Edit(c)
        PROVE  StaleListIsReplaced'
    BY <1>1, SameStaleness DEF Edit
  <1>2. CASE Change
    BY <1>2, SameStaleness DEF Change
  <1>3. CASE Enter \/ ClickSearch
    <2>1. PICK v : PostListing(requests, v)
      BY <1>3 DEF Enter, ClickSearch
    <2>2. Room(requests) /\ page' = page /\ list' = list /\ missed' = missed
      BY <1>3 DEF Enter, ClickSearch
    <2>3. CASE form = Invalid
      BY <2>1, <2>2, <2>3, SameStaleness DEF PostListing
    <2>4. CASE form # Invalid
      BY <2>1, <2>2, <2>4, PostListingReplaces DEF TypeOK
    <2> QED BY <2>3, <2>4
  <1>4. CASE ThawBuckets \/ FlushBuckets
    <2>1. PICK s \in FreeSlots(requests) :
                 requests' = [requests EXCEPT ![s] = Posted("act")]
      BY <1>4, SentShape DEF ThawBuckets, FlushBuckets
    <2>2. s \in Slots /\ requests[s].kind = "none" /\ requests'[s].kind = "act"
      BY <2>1 DEF FreeSlots, Posted, TypeOK
    <2>3. \A r \in Slots \ {s} : requests'[r] = requests[r]
      BY <2>1 DEF TypeOK
    <2> QED BY <1>4, <2>2, <2>3, SameStaleness DEF ThawBuckets, FlushBuckets
  <1>5. ASSUME NEW s \in Slots, ServeListing(s) PROVE StaleListIsReplaced'
    <2>1. PICK a \in {"page", "failure"} :
                 requests' = [requests EXCEPT ![s].answer = a]
      BY <1>5 DEF ServeListing, Answered
    <2>2. \A r \in Slots : requests'[r].stale = requests[r].stale
      BY <2>1 DEF TypeOK, Requests
    <2>4. \A r \in Slots :
            /\ requests'[r].kind = requests[r].kind
            /\ requests[r].kind = "act" =>
                 requests'[r].answer = requests[r].answer
      BY <1>5, ServedShape DEF Serve, ServeListing
    <2>5. \A r \in Slots : requests'[r].stale => requests[r].stale
      BY <2>2
    <2>6. \A r \in Slots : ~requests[r].stale => ~requests'[r].stale
      BY <2>2
    <2>3. /\ page' = page /\ missed' = missed /\ overlapped' = overlapped
          /\ list' = list
      BY <1>5 DEF ServeListing
    <2> QED BY <2>3, <2>4, <2>5, <2>6, SameStaleness
  <1>6. ASSUME NEW s \in Slots, ServeAction(s) PROVE StaleListIsReplaced'
    <2>1. /\ requests[s].kind = "act"
          /\ requests'[s].kind = "act" /\ requests'[s].answer # "none"
      BY <1>6, ServedShape DEF Serve, ServeAction
    <2> QED BY <2>1 DEF StaleListIsReplaced
  <1>7. CASE LateFlush
    BY <1>7 DEF LateFlush, StaleListIsReplaced
  <1>8. ASSUME NEW s \in Slots, ListingDone(s) PROVE StaleListIsReplaced'
    <2>1. /\ requests[s].kind = "list" /\ requests' = Without(s)
          /\ page' = page
      BY <1>8 DEF ListingDone
    <2>2. \A r \in Slots \ {s} : requests'[r] = requests[r]
      BY <2>1, WithoutShape
    <2>3. requests'[s].kind = "none"
      BY <2>1, WithoutShape
    <2>4. CASE requests[s].answer # "page"
      BY <1>8, <2>4 DEF ListingDone, StaleListIsReplaced
    <2>5. CASE requests[s].answer = "page"
      <3> SUFFICES ASSUME page = "flusher", ~missed', ~overlapped',
                          \/ list'.stale
                          \/ \E r \in Listings(requests)' : requests'[r].stale
                   PROVE  \E r \in Slots : /\ requests'[r].kind = "act"
                                           /\ requests'[r].answer # "none"
        BY <2>1 DEF StaleListIsReplaced
      <3>1. /\ list'.stale = requests[s].stale
            /\ missed' = (missed /\ requests[s].stale)
            /\ overlapped' = (overlapped /\ ~(/\ requests[s].of = form
                                              /\ ~requests[s].stale
                                              /\ Listings(requests) = {s}))
        BY <1>8, <2>5 DEF ListingDone
      <3>2. Listings(requests) = {s}
        BY <2>1, <3>1 DEF ListFollowsForm, Listings
      <3>3. Listings(requests)' = {}
        BY <2>2, <2>3, <3>2 DEF Listings
      <3>4. requests[s].stale /\ ~missed /\ ~overlapped
        BY <3>1, <3>3
      <3>5. PICK r \in Slots :
              \/ requests[r].kind = "act" /\ requests[r].answer # "none"
              \/ requests[r].kind = "list" /\ ~requests[r].stale
        BY <3>2, <3>4 DEF StaleListIsReplaced
      <3>6. requests[r].kind = "act" /\ requests[r].answer # "none" /\ r # s
        BY <2>1, <3>2, <3>4, <3>5 DEF Listings
      <3> QED BY <2>2, <3>6
    <2> QED BY <2>4, <2>5
  <1>9. ASSUME NEW s \in Slots, ThawDone(s) PROVE StaleListIsReplaced'
    BY <1>9 DEF ThawDone, StaleListIsReplaced
  <1>10. ASSUME NEW s \in Slots, FlushDone(s) PROVE StaleListIsReplaced'
    <2>1. CASE form = Invalid
      BY <1>10, <2>1 DEF FlushDone, StaleListIsReplaced
    <2>2. CASE form # Invalid
      <3>1. PICK v : PostListing(Without(s), v)
        BY <1>10 DEF FlushDone
      <3>2. Without(s) \in [Slots -> Requests] /\ Room(Without(s))
        BY WithoutShape DEF Room
      <3> QED BY <2>2, <3>1, <3>2, PostListingReplaces
    <2> QED BY <2>1, <2>2
  <1>11. CASE UNCHANGED vars
    BY <1>11 DEF vars, StaleListIsReplaced, Listings
  <1> QED BY <1>1, <1>2, <1>3, <1>4, <1>5, <1>6, <1>7, <1>8, <1>9, <1>10,
             <1>11 DEF Next, User, Serve, Done

-----------------------------------------------------------------------------
(***************************************************************************)
(* Theorems                                                                *)
(***************************************************************************)

\* The whole invariant.
LEMMA Invariance == Spec => []IInv
  <1>1. Init => IInv
    BY InitTyping, InitLoading, InitFollows, InitStale DEF IInv
  <1>2. IInv /\ [Next]_vars => IInv'
    BY NextTyping, NextLoading, NextFollows, NextStale DEF IInv
  <1> QED BY <1>1, <1>2, PTL DEF Spec

\* However many requests there are, and whichever is answered first, a page
\* with nothing under way can be used (archiver.js:195-214).
THEOREM QuietPagesAreUsable == Spec => []QuietPageIsUsable
  <1>1. IInv => QuietPageIsUsable
    <2> SUFFICES ASSUME IInv, Quiet PROVE QuietPageIsUsable
      BY DEF QuietPageIsUsable
    <2>1. \A s \in Slots : requests[s].kind = "none"
      BY DEF Quiet, FreeSlots
    <2> QED BY <2>1 DEF IInv, LoadingEnds, Listings, Acts, QuietPageIsUsable
  <1> QED BY <1>1, Invariance, PTL

\* Buckets that were flushed are not listed as thawed when nothing is under way
\* any more (flusher.js:147-152).
THEOREM PagesForgetFlushedBuckets == Spec => []FlushedBucketsGo
  <1>1. IInv => FlushedBucketsGo
    <2> SUFFICES ASSUME IInv, page = "flusher", Quiet, ~missed, ~overlapped
                 PROVE  ~list.stale
      BY DEF FlushedBucketsGo
    <2>1. \A s \in Slots : requests[s].kind = "none"
      BY DEF Quiet, FreeSlots
    <2> QED BY <2>1 DEF IInv, StaleListIsReplaced
  <1> QED BY <1>1, Invariance, PTL

\* No step posts a thaw or a flush of other criteria than the list's, unless
\* listings overlapped (archiver.js:72, :131-134).
THEOREM PagesActOnWhatTheyShow == Spec => ActsOnWhatItShows
  <1> DEFINE Acting ==
        \A s \in Slots :
          requests'[s].kind = "act" /\ requests[s].kind = "none" /\ ~overlapped
            => requests'[s].of = list.of
  <1>1. IInv /\ [Next]_vars => [Acting]_vars
    <2> SUFFICES ASSUME IInv, [Next]_vars, NEW s \in Slots,
                        requests'[s].kind = "act", requests[s].kind = "none",
                        ~overlapped
                 PROVE  requests'[s].of = list.of
      OBVIOUS
    <2>1. CASE ThawBuckets \/ FlushBuckets
      <3>1. PICK r \in FreeSlots(requests) :
                   requests' = [requests EXCEPT ![r] = Posted("act")]
        BY <2>1, SentShape DEF ThawBuckets, FlushBuckets
      <3>2. r = s /\ requests'[s].of = form
        BY <3>1 DEF IInv, TypeOK, Posted, FreeSlots
      <3>3. ~dirty /\ view.button = "act"
        BY <2>1 DEF ThawBuckets, FlushBuckets
      <3> QED BY <3>2, <3>3 DEF IInv, ListFollowsForm
    <2>2. ASSUME NEW reqs \in [Slots -> Requests], NEW v, PostListing(reqs, v),
                 Room(reqs), reqs[s].kind = "none"
          PROVE  FALSE
      <3>1. CASE form = Invalid
        BY <2>2, <3>1 DEF PostListing
      <3>2. CASE form # Invalid
        BY <2>2, <3>2, PostListingShape DEF Posted
      <3> QED BY <3>1, <3>2
    <2>3. CASE Enter \/ ClickSearch
      BY <2>2, <2>3 DEF Enter, ClickSearch, IInv, TypeOK
    <2>4. ASSUME NEW r \in Slots, FlushDone(r) PROVE FALSE
      BY <2>2, <2>4, WithoutShape DEF FlushDone, IInv, Room
    <2>5. ASSUME NEW r \in Slots, Serve(r) PROVE FALSE
      BY <2>5, ServedShape DEF IInv
    <2>6. CASE LateFlush
      BY <2>6, AfterFlushShape DEF LateFlush, IInv, TypeOK
    <2>7. ASSUME NEW r \in Slots, ListingDone(r) \/ ThawDone(r) PROVE FALSE
      BY <2>7, WithoutShape DEF ListingDone, ThawDone, IInv
    <2> QED BY <2>1, <2>3, <2>4, <2>5, <2>6, <2>7
            DEF Next, User, Done, Edit, Change, vars
  <1> QED BY <1>1, Invariance, PTL DEF Spec, ActsOnWhatItShows
=============================================================================
