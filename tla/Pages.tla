------------------------------- MODULE Pages -------------------------------
(***************************************************************************)
(* A page of Shuttl's app in a browser: the archiver, which lists archived  *)
(* buckets and thaws them (archiver.js), or the flusher, which lists thawed *)
(* buckets and flushes them (flusher.js).  One button is first "search",    *)
(* then "thaw" or "flush"; both requests send what is in the form when they *)
(* are posted; answers come in any order.  The controller (Archiving.py)    *)
(* asks the Shuttl server and renders what it answers.                      *)
(***************************************************************************)
EXTENDS Naturals

CONSTANTS
  Criteria,    \* an index and a time range, as the form has them
  AllBuckets,  \* those of the empty form
  Invalid,     \* a form that the validator refuses
  NoCriteria,
  MaxRequests  \* how many requests are under way at a time, at most

ASSUME CriteriaAssumption ==
  AllBuckets \in Criteria /\ Invalid \notin Criteria /\ NoCriteria \notin Criteria
ASSUME MaxRequestsAssumption == MaxRequests \in Nat \ {0}

VARIABLES
  page,        \* which of the two pages it is
  form,        \* the criteria in the form
  dirty,       \* a field was edited and has not lost the focus yet
  view,        \* the button, and what is shown and hidden
  list,        \* what the list on the page is of, and whether buckets in it
               \*   have been flushed since it was made
  requests,    \* what is under way
  late,        \* the server goes on with a flush after its caller gave up
  overlapped,  \* history: the form was changed, or another listing begun,
               \*   while one was under way
  missed       \* history: no listing came after a flush

vars == <<page, form, dirty, view, list, requests, late, overlapped, missed>>

Slots == 1..MaxRequests

NoRequest ==
  [kind |-> "none", of |-> NoCriteria, answer |-> "none", stale |-> FALSE]

Requests ==
  [kind : {"none", "list", "act"}, of : Criteria \cup {NoCriteria},
   answer : {"none", "page", "failure"}, stale : BOOLEAN]

Views ==
  [button : {"search", "act"}, enabled : BOOLEAN, listShown : BOOLEAN,
   listSpins : BOOLEAN, resultPage : BOOLEAN, resultShown : BOOLEAN,
   resultSpins : BOOLEAN]

TypeOK ==
  /\ page \in {"archiver", "flusher"}
  /\ form \in Criteria \cup {Invalid}
  /\ dirty \in BOOLEAN
  /\ view \in Views
  /\ list \in [of : Criteria \cup {NoCriteria}, stale : BOOLEAN]
  /\ requests \in [Slots -> Requests]
  /\ late \in BOOLEAN /\ overlapped \in BOOLEAN /\ missed \in BOOLEAN

-----------------------------------------------------------------------------
(***************************************************************************)
(* What the scripts do to the page                                         *)
(***************************************************************************)

\* The flusher's loading and loadingDone look for #flush-button, and the page
\* has no such element: its button is never disabled, and nothing is hidden.
ArchiverLoading(v) ==
  IF v.button = "search"
  THEN [v EXCEPT !.enabled = FALSE, !.listShown = FALSE, !.listSpins = TRUE]
  ELSE [v EXCEPT !.enabled = FALSE, !.resultPage = TRUE,
                 !.resultShown = FALSE, !.resultSpins = TRUE]
FlusherLoading(v) == v
Loading(v) == IF page = "archiver" THEN ArchiverLoading(v) ELSE FlusherLoading(v)

\* Mutant: loading ends with the last of the requests.
LastRequestEnds(v) ==
  IF \E s \in Slots : \A r \in Slots \ {s} : requests[r] = NoRequest
  THEN [v EXCEPT !.enabled = TRUE, !.listSpins = FALSE, !.resultSpins = FALSE]
  ELSE v

\* All spinners go, whichever request is done.
ArchiverLoadingDone(v) ==
  [v EXCEPT !.enabled = TRUE, !.listSpins = FALSE, !.resultSpins = FALSE]
FlusherLoadingDone(v) ==
  [v EXCEPT !.listSpins = FALSE, !.resultSpins = FALSE, !.listShown = TRUE]
LoadingDone(v) ==
  IF page = "archiver" THEN ArchiverLoadingDone(v) ELSE FlusherLoadingDone(v)

ArchiverToSearch(v) == [v EXCEPT !.button = "search"]
FlusherToSearch(v) == [v EXCEPT !.button = "search", !.resultPage = FALSE]
ToSearch(v) ==
  IF page = "archiver" THEN ArchiverToSearch(v) ELSE FlusherToSearch(v)

ToAct(v) == [v EXCEPT !.button = "act"]

-----------------------------------------------------------------------------
(***************************************************************************)
(* Requests                                                                *)
(***************************************************************************)

FreeSlots(reqs) == {s \in Slots : reqs[s].kind = "none"}
Listings(reqs)  == {s \in Slots : reqs[s].kind = "list"}
Quiet == FreeSlots(requests) = Slots

\* $.ajax with what the form has now.
Sent(reqs, kind) ==
  [reqs EXCEPT ![CHOOSE s \in FreeSlots(reqs) : TRUE] =
     [kind |-> kind, of |-> form, answer |-> "none", stale |-> FALSE]]

\* Only a bound: the form is valid, so there will be a request.
Room(reqs) == form # Invalid => FreeSlots(reqs) # {}

\* Mutant: the form is not validated.
PostListingUnchecked(reqs, v) ==
  /\ requests' = Sent(reqs, "list")
  /\ view' = Loading(v)
  /\ overlapped' = (overlapped \/ Listings(reqs) # {})

\* listBucketsPOST and listThawedPOST, on a page that looks like v.
PostListing(reqs, v) ==
  IF form = Invalid
  THEN requests' = reqs /\ view' = v /\ UNCHANGED overlapped
  ELSE /\ requests' = Sent(reqs, "list")
       /\ view' = Loading(v)
       /\ overlapped' = (overlapped \/ Listings(reqs) # {})

-----------------------------------------------------------------------------
(***************************************************************************)
(* The user                                                                *)
(***************************************************************************)

\* A field is edited.  Its change event comes when it loses the focus, or when
\* Enter is pressed in it, and in any case before a click on the button.
Edit(c) ==
  /\ c # form
  /\ form' = c
  /\ dirty' = TRUE
  /\ UNCHANGED <<page, view, list, requests, late, overlapped, missed>>

\* Mutant: the button stays what it was.
ChangeEnables ==
  /\ dirty
  /\ dirty' = FALSE
  /\ view' = [view EXCEPT !.enabled = TRUE]
  /\ overlapped' = (overlapped \/ Listings(requests) # {})
  /\ UNCHANGED <<page, form, list, requests, late, missed>>

\* The form's change handler: search again, even while a request is under way.
Change ==
  /\ dirty
  /\ dirty' = FALSE
  /\ view' = ToSearch([view EXCEPT !.enabled = TRUE])
  /\ overlapped' = (overlapped \/ Listings(requests) # {})
  /\ UNCHANGED <<page, form, list, requests, late, missed>>

\* The keyup handler of Enter, on any input.
Enter ==
  /\ ~dirty
  /\ Room(requests)
  /\ PostListing(requests, ToSearch(view))
  /\ UNCHANGED <<page, form, dirty, list, late, missed>>

\* A click on an enabled button that is a search.
ClickSearch ==
  /\ ~dirty
  /\ view.enabled /\ view.button = "search"
  /\ Room(requests)
  /\ PostListing(requests, view)
  /\ UNCHANGED <<page, form, dirty, list, late, missed>>

\* thawBucketsPOST ...
ThawBuckets ==
  /\ page = "archiver"
  /\ ~dirty
  /\ view.enabled /\ view.button = "act"
  /\ form # Invalid
  /\ FreeSlots(requests) # {}
  /\ requests' = Sent(requests, "act")
  /\ view' = Loading(view)
  /\ UNCHANGED <<page, form, dirty, list, late, overlapped, missed>>

\* ... and flushBucketsPOST.
FlushBuckets ==
  /\ page = "flusher"
  /\ ~dirty
  /\ view.enabled /\ view.button = "act"
  /\ form # Invalid
  /\ FreeSlots(requests) # {}
  /\ requests' = Sent(requests, "act")
  /\ view' = Loading([view EXCEPT !.resultPage = TRUE])
  /\ UNCHANGED <<page, form, dirty, list, late, overlapped, missed>>

-----------------------------------------------------------------------------
(***************************************************************************)
(* The controller and the server behind it                                 *)
(***************************************************************************)

Answered(s, a) ==
  /\ requests[s].kind # "none" /\ requests[s].answer = "none"
  /\ requests' = [requests EXCEPT ![s].answer = a]

\* Every list that was made before is wrong now.
AfterFlush(reqs) ==
  [s \in Slots |-> IF reqs[s].kind = "list" /\ reqs[s].answer = "page"
                   THEN [reqs[s] EXCEPT !.stale = TRUE] ELSE reqs[s]]

\* list_buckets and list_thawed: a page, which is an error's when the server
\* answers with another status than 200; an exception is a failure.
ServeListing(s) ==
  /\ requests[s].kind = "list"
  /\ \E a \in {"page", "failure"} : Answered(s, a)
  /\ UNCHANGED <<page, form, dirty, view, list, late, overlapped, missed>>

\* thaw and flush: the same; a call that takes too long is an exception too, and
\* the server goes on with it.
ServeAction(s) ==
  /\ requests[s].kind = "act"
  /\ \E a \in {"page", "failure"} :
       \/ /\ Answered(s, a)
          /\ late' = (late \/ (page = "flusher" /\ a = "failure"))
          /\ UNCHANGED list
       \/ /\ page = "flusher"
          /\ requests[s].answer = "none"
          /\ requests' = AfterFlush([requests EXCEPT ![s].answer = a])
          /\ list' = [list EXCEPT !.stale = TRUE]
          /\ UNCHANGED late
  /\ UNCHANGED <<page, form, dirty, view, overlapped, missed>>

LateFlush ==
  /\ late
  /\ late' = FALSE
  /\ requests' = AfterFlush(requests)
  /\ list' = [list EXCEPT !.stale = TRUE]
  /\ missed' = TRUE
  /\ UNCHANGED <<page, form, dirty, view, overlapped>>

-----------------------------------------------------------------------------
(***************************************************************************)
(* Answers in the browser: success or error, then complete                 *)
(***************************************************************************)

Without(s) == [requests EXCEPT ![s] = NoRequest]

\* Mutant: only a success ends the loading.
ListingDoneOnSuccess(s) ==
  /\ requests[s].kind = "list" /\ requests[s].answer # "none"
  /\ requests' = Without(s)
  /\ IF requests[s].answer = "page"
     THEN /\ view' = [LoadingDone(ToAct(view)) EXCEPT !.listShown = TRUE]
          /\ list' = [of |-> requests[s].of, stale |-> requests[s].stale]
          /\ overlapped' = (overlapped /\ ~(/\ requests[s].of = form
                                            /\ ~requests[s].stale
                                            /\ Listings(requests) = {s}))
          /\ missed' = (missed /\ requests[s].stale)
     ELSE /\ missed' = TRUE
          /\ UNCHANGED <<view, list, overlapped>>
  /\ UNCHANGED <<page, form, dirty, late>>

\* A page is shown, and the button turns into thaw or flush, whatever the form
\* has become; a failure leaves the list that was there.
ListingDone(s) ==
  /\ requests[s].kind = "list" /\ requests[s].answer # "none"
  /\ requests' = Without(s)
  /\ IF requests[s].answer = "page"
     THEN /\ view' = [LoadingDone(ToAct(view)) EXCEPT !.listShown = TRUE]
          /\ list' = [of |-> requests[s].of, stale |-> requests[s].stale]
          /\ overlapped' = (overlapped /\ ~(/\ requests[s].of = form
                                            /\ ~requests[s].stale
                                            /\ Listings(requests) = {s}))
          /\ missed' = (missed /\ requests[s].stale)
     ELSE /\ view' = [LoadingDone(view) EXCEPT !.listShown = TRUE]
          /\ missed' = TRUE
          /\ UNCHANGED <<list, overlapped>>
  /\ UNCHANGED <<page, form, dirty, late>>

ThawDone(s) ==
  /\ page = "archiver"
  /\ requests[s].kind = "act" /\ requests[s].answer # "none"
  /\ requests' = Without(s)
  /\ view' = [LoadingDone(view) EXCEPT !.resultShown = TRUE]
  /\ UNCHANGED <<page, form, dirty, list, late, overlapped, missed>>

\* Mutant: the thawed buckets are not listed again.
FlushDoneQuietly(s) ==
  /\ page = "flusher"
  /\ requests[s].kind = "act" /\ requests[s].answer # "none"
  /\ requests' = Without(s)
  /\ view' = [LoadingDone(view) EXCEPT !.resultShown = TRUE]
  /\ UNCHANGED <<page, form, dirty, list, late, overlapped, missed>>

\* The thawed buckets are listed again, unless the form has become invalid.
FlushDone(s) ==
  /\ page = "flusher"
  /\ requests[s].kind = "act" /\ requests[s].answer # "none"
  /\ PostListing(Without(s), [LoadingDone(view) EXCEPT !.resultShown = TRUE])
  /\ missed' = (missed \/ form = Invalid)
  /\ UNCHANGED <<page, form, dirty, list, late>>

-----------------------------------------------------------------------------

\* document.ready: everything is listed.
Init ==
  /\ page \in {"archiver", "flusher"}
  /\ form = AllBuckets
  /\ dirty = FALSE
  /\ view = Loading([button |-> "search", enabled |-> TRUE,
                     listShown |-> page = "archiver", listSpins |-> FALSE,
                     resultPage |-> FALSE, resultShown |-> TRUE,
                     resultSpins |-> FALSE])
  /\ list = [of |-> NoCriteria, stale |-> FALSE]
  /\ requests = Sent([s \in Slots |-> NoRequest], "list")
  /\ late = FALSE /\ overlapped = FALSE /\ missed = FALSE

User ==
  \/ \E c \in Criteria \cup {Invalid} : Edit(c)
  \/ Change \/ Enter \/ ClickSearch \/ ThawBuckets \/ FlushBuckets

Serve(s) == ServeListing(s) \/ ServeAction(s)
Done(s)  == ListingDone(s) \/ ThawDone(s) \/ FlushDone(s)

Next ==
  \/ User
  \/ \E s \in Slots : Serve(s) \/ Done(s)
  \/ LateFlush

Spec == Init /\ [][Next]_vars

\* Every request is answered, if only by the connection's end.
FairSpec == Spec /\ \A s \in Slots : WF_vars(Serve(s)) /\ WF_vars(Done(s))

-----------------------------------------------------------------------------
(***************************************************************************)
(* Properties                                                              *)
(***************************************************************************)

\* What is thawed or flushed is what the list on the page is of, though the
\* form, the list and the button change separately; unless the form changed or
\* another listing began while one was under way (archiver.js:72, :131-134).
ActsOnWhatItShows ==
  [][\A s \in Slots :
       requests'[s].kind = "act" /\ requests[s].kind = "none" /\ ~overlapped
         => requests'[s].of = list.of]_vars

\* When nothing is under way the button can be clicked, no spinner turns, and
\* the list and the last result are visible, whichever of several requests was
\* answered first and whatever failed (archiver.js:195-214).
QuietPageIsUsable ==
  Quiet => /\ view.enabled
           /\ view.listShown /\ view.resultShown
           /\ ~view.listSpins /\ ~view.resultSpins

\* When nothing is under way, buckets that were flushed are not listed as thawed,
\* unless the listing after it failed, the form was invalid then, the flush
\* outlived its request, or listings overlapped (flusher.js:147-152).
FlushedBucketsGo ==
  page = "flusher" /\ Quiet /\ ~missed /\ ~overlapped => ~list.stale

\* However often the user presses Enter, and whatever fails, the button can be
\* clicked again and again (archiver.js:209-214).
UsableAgain == []<>(view.enabled /\ ~view.listSpins /\ ~view.resultSpins)
=============================================================================
