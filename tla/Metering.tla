------------------------------ MODULE Metering ------------------------------
(***************************************************************************)
(* The listings of one job (aws.py): paginate follows the tokens of a      *)
(* listing, and every page is asked for through the job's Meter, which     *)
(* counts requests, stops at a limit and retries a throttled call.         *)
(***************************************************************************)
EXTENDS Naturals, Sequences, FiniteSets

CONSTANTS
    MaxToken,       \* bound: pagination tokens AWS hands out for a listing, 1..MaxToken
    Limits,         \* limits a Meter is made with; 0 is no limit
    Retries,        \* AWS_THROTTLE_RETRIES
    PageLimit,      \* MAX_PAGES_PER_REQUEST
    MaxListings     \* bound: listings of the job

MeteringAssumption ==
    PageLimit \in Nat \ {0} /\ {MaxToken, Retries, MaxListings} \cup Limits \subseteq Nat

\* A page is named by the token it is asked for with, the first by 0, which no page returns:
\* a token of 0 is no token.  Tokens are numbered in the order in which pages return them;
\* the last page of a listing returns none, or `back`, one that was returned before.
Tokens == 1..MaxToken
Pages == Tokens \cup {0}
Listings == {l \in [last : Pages, back : Pages, blank : SUBSET Pages] :
                /\ l.back <= l.last /\ l.blank \subseteq 0..l.last}
Outcomes == {"none", "items", "budget", "refused", "repeated", "too long"}

VARIABLES
    limit, requests,    \* the Meter of the job
    listing,            \* the listing AWS holds; blank: its pages without items
    call,               \* the page asked for, and the throttled attempts at it
    seen, items,        \* what paginate has collected
    outcome,            \* how the last listing ended; "none" while one runs
    listings

meter == <<limit, requests>>
vars == <<meter, listing, call, seen, items, outcome, listings>>

Steps == {"enter", "sent"}

TypeOK ==
    /\ limit \in Limits /\ requests \in Nat
    /\ listing \in Listings
    /\ call \in [step : Steps, page : Pages, attempts : 0..Retries]
    /\ seen \subseteq Tokens /\ items \in Seq(Pages)
    /\ outcome \in Outcomes /\ listings \in 0..MaxListings

Init ==
    /\ limit \in Limits /\ requests = 0
    /\ listing = [last |-> 0, back |-> 0, blank |-> {}]
    /\ call = [step |-> "enter", page |-> 0, attempts |-> 0]
    /\ seen = {} /\ items = <<>> /\ outcome = "items" /\ listings = 0

Running == outcome = "none"
Token(page) == IF page < listing.last THEN page + 1 ELSE listing.back
AtLimit(n) == limit > 0 /\ n >= limit

-----------------------------------------------------------------------------
\* A job lists something: accounts, dimension values, cost allocation tags, budgets.
Paginate ==
    /\ ~Running /\ listings < MaxListings
    /\ listing' \in Listings
    /\ call' = [step |-> "enter", page |-> 0, attempts |-> 0]
    /\ seen' = {} /\ items' = <<>> /\ outcome' = "none" /\ listings' = listings + 1
    /\ UNCHANGED meter

\* The listing ends with an exception.
Raise(reason) == outcome' = reason /\ UNCHANGED <<call, seen, items>>

\* Meter.call is entered for the next page.
Enter ==
    /\ Running /\ call.step = "enter"
    /\ IF AtLimit(requests)
         THEN Raise("budget")
         ELSE call' = [call EXCEPT !.step = "sent"] /\ UNCHANGED <<seen, items, outcome>>
    /\ UNCHANGED <<meter, listing, listings>>

\* The request for a page is sent and counted, whatever becomes of it.
Send == Running /\ call.step = "sent" /\ requests' = requests + 1

\* What paginate does with a page.
Follow(next) ==
    IF next = 0 THEN outcome' = "items" /\ UNCHANGED <<call, seen>>
    ELSE IF next \in seen THEN outcome' = "repeated" /\ UNCHANGED <<call, seen>>
    ELSE /\ seen' = seen \cup {next}
         /\ call' = [step |-> "enter", page |-> next, attempts |-> 0]
         /\ outcome' = IF Cardinality(seen') = PageLimit THEN "too long" ELSE "none"

Answered ==
    /\ Send
    /\ items' = IF call.page \in listing.blank THEN items ELSE Append(items, call.page)
    /\ Follow(Token(call.page))
    /\ UNCHANGED <<limit, listing, listings>>

\* AWS answers with an error: a throttled call is repeated after a pause.
Failed(throttled) ==
    /\ Send
    /\ IF AtLimit(requests') THEN Raise("budget")
       ELSE IF throttled /\ call.attempts < Retries
         THEN call' = [call EXCEPT !.attempts = @ + 1] /\ UNCHANGED <<seen, items, outcome>>
         ELSE Raise("refused")
    /\ UNCHANGED <<limit, listing, listings>>

Next == Paginate \/ Enter \/ Answered \/ Failed(TRUE) \/ Failed(FALSE)

Spec == Init /\ [][Next]_vars

-----------------------------------------------------------------------------
\* A listing that is returned has the items of every page once, those behind a page without
\* items too; one that is given up for its tokens has no last page, one given up for its
\* length has more pages than the limit (paginate).  What discovery does not find in a
\* listing it takes for gone, so a listing cut short would drop accounts.
ListingsAreWhole ==
    /\ outcome = "items" /\ listings > 0 =>
         /\ {items[i] : i \in DOMAIN items} = (0..listing.last) \ listing.blank
         /\ Len(items) = Cardinality((0..listing.last) \ listing.blank)
    /\ outcome = "repeated" => listing.back # 0
    /\ outcome = "too long" => listing.last + 1 > PageLimit

\* The requests of a job, which AWS charges for, stay within its limit over all its listings,
\* the retries of throttled calls included (Meter.call).
LimitIsKept == limit > 0 => requests <= limit
=============================================================================
