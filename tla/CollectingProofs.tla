-------------------------- MODULE CollectingProofs ---------------------------
(***************************************************************************)
(* What asks for costs and who they are of, for every value of the         *)
(* constants: the listings of one AWS session, the owner of an account's    *)
(* days, portfolio jobs, the settings of a connection, the schedule, the     *)
(* verdicts on a budget and the inventory of accounts.                     *)
(* The module of the listings is extended, the others are instances over   *)
(* variables of their own.                                                 *)
(***************************************************************************)
EXTENDS Metering, FiniteSetTheorems, SequenceTheorems, WellFoundedInduction, TLAPS

CONSTANTS
    Sources, Home, Customers, Owner, LastDay, Nobody, MaxTransfers,
    Leaders, Keys,
    Clients, Roles, Capabilities, MaxIds, MaxVersions, MaxEdits,
    Schedulers, MaxSlots, MaxJobs, MaxAttempts, History, FullMonths, Reconciles,
    Scope, Ceilings, AlertAt, WarnAt, MaxSpend, MaxForecast, MaxChanges,
    Payers, Accounts, Billed, Shared, Approved, MaxMoves

VARIABLES
    assigned, costs, active, enabled, srcLock, accLock, dayLock, pub, transfer, transfers, owed, refused,
    made, settled, at,
    connection, approved, requested, issued, trust, web, verifier, tested, edits,
    slot, reconcile, ready, initialized, last, rowLock, table, txn, answer,
    watched, ceiling, period, spend, evaluation, alerts, evaluator, changes,
    member, bills, account, holder, setting, discovering, moves

Owners == INSTANCE Ownership
Once == INSTANCE OnceJobs WITH Schedulers <- Leaders, active <- made
Settings == INSTANCE ConnectionSettings WITH row <- connection
Schedule == INSTANCE Scheduler WITH srcLock <- rowLock
Verdicts == INSTANCE BudgetEvaluation WITH
    Sources <- Scope, Limits <- Ceilings, active <- watched, limit <- ceiling, run <- evaluator
Inventory == INSTANCE Discovery WITH assigned <- holder, version <- setting, run <- discovering

-----------------------------------------------------------------------------
(* The listings of one AWS session.                                         *)

\* The items that the pages before p hold.
Held(p) == (0..(p - 1)) \ listing.blank
Collected(p) == {items[i] : i \in DOMAIN items} = Held(p) /\ Len(items) = Cardinality(Held(p))

\* A listing that runs has asked for the pages in their order, has their items, and has been
\* given the tokens of all but the first.
Following == Running => call.page <= listing.last /\ seen = 1..call.page /\ Collected(call.page)

\* A request that is sent is one the limit has room for.
Metered ==
    /\ limit > 0 => requests <= limit
    /\ Running /\ call.step = "sent" /\ limit > 0 => requests < limit

Ended ==
    /\ outcome = "items" /\ listings > 0 => Collected(listing.last + 1)
    /\ outcome = "repeated" => listing.back # 0
    /\ outcome = "too long" => listing.last + 1 > PageLimit

ListInv == TypeOK /\ Following /\ Metered /\ Ended

LEMMA ListInit == ASSUME MeteringAssumption PROVE Init => ListInv
  <1> SUFFICES ASSUME Init PROVE ListInv
    OBVIOUS
  <1>1. listing \in Listings
    <2>1. listing = [last |-> 0, back |-> 0, blank |-> {}]
      BY DEF Init
    <2> QED BY <2>1 DEF Listings, Pages
  <1>2. TypeOK
    BY <1>1 DEF MeteringAssumption, Init, TypeOK, Steps, Pages, Outcomes
  <1> QED BY <1>2 DEF MeteringAssumption, Init, ListInv, Following, Running, Metered, Ended

\* One page more, with its item or blank.
LEMMA HeldNext ==
    ASSUME NEW p \in Nat, NEW blank
    PROVE  LET held(n) == (0..(n - 1)) \ blank
           IN  /\ Cardinality(held(p)) \in Nat
               /\ p \in blank => held(p + 1) = held(p)
               /\ p \notin blank => /\ held(p + 1) = held(p) \cup {p}
                                    /\ Cardinality(held(p + 1)) = Cardinality(held(p)) + 1
  <1> DEFINE held(n) == (0..(n - 1)) \ blank
  <1>1. 0..((p + 1) - 1) = (0..(p - 1)) \cup {p} /\ p \notin 0..(p - 1)
    OBVIOUS
  <1>2. held(p) \subseteq 0..(p - 1) /\ IsFiniteSet(0..(p - 1))
    BY FS_Interval
  <1>3. IsFiniteSet(held(p))
    BY <1>2, FS_Subset
  <1>4. Cardinality(held(p)) \in Nat
    BY <1>3, FS_CardinalityType
  <1>5. p \in blank => held(p + 1) = held(p)
    BY <1>1
  <1>6. p \notin blank => held(p + 1) = held(p) \cup {p} /\ p \notin held(p)
    BY <1>1
  <1>7. p \notin held(p) => Cardinality(held(p) \cup {p}) = Cardinality(held(p)) + 1
    BY <1>3, FS_AddElement
  <1> QED BY <1>4, <1>5, <1>6, <1>7

LEMMA PaginateInv == ASSUME MeteringAssumption, ListInv, Paginate PROVE ListInv'
  <1>1. /\ listing' \in Listings /\ call' = [step |-> "enter", page |-> 0, attempts |-> 0]
        /\ seen' = {} /\ items' = <<>> /\ outcome' = "none"
        /\ UNCHANGED <<limit, requests>>
    BY DEF Paginate, meter
  <1>2. TypeOK'
    <2>1. listings' \in 0..MaxListings
      <3>1. listings \in 0..MaxListings /\ MaxListings \in Nat
        BY DEF ListInv, TypeOK, MeteringAssumption
      <3>2. listings < MaxListings /\ listings' = listings + 1
        BY DEF Paginate
      <3> QED BY <3>1, <3>2
    <2>2. call' \in [step : Steps, page : Pages, attempts : 0..Retries]
      <3>1. "enter" \in Steps /\ 0 \in Pages /\ 0 \in 0..Retries
        BY DEF Steps, Pages, MeteringAssumption
      <3> QED BY <1>1, <3>1
    <2>3. items' \in Seq(Pages) /\ seen' \subseteq Tokens
      BY <1>1
    <2> QED BY <1>1, <2>1, <2>2, <2>3 DEF ListInv, TypeOK, Outcomes
  <1>3. Following'
    <2>1. listing'.last \in Nat
      BY <1>1 DEF Listings, Pages, Tokens
    <2>2. call'.page = 0
      BY <1>1
    <2>3. 0..(0 - 1) = {} /\ 1..0 = {}
      OBVIOUS
    <2>4. (0..(call'.page - 1)) \ listing'.blank = {} /\ Cardinality({}) = 0
      BY <2>2, <2>3, FS_EmptySet
    <2>5. {items'[i] : i \in DOMAIN items'} = {} /\ Len(items') = 0
      BY <1>1
    <2>6. Collected(call.page)'
      BY <2>4, <2>5 DEF Collected, Held
    <2>7. seen' = 1..call'.page /\ call'.page <= listing'.last
      BY <1>1, <2>1, <2>2, <2>3
    <2> QED BY <2>6, <2>7 DEF Following
  <1>4. Metered' /\ Ended'
    BY <1>1 DEF ListInv, Metered, Ended
  <1> QED BY <1>2, <1>3, <1>4 DEF ListInv

LEMMA EnterInv == ASSUME MeteringAssumption, ListInv, Enter PROVE ListInv'
  <1>0. call \in [step : Steps, page : Pages, attempts : 0..Retries] /\ requests \in Nat /\ limit \in Nat
    BY DEF ListInv, TypeOK, MeteringAssumption
  <1>1. CASE AtLimit(requests)
    <2>1. outcome' = "budget" /\ UNCHANGED <<call, seen, items, meter, listing, listings>>
      BY <1>1 DEF Enter, Raise
    <2> QED BY <2>1 DEF ListInv, TypeOK, Outcomes, meter, Following, Running, Metered, Ended
  <1>2. CASE ~AtLimit(requests)
    <2>1. /\ call' = [call EXCEPT !.step = "sent"] /\ Running
          /\ UNCHANGED <<seen, items, outcome, limit, requests, listing, listings>>
      BY <1>2 DEF Enter, meter
    <2>2. call' \in [step : Steps, page : Pages, attempts : 0..Retries] /\ call'.page = call.page
      BY <1>0, <2>1 DEF Steps
    <2>3. TypeOK'
      BY <2>1, <2>2 DEF ListInv, TypeOK
    <2>4. limit > 0 => requests < limit
      BY <1>0, <1>2 DEF AtLimit
    <2> QED
      BY <2>1, <2>2, <2>3, <2>4 DEF ListInv, Following, Running, Metered, Ended, Collected, Held
  <1> QED BY <1>1, <1>2

\* A request that is sent stays within the limit.
LEMMA SendMetered ==
    ASSUME MeteringAssumption, ListInv, Send, UNCHANGED limit
    PROVE  requests' \in Nat /\ (limit > 0 => requests' <= limit)
  BY DEF ListInv, TypeOK, Send, Metered, MeteringAssumption

LEMMA FailedInv ==
    ASSUME MeteringAssumption, ListInv, NEW throttled \in BOOLEAN, Failed(throttled) PROVE ListInv'
  <1>0. call \in [step : Steps, page : Pages, attempts : 0..Retries] /\ limit \in Nat
        /\ Retries \in Nat
    BY DEF ListInv, TypeOK, MeteringAssumption
  <1>1. requests' \in Nat /\ (limit > 0 => requests' <= limit)
        /\ UNCHANGED <<limit, listing, listings>> /\ Running
    BY SendMetered DEF Failed, Send
  <1>2. CASE ~AtLimit(requests') /\ throttled /\ call.attempts < Retries
    <2>1. call' = [call EXCEPT !.attempts = @ + 1] /\ UNCHANGED <<seen, items, outcome>>
      BY <1>2 DEF Failed
    <2>2. call'.page = call.page /\ call' \in [step : Steps, page : Pages, attempts : 0..Retries]
      BY <1>0, <1>2, <2>1
    <2>3. limit > 0 => requests' < limit
      BY <1>0, <1>1, <1>2 DEF AtLimit
    <2>4. TypeOK'
      BY <1>1, <2>1, <2>2 DEF ListInv, TypeOK
    <2> QED
      BY <1>1, <2>1, <2>2, <2>3, <2>4 DEF ListInv, Following, Running, Metered, Ended, Collected, Held
  <1>3. CASE ~(~AtLimit(requests') /\ throttled /\ call.attempts < Retries)
    <2>1. outcome' \in {"budget", "refused"} /\ UNCHANGED <<call, seen, items>>
      BY <1>3 DEF Failed, Raise
    <2> QED
      BY <1>1, <2>1 DEF ListInv, TypeOK, Outcomes, Following, Running, Metered, Ended
  <1> QED BY <1>2, <1>3

\* A page that is answered adds its item, once.
LEMMA Added ==
    ASSUME ListInv, Answered
    PROVE  /\ {items'[i] : i \in DOMAIN items'} = Held(call.page + 1)
           /\ Len(items') = Cardinality(Held(call.page + 1))
           /\ items' \in Seq(Pages)
  <1>1. /\ call.page \in Nat /\ call.page \in Pages /\ items \in Seq(Pages) /\ Collected(call.page)
        /\ UNCHANGED listing
        /\ items' = IF call.page \in listing.blank THEN items ELSE Append(items, call.page)
    BY DEF ListInv, TypeOK, Pages, Tokens, Following, Answered, Send
  <1>2. CASE call.page \in listing.blank
    <2>1. Held(call.page + 1) = Held(call.page)
      BY <1>1, <1>2, HeldNext DEF Held
    <2> QED BY <1>1, <1>2, <2>1 DEF Collected, Held
  <1>3. CASE call.page \notin listing.blank
    <2>1. /\ Held(call.page + 1) = Held(call.page) \cup {call.page}
          /\ Cardinality(Held(call.page + 1)) = Cardinality(Held(call.page)) + 1
      BY <1>1, <1>3, HeldNext DEF Held
    <2>2. items' = Append(items, call.page)
      BY <1>1, <1>3
    <2>3. /\ items' \in Seq(Pages) /\ Len(items') = Len(items) + 1 /\ DOMAIN items' = 1..(Len(items) + 1)
          /\ DOMAIN items = 1..Len(items) /\ Len(items) \in Nat
          /\ \A i \in 1..Len(items) : items'[i] = items[i]
          /\ items'[Len(items) + 1] = call.page
      BY <1>1, <2>2
    <2>4. {items'[i] : i \in DOMAIN items'} = {items[i] : i \in DOMAIN items} \cup {call.page}
      BY <2>3
    <2> QED BY <1>1, <2>1, <2>3, <2>4 DEF Collected, Held
  <1> QED BY <1>2, <1>3

LEMMA AnsweredInv == ASSUME MeteringAssumption, ListInv, Answered PROVE ListInv'
  <1>0. /\ call \in [step : Steps, page : Pages, attempts : 0..Retries] /\ limit \in Nat
        /\ listing \in Listings /\ call.page <= listing.last /\ seen = 1..call.page /\ Running
        /\ Retries \in Nat /\ PageLimit \in Nat /\ MaxToken \in Nat
    BY DEF ListInv, TypeOK, MeteringAssumption, Following, Answered, Send
  <1>1. requests' \in Nat /\ (limit > 0 => requests' <= limit)
        /\ UNCHANGED <<limit, listing, listings>>
    BY SendMetered DEF Answered, Send
  <1>2. /\ call.page \in Nat /\ listing.last \in Nat /\ listing.back \in Nat /\ listing.back <= listing.last
        /\ call.page <= MaxToken /\ listing.last <= MaxToken
    BY <1>0 DEF Listings, Pages, Tokens
  <1> DEFINE next == Token(call.page)
  <1>3. next \in Pages /\ Follow(next)
    BY <1>0, <1>2 DEF Answered, Token, Pages, Tokens
  <1>4. /\ {items'[i] : i \in DOMAIN items'} = Held(call.page + 1)
        /\ Len(items') = Cardinality(Held(call.page + 1)) /\ items' \in Seq(Pages)
    BY Added
  <1>5. next \notin seen /\ next # 0 => next = call.page + 1 /\ next <= listing.last
    BY <1>0, <1>2 DEF Token
  <1> HIDE DEF next
  <1>6. CASE next = 0
    <2>1. outcome' = "items" /\ UNCHANGED <<call, seen>>
      BY <1>3, <1>6 DEF Follow
    <2>2. call.page = listing.last
      BY <1>0, <1>2, <1>6 DEF next, Token
    <2>3. Collected(listing.last + 1)'
      BY <1>1, <1>4, <2>2 DEF Collected, Held
    <2> QED
      BY <1>1, <1>4, <2>1, <2>3 DEF ListInv, TypeOK, Outcomes, Following, Running, Metered, Ended
  <1>7. CASE next # 0 /\ next \in seen
    <2>1. outcome' = "repeated" /\ UNCHANGED <<call, seen>>
      BY <1>3, <1>7 DEF Follow
    <2>2. listing.back # 0
      BY <1>0, <1>2, <1>7 DEF next, Token
    <2> QED
      BY <1>1, <1>4, <2>1, <2>2 DEF ListInv, TypeOK, Outcomes, Following, Running, Metered, Ended
  <1>8. CASE next # 0 /\ next \notin seen
    <2>1. /\ seen' = seen \cup {next} /\ call' = [step |-> "enter", page |-> next, attempts |-> 0]
          /\ outcome' = IF Cardinality(seen') = PageLimit THEN "too long" ELSE "none"
      BY <1>3, <1>8 DEF Follow
    <2>2. next = call.page + 1 /\ next <= listing.last /\ next \in Nat
      BY <1>2, <1>5, <1>8
    <2>3. seen' = 1..next
      <3>1. \A p \in Nat : (1..p) \cup {p + 1} = 1..(p + 1)
        OBVIOUS
      <3>2. seen' = (1..call.page) \cup {call.page + 1}
        BY <1>0, <2>1, <2>2
      <3> QED BY <1>2, <2>2, <3>1, <3>2
    <2>4. Cardinality(seen') = next
      BY <2>2, <2>3, FS_Interval
    <2>5. call' \in [step : Steps, page : Pages, attempts : 0..Retries] /\ call'.page = next
          /\ call'.step = "enter"
      <3>1. "enter" \in Steps /\ 0 \in 0..Retries
        BY <1>0 DEF Steps
      <3> QED BY <1>3, <2>1, <3>1
    <2>6. seen' \subseteq Tokens
      BY <1>0, <1>2, <2>2, <2>3 DEF Tokens
    <2>7. TypeOK'
      BY <1>1, <1>4, <2>1, <2>5, <2>6 DEF ListInv, TypeOK, Outcomes
    <2>8. Following'
      BY <1>1, <1>4, <2>2, <2>3, <2>5 DEF Following, Collected, Held
    <2>9. Metered'
      BY <1>1, <2>5 DEF Metered
    <2>10. Ended'
      <3>1. outcome' = "too long" => listing'.last + 1 > PageLimit
        <4>1. outcome' = "too long" => next = PageLimit
          BY <2>1, <2>4
        <4>2. listing' = listing
          BY <1>1
        <4>3. listing.last + 1 > next /\ PageLimit \in Nat
          BY <1>0, <1>2, <2>2
        <4> QED BY <4>1, <4>2, <4>3
      <3>2. outcome' \in {"too long", "none"}
        BY <2>1
      <3> QED BY <3>1, <3>2 DEF Ended
    <2> QED BY <2>7, <2>8, <2>9, <2>10 DEF ListInv
  <1> QED BY <1>6, <1>7, <1>8

LEMMA ListNext == ASSUME MeteringAssumption PROVE ListInv /\ [Next]_vars => ListInv'
  <1> SUFFICES ASSUME ListInv, [Next]_vars PROVE ListInv'
    OBVIOUS
  <1>1. CASE UNCHANGED vars
    BY <1>1 DEF vars, meter, ListInv, TypeOK, Following, Running, Metered, Ended, Collected, Held
  <1> QED BY <1>1, PaginateInv, EnterInv, AnsweredInv, FailedInv DEF Next

LEMMA ListMeans == ListInv => TypeOK /\ ListingsAreWhole /\ LimitIsKept
  <1> SUFFICES ASSUME ListInv PROVE ListingsAreWhole /\ LimitIsKept
    BY DEF ListInv
  <1>1. listing.last \in Nat
    BY DEF ListInv, TypeOK, Listings, Pages, Tokens
  <1>2. Held(listing.last + 1) = (0..listing.last) \ listing.blank
    BY <1>1 DEF Held
  <1> QED BY <1>2 DEF ListInv, Ended, Metered, Collected, ListingsAreWhole, LimitIsKept

\* A listing that is returned has the items of all its pages, each once, and the requests of a
\* job never exceed its limit, whatever pages, tokens and throttled answers AWS gives (aws.py).
THEOREM ListingsWhole ==
    ASSUME MeteringAssumption PROVE Spec => [](ListingsAreWhole /\ LimitIsKept)
  BY ListInit, ListNext, ListMeans, PTL DEF Spec

-----------------------------------------------------------------------------
(* Who owns an account's days.                                              *)

\* Assignments do not overlap, and each has a day.
Apart(A) == \A a, b \in A : Owners!Overlap(a, b) => a = b
Proper(A) == A \subseteq Owners!Assignment /\ Apart(A) /\ \A a \in A : a.start < a.end

Stamps == Customers \cup {Owners!Absent, Owners!Unowned}
Serialized == {"serialized", "checked", "unowned", "assigning", "owned"}
Checked == Serialized \ {"serialized"}
Pub == [step : {"idle", "locked"} \cup Serialized, days : SUBSET Owners!Days,
        owners : {<<>>} \cup [Owners!Days -> Stamps], new : SUBSET Owners!Assignment]

OwnersTyped ==
    /\ costs \in [Sources -> [Owners!Days -> Stamps]]
    /\ active \subseteq Customers /\ enabled \subseteq Sources
    /\ srcLock \in [Sources -> Sources \cup {"operator", Nobody}]
    /\ accLock \in Sources \cup {"operator", Nobody} /\ dayLock \in Sources \cup {Nobody}
    /\ pub \in [Sources -> Pub]
    /\ transfer \in [step : {"idle", "assigning", "restamp"}, customer : Customers \cup {Nobody},
                     start : 0..LastDay, new : SUBSET Owners!Assignment]
    /\ transfers \in 0..MaxTransfers /\ owed \subseteq Owners!Days /\ refused \in BOOLEAN

\* What a publication holds, and what it has read that nobody can change while it does.
Publishing(s) ==
    /\ pub[s].step # "idle" => srcLock[s] = s
    /\ pub[s].step \in Serialized => dayLock = s
    /\ pub[s].step \in Checked => \A o \in Sources \ {s}, d \in pub[s].days : costs[o][d] = Owners!Absent
    /\ pub[s].step = "assigning" => accLock = s
    /\ pub[s].step # "owned" => pub[s].new = {}
    /\ pub[s].new # {} => /\ pub[s].new = {Owners!Automatic(s)} /\ assigned = {}
                          /\ srcLock[Home] = s /\ accLock = s
    /\ pub[s].step = "owned" => pub[s].owners \in [Owners!Days -> Stamps]
    /\ pub[s].step = "owned" /\ pub[s].new = {} => assigned # {}

\* The owners the account's own connection has looked up are those its commit leaves.
LookedUp ==
    pub[Home].step = "owned" =>
        pub[Home].owners = [d \in Owners!Days |-> Owners!OwnerIn(assigned \cup pub[Home].new, d)]

\* What a transfer holds, and what it will write.
Transferring ==
    /\ transfer.step # "idle" => accLock = "operator"
       /\ transfer.customer \in Customers /\ transfer.start \in Owners!Days
    /\ transfer.step = "restamp" =>
         /\ srcLock[Home] = "operator" /\ ~Owners!Refused(transfer.customer, transfer.start)
         /\ transfer.new = Owners!Transferred(transfer.customer, transfer.start)

\* Nothing is published of an account that was never assigned.
NoneYet == assigned = {} => \A s \in Sources, d \in Owners!Days : costs[s][d] = Owners!Absent

OwnersInv ==
    /\ OwnersTyped /\ Proper(assigned) /\ NoneYet /\ Transferring /\ LookedUp
    /\ \A s \in Sources : Publishing(s)
    /\ Owners!OwnRowsAreStamped /\ Owners!OneSourcePerDay

-----------------------------------------------------------------------------
(* Assignments. *)

LEMMA Constants ==
    ASSUME Owners!OwnershipAssumption
    PROVE  /\ Home \in Sources /\ \A s \in Sources : Owner[s] \in Customers /\ s # "operator" /\ s # Nobody
           /\ Nobody # "operator" /\ LastDay \in Nat /\ LastDay >= 1 /\ MaxTransfers \in Nat
           /\ Owners!Forever \in Nat /\ Owners!Forever = LastDay + 2
  BY DEF Owners!OwnershipAssumption, Owners!Forever

LEMMA AssignmentIs ==
    ASSUME Owners!OwnershipAssumption, NEW a \in Owners!Assignment
    PROVE  a.customer \in Customers /\ a.start \in Nat /\ a.end \in Nat /\ a.start <= LastDay
             /\ a.end <= Owners!Forever /\ a.end >= 1
  BY Constants DEF Owners!Assignment

\* The owner of a day is who its assignment names, and nobody when there is none.
LEMMA OwnerIs ==
    ASSUME Owners!OwnershipAssumption, NEW A, Proper(A), NEW a \in A, NEW d \in Owners!Days,
           Owners!Covers(a, d)
    PROVE  Owners!OwnerIn(A, d) = a.customer
  <1> DEFINE b == CHOOSE b \in A : Owners!Covers(b, d)
  <1>1. b \in A /\ Owners!Covers(b, d)
    OBVIOUS
  <1> HIDE DEF b
  <1>2. a.start \in Nat /\ a.end \in Nat /\ b.start \in Nat /\ b.end \in Nat /\ d \in Nat
    BY <1>1, AssignmentIs, Constants DEF Proper, Owners!Days
  <1>3. Owners!Overlap(a, b)
    BY <1>1, <1>2 DEF Owners!Covers, Owners!Overlap
  <1>4. a = b
    BY <1>1, <1>3 DEF Proper, Apart
  <1> QED BY <1>4 DEF Owners!OwnerIn, b

LEMMA OwnerTyped ==
    ASSUME NEW A, A \subseteq Owners!Assignment, NEW d
    PROVE  Owners!OwnerIn(A, d) \in Stamps
  <1>1. CASE \E a \in A : Owners!Covers(a, d)
    <2>1. (CHOOSE a \in A : Owners!Covers(a, d)) \in A
      BY <1>1
    <2> QED BY <1>1, <2>1 DEF Owners!OwnerIn, Stamps, Owners!Assignment
  <1>2. CASE ~\E a \in A : Owners!Covers(a, d)
    BY <1>2 DEF Owners!OwnerIn, Stamps
  <1> QED BY <1>1, <1>2

\* Assignments that name the same customer for a day make them its owner.
LEMMA SameOwner ==
    ASSUME Owners!OwnershipAssumption, NEW A, Proper(A), NEW B, Proper(B), NEW d \in Owners!Days,
           \A a \in A : Owners!Covers(a, d) => \E b \in B : Owners!Covers(b, d) /\ b.customer = a.customer,
           \A b \in B : Owners!Covers(b, d) => \E a \in A : Owners!Covers(a, d)
    PROVE  Owners!OwnerIn(A, d) = Owners!OwnerIn(B, d)
  <1>1. CASE \E a \in A : Owners!Covers(a, d)
    <2>1. PICK a \in A : Owners!Covers(a, d)
      BY <1>1
    <2>2. PICK b \in B : Owners!Covers(b, d) /\ b.customer = a.customer
      BY <2>1
    <2>3. Owners!OwnerIn(A, d) = a.customer
      BY <2>1, OwnerIs
    <2>4. Owners!OwnerIn(B, d) = b.customer
      BY <2>2, OwnerIs
    <2> QED BY <2>2, <2>3, <2>4
  <1>2. CASE ~\E a \in A : Owners!Covers(a, d)
    BY <1>2 DEF Owners!OwnerIn
  <1> QED BY <1>1, <1>2

\* The assignment made for a connection, when there is none.
LEMMA AutomaticProper ==
    ASSUME Owners!OwnershipAssumption, NEW s \in Sources PROVE Proper({Owners!Automatic(s)})
  <1>1. Owners!Automatic(s) \in Owners!Assignment
    BY Constants DEF Owners!Automatic, Owners!Assignment
  <1>2. Owners!Automatic(s).start < Owners!Automatic(s).end
    BY Constants DEF Owners!Automatic
  <1> QED BY <1>1, <1>2 DEF Proper, Apart

LEMMA NoOverlapIsNone ==
    ASSUME Owners!OwnershipAssumption, Proper(assigned), NEW s \in Sources,
           ~\E a \in assigned : Owners!Overlap(a, Owners!Automatic(s))
    PROVE  assigned = {}
  <1> SUFFICES ASSUME NEW a \in assigned PROVE Owners!Overlap(a, Owners!Automatic(s))
    OBVIOUS
  <1>1. a.start \in Nat /\ a.end \in Nat /\ a.start <= LastDay /\ a.end >= 1
    BY AssignmentIs DEF Proper
  <1> QED BY <1>1, Constants DEF Owners!Overlap, Owners!Automatic

\* A transfer that is not refused leaves assignments that do not overlap, and before its
\* start the owners that were.
LEMMA TransferredIs ==
    ASSUME Owners!OwnershipAssumption, Proper(assigned), NEW c \in Customers, NEW start \in Owners!Days,
           ~Owners!Refused(c, start)
    PROVE  /\ Proper(Owners!Transferred(c, start)) /\ Owners!Transferred(c, start) # {}
           /\ \A d \in Owners!Days : d < start => Owners!OwnerIn(Owners!Transferred(c, start), d) = Owners!OwnerIn(assigned, d)
  <1>0. start \in Nat /\ start >= 1 /\ start <= LastDay /\ LastDay \in Nat /\ Owners!Forever = LastDay + 2
    BY Constants DEF Owners!Days
  <1>1. CASE \E a \in Owners!Open : a.customer = c
    <2>1. Owners!Transferred(c, start) = assigned /\ assigned # {}
      BY <1>1 DEF Owners!Transferred, Owners!Open
    <2> QED BY <2>1
  <1>2. CASE \A a \in Owners!Open : a.customer # c
    <2> DEFINE N == [customer |-> c, start |-> start, end |-> Owners!Forever]
               E(a) == [a EXCEPT !.end = IF @ = Owners!Forever THEN start ELSE @]
               T == Owners!Transferred(c, start)
    <2>1. T = {E(a) : a \in assigned} \cup {N}
      BY <1>2 DEF Owners!Transferred, Owners!Ended
    <2>2. \A a \in Owners!Open : a.start < start
      <3>1. ASSUME NEW a \in Owners!Open PROVE a.start < start
        <4>1. a.start \in Nat
          BY AssignmentIs DEF Owners!Open, Proper
        <4>2. ~(start <= a.start)
          BY <1>2 DEF Owners!Refused
        <4> QED BY <1>0, <4>1, <4>2
      <3> QED BY <3>1
    <2>3. \A a \in assigned : ~Owners!Overlap(E(a), N)
      <3> TAKE a \in assigned
      <3>1. E(a) \in Owners!Ended(assigned, start)
        BY DEF Owners!Ended
      <3>2. ~Owners!Overlap(E(a), [start |-> start, end |-> Owners!Forever])
        BY <1>2, <3>1 DEF Owners!Refused
      <3> HIDE DEF E
      <3> QED BY <3>2 DEF Owners!Overlap
    <2>4. ASSUME NEW a \in assigned
          PROVE  /\ E(a) \in Owners!Assignment /\ E(a).customer = a.customer /\ E(a).start = a.start
                 /\ a.start \in Nat /\ a.end \in Nat /\ E(a).end \in Nat /\ E(a).end <= a.end
                 /\ E(a).start < E(a).end /\ (a.end # E(a).end => E(a).end = start)
      <3>1. a \in Owners!Assignment /\ a.start < a.end
        BY DEF Proper
      <3>2. CASE a.end = Owners!Forever
        <4>1. E(a) = [a EXCEPT !.end = start]
          BY <3>2
        <4>2. a.start < start
          BY <2>2, <3>2 DEF Owners!Open
        <4>3. start \in 1..Owners!Forever
          BY <1>0
        <4> QED BY <1>0, <3>1, <3>2, <4>1, <4>2, <4>3, AssignmentIs DEF Owners!Assignment
      <3>3. CASE a.end # Owners!Forever
        <4>1. E(a) = a
          BY <3>1, <3>3 DEF Owners!Assignment
        <4> HIDE DEF E
        <4> QED BY <3>1, <4>1, AssignmentIs
      <3> QED BY <3>2, <3>3
    <2>5. N \in Owners!Assignment /\ N.start = start /\ N.end = Owners!Forever
      BY <1>0 DEF Owners!Assignment
    <2> HIDE DEF N, E
    <2>6. ASSUME NEW x \in T, NEW y \in T, Owners!Overlap(x, y) PROVE x = y
      <3>1. CASE x = N /\ y = N
        BY <3>1
      <3>2. CASE x = N /\ y # N
        <4>1. PICK a \in assigned : y = E(a)
          BY <2>1, <3>2
        <4>2. Owners!Overlap(E(a), N)
          BY <2>6, <3>2, <4>1 DEF Owners!Overlap
        <4> QED BY <2>3, <4>2
      <3>3. CASE x # N /\ y = N
        <4>1. PICK a \in assigned : x = E(a)
          BY <2>1, <3>3
        <4> QED BY <2>3, <2>6, <3>3, <4>1
      <3>4. CASE x # N /\ y # N
        <4>1. PICK a \in assigned, b \in assigned : x = E(a) /\ y = E(b)
          BY <2>1, <3>4
        <4>2. Owners!Overlap(a, b)
          BY <2>4, <2>6, <4>1 DEF Owners!Overlap
        <4> QED BY <4>1, <4>2 DEF Proper, Apart
      <3> QED BY <3>1, <3>2, <3>3, <3>4
    <2>7. Proper(T)
      <3>1. \A x \in T : x \in Owners!Assignment /\ x.start < x.end
        BY <1>0, <2>1, <2>4, <2>5
      <3> QED BY <2>6, <3>1 DEF Proper, Apart
    <2>8. ASSUME NEW d \in Owners!Days, d < start
          PROVE  Owners!OwnerIn(T, d) = Owners!OwnerIn(assigned, d)
      <3>0. d \in Nat
        BY DEF Owners!Days
      <3>1. ~Owners!Covers(N, d)
        BY <1>0, <2>5, <2>8, <3>0 DEF Owners!Covers
      <3>2. \A a \in assigned : Owners!Covers(a, d) <=> Owners!Covers(E(a), d)
        BY <1>0, <2>4, <2>8, <3>0 DEF Owners!Covers
      <3>3. \A a \in assigned : E(a) \in T
        BY <2>1
      <3>4. \A a \in assigned : Owners!Covers(a, d) => \E b \in T : Owners!Covers(b, d)
              /\ b.customer = a.customer
        BY <2>4, <3>2, <3>3
      <3>5. \A b \in T : Owners!Covers(b, d) => \E a \in assigned : Owners!Covers(a, d)
        BY <2>1, <3>1, <3>2
      <3> HIDE DEF T
      <3> QED BY <2>7, <3>4, <3>5, SameOwner
    <2>9. T # {}
      BY <2>1
    <2> QED BY <2>7, <2>8, <2>9
  <1> QED BY <1>1, <1>2

\* What an offboarding leaves: the customer's open assignments end, and its days after that
\* are nobody's; the others keep their owner.
ClosedBy(c, a) == IF a.customer = c /\ a.end = Owners!Forever
                  THEN [a EXCEPT !.end = Owners!Later(LastDay, a.start + 1)] ELSE a
Left(c) == UNION {Owners!From(Owners!Later(LastDay, a.start + 1)) : a \in {b \in Owners!Open : b.customer = c}}

LEMMA ClosedIs ==
    ASSUME Owners!OwnershipAssumption, Proper(assigned), NEW c \in Customers,
           NEW B, B = {ClosedBy(c, a) : a \in assigned}
    PROVE  /\ Proper(B) /\ (B = {} <=> assigned = {})
           /\ \A d \in Owners!Days : d \notin Left(c) => Owners!OwnerIn(B, d) = Owners!OwnerIn(assigned, d)
  <1>0. LastDay \in Nat /\ Owners!Forever = LastDay + 2 /\ LastDay >= 1
    BY Constants
  <1>1. ASSUME NEW a \in assigned
        PROVE  /\ ClosedBy(c, a) \in Owners!Assignment /\ ClosedBy(c, a).customer = a.customer
               /\ ClosedBy(c, a).start = a.start /\ a.start \in Nat /\ a.end \in Nat
               /\ ClosedBy(c, a).end \in Nat /\ ClosedBy(c, a).end <= a.end
               /\ ClosedBy(c, a).start < ClosedBy(c, a).end
               /\ \A d \in Owners!Days : d \notin Left(c) => (Owners!Covers(ClosedBy(c, a), d) <=> Owners!Covers(a, d))
    <2>1. a \in Owners!Assignment /\ a.start < a.end
      BY DEF Proper
    <2>2. a.start \in Nat /\ a.end \in Nat /\ a.start <= LastDay
      BY <2>1, AssignmentIs
    <2>3. CASE a.customer = c /\ a.end = Owners!Forever
      <3>1. PICK e \in Nat : e = Owners!Later(LastDay, a.start + 1)
        BY <1>0, <2>2 DEF Owners!Later
      <3>2. e > a.start /\ e <= LastDay + 1 /\ e >= 1
        BY <1>0, <2>2, <3>1 DEF Owners!Later
      <3>3. ClosedBy(c, a) = [a EXCEPT !.end = e]
        BY <2>3, <3>1 DEF ClosedBy
      <3>4. e \in 1..Owners!Forever
        BY <1>0, <3>2
      <3>5. Owners!From(e) \subseteq Left(c)
        BY <2>3, <3>1 DEF Left, Owners!Open
      <3>6. /\ ClosedBy(c, a) \in Owners!Assignment /\ ClosedBy(c, a).customer = a.customer
            /\ ClosedBy(c, a).start = a.start /\ ClosedBy(c, a).end = e
        BY <2>1, <3>3, <3>4 DEF Owners!Assignment
      <3>7. ASSUME NEW d \in Owners!Days, d \notin Left(c)
            PROVE  Owners!Covers(ClosedBy(c, a), d) <=> Owners!Covers(a, d)
        <4>1. d \in Nat /\ d <= LastDay
          BY <1>0 DEF Owners!Days
        <4>2. ~(d >= e)
          BY <3>5, <3>7 DEF Owners!From
        <4>3. d < e /\ d < a.end
          BY <1>0, <2>3, <4>1, <4>2
        <4> QED BY <3>6, <4>3 DEF Owners!Covers
      <3> QED BY <1>0, <2>2, <2>3, <3>2, <3>6, <3>7
    <2>4. CASE ~(a.customer = c /\ a.end = Owners!Forever)
      <3>1. ClosedBy(c, a) = a
        BY <2>4 DEF ClosedBy
      <3> QED BY <2>1, <2>2, <3>1
    <2> QED BY <2>3, <2>4
  <1>2. ASSUME NEW x \in B, NEW y \in B, Owners!Overlap(x, y) PROVE x = y
    <2>1. PICK a \in assigned, b \in assigned : x = ClosedBy(c, a) /\ y = ClosedBy(c, b)
      OBVIOUS
    <2>2. Owners!Overlap(a, b)
      BY <1>1, <1>2, <2>1 DEF Owners!Overlap
    <2> QED BY <2>1, <2>2 DEF Proper, Apart
  <1>3. Proper(B)
    <2>1. \A x \in B : x \in Owners!Assignment /\ x.start < x.end
      BY <1>1
    <2> QED BY <1>2, <2>1 DEF Proper, Apart
  <1>4. ASSUME NEW d \in Owners!Days, d \notin Left(c)
        PROVE  Owners!OwnerIn(B, d) = Owners!OwnerIn(assigned, d)
    <2>1. \A a \in assigned : Owners!Covers(a, d) => \E b \in B : Owners!Covers(b, d)
            /\ b.customer = a.customer
      BY <1>1, <1>4
    <2>2. \A b \in B : Owners!Covers(b, d) => \E a \in assigned : Owners!Covers(a, d)
      BY <1>1, <1>4
    <2> QED BY <1>3, <2>1, <2>2, SameOwner
  <1> QED BY <1>3, <1>4

-----------------------------------------------------------------------------
LEMMA OwnersInit == ASSUME Owners!OwnershipAssumption PROVE Owners!Init => OwnersInv
  <1> SUFFICES ASSUME Owners!Init PROVE OwnersInv
    OBVIOUS
  <1>1. Owners!IdlePub \in Pub /\ Owners!IdlePub.step = "idle" /\ Owners!IdlePub.new = {}
    BY DEF Owners!IdlePub, Pub
  <1>2. transfer \in [step : {"idle", "assigning", "restamp"}, customer : Customers \cup {Nobody},
                      start : 0..LastDay, new : SUBSET Owners!Assignment] /\ transfer.step = "idle"
    <2>1. 0 \in 0..LastDay
      BY Constants
    <2> QED BY <2>1 DEF Owners!Init, Owners!IdleTransfer
  <1>3. OwnersTyped
    <2>1. pub \in [Sources -> Pub]
      BY <1>1 DEF Owners!Init
    <2>2. /\ costs \in [Sources -> [Owners!Days -> Stamps]] /\ active \subseteq Customers
             /\ enabled \subseteq Sources
          /\ srcLock \in [Sources -> Sources \cup {"operator", Nobody}]
          /\ accLock \in Sources \cup {"operator", Nobody} /\ dayLock \in Sources \cup {Nobody}
      BY DEF Owners!Init, Stamps
    <2>3. transfers \in 0..MaxTransfers /\ owed \subseteq Owners!Days /\ refused \in BOOLEAN
      <3>1. 0 \in 0..MaxTransfers
        BY Constants
      <3> QED BY <3>1 DEF Owners!Init
    <2> QED BY <1>2, <2>1, <2>2, <2>3 DEF OwnersTyped
  <1>4. Proper(assigned)
    <2>1. assigned = {} \/ assigned = {Owners!Automatic(Home)}
      BY DEF Owners!Init, Owners!Automatic
    <2>2. Proper({})
      BY DEF Proper, Apart
    <2> QED BY <2>1, <2>2, AutomaticProper, Constants
  <1>5. \A s \in Sources : Publishing(s)
    BY <1>1 DEF Owners!Init, Publishing, Serialized, Checked
  <1>6. \A s \in Sources, d \in Owners!Days : costs[s][d] = Owners!Absent
    BY DEF Owners!Init
  <1>7. LookedUp /\ Transferring
    BY <1>1, <1>2, Constants DEF Owners!Init, LookedUp, Transferring
  <1> QED
    BY <1>3, <1>4, <1>5, <1>6, <1>7, Constants
       DEF OwnersInv, NoneYet, Owners!OwnRowsAreStamped, Owners!Stamped, Owners!OneSourcePerDay

\* The locks a transaction takes or gives back, which leaves the others theirs.
LocksKept(p) ==
    /\ srcLock' \in [Sources -> Sources \cup {"operator", Nobody}]
    /\ accLock' \in Sources \cup {"operator", Nobody} /\ dayLock' \in Sources \cup {Nobody}
    /\ \A t \in (Sources \cup {"operator"}) \ {p} :
         /\ \A o \in Sources : srcLock[o] = t => srcLock'[o] = t
         /\ accLock = t => accLock' = t
         /\ dayLock = t => dayLock' = t

LEMMA FreedKeeps ==
    ASSUME OwnersInv, NEW p \in Sources \cup {"operator"}, Owners!Freed(p) PROVE LocksKept(p)
  BY DEF Owners!Freed, LocksKept, OwnersInv, OwnersTyped

LEMMA UnchangedKeeps == ASSUME OwnersInv, NEW p, UNCHANGED Owners!locks PROVE LocksKept(p)
  BY DEF Owners!locks, LocksKept, OwnersInv, OwnersTyped

\* A publication that reads, locks or gives up: the others keep what they hold and have read.
LEMMA PubStep ==
    ASSUME Owners!OwnershipAssumption, OwnersInv, NEW s \in Sources, NEW x \in Pub,
           pub' = [pub EXCEPT ![s] = x],
           LocksKept(s), refused' \in BOOLEAN,
           UNCHANGED <<assigned, costs, Owners!customers, Owners!operator, owed>>,
           x.step # "idle" => srcLock'[s] = s,
           x.step \in Serialized => dayLock' = s,
           x.step \in Checked => \A o \in Sources \ {s}, d \in x.days : costs[o][d] = Owners!Absent,
           x.step = "assigning" => accLock' = s,
           x.step # "owned" => x.new = {},
           x.new # {} => x.new = {Owners!Automatic(s)} /\ assigned = {} /\ srcLock'[Home] = s /\ accLock' = s,
           x.step = "owned" => x.owners = [d \in Owners!Days |-> Owners!OwnerIn(assigned \cup x.new, d)],
           x.step = "owned" /\ x.new = {} => assigned # {}
    PROVE  OwnersInv'
  <1>0. pub'[s] = x /\ \A t \in Sources \ {s} : pub'[t] = pub[t]
    BY DEF OwnersInv, OwnersTyped
  <1>1. OwnersTyped'
    BY DEF OwnersInv, OwnersTyped, LocksKept, Owners!customers, Owners!operator
  <1>2. Publishing(s)'
    <2>1. x.step = "owned" => x.owners \in [Owners!Days -> Stamps]
      <3>1. x.new \subseteq Owners!Assignment /\ assigned \subseteq Owners!Assignment
        BY DEF Pub, OwnersInv, Proper
      <3> QED BY <3>1, OwnerTyped
    <2> QED BY <1>0, <2>1 DEF Publishing
  <1>3. ASSUME NEW t \in Sources \ {s} PROVE Publishing(t)'
    <2>1. Publishing(t) /\ pub'[t] = pub[t] /\ Home \in Sources
      BY <1>0, Constants DEF OwnersInv
    <2> QED BY <2>1 DEF Publishing, LocksKept
  <1>4. LookedUp'
    <2>1. CASE s = Home
      BY <1>0, <2>1 DEF LookedUp
    <2>2. CASE s # Home
      BY <1>0, <2>2, Constants DEF OwnersInv, LookedUp
    <2> QED BY <2>1, <2>2
  <1>5. Transferring'
    <2>1. "operator" # s /\ Home \in Sources
      BY Constants
    <2>2. Owners!Refused(transfer.customer, transfer.start)' = Owners!Refused(transfer.customer, transfer.start)
          /\ Owners!Transferred(transfer.customer, transfer.start)' = Owners!Transferred(transfer.customer, transfer.start)
      BY DEF Owners!operator, Owners!Refused, Owners!Transferred, Owners!Ended, Owners!Open
    <2> QED BY <2>1, <2>2 DEF OwnersInv, Transferring, LocksKept, Owners!operator
  <1>6. (Proper(assigned) /\ NoneYet /\ Owners!OwnRowsAreStamped /\ Owners!OneSourcePerDay)'
    BY DEF OwnersInv, NoneYet, Owners!OwnRowsAreStamped, Owners!Stamped, Owners!OneSourcePerDay
  <1> QED BY <1>1, <1>2, <1>3, <1>4, <1>5, <1>6 DEF OwnersInv

LEMMA AbortInv ==
    ASSUME Owners!OwnershipAssumption, OwnersInv, NEW s \in Sources, Owners!Abort(s), refused' \in BOOLEAN,
           UNCHANGED <<assigned, costs, Owners!customers, Owners!operator, owed>>
    PROVE  OwnersInv'
  <1>1. Owners!IdlePub \in Pub /\ Owners!IdlePub.step = "idle" /\ Owners!IdlePub.new = {}
    BY DEF Owners!IdlePub, Pub
  <1>2. pub' = [pub EXCEPT ![s] = Owners!IdlePub] /\ LocksKept(s)
    BY FreedKeeps DEF Owners!Abort
  <1> QED BY <1>1, <1>2, PubStep DEF Serialized, Checked

\* A change of one's own record that the record keeps the type of.
LEMMA PubIs ==
    ASSUME OwnersInv, NEW s \in Sources
    PROVE  pub[s] \in Pub /\ Publishing(s) /\ pub[s].days \subseteq Owners!Days
           /\ \A step \in {"idle", "locked"} \cup Serialized :
                LET x == [pub[s] EXCEPT !.step = step] IN
                x \in Pub /\ x.step = step /\ x.days = pub[s].days /\ x.new = pub[s].new
  <1>1. pub[s] \in Pub /\ Publishing(s)
    BY DEF OwnersInv, OwnersTyped
  <1>2. pub[s].days \subseteq Owners!Days
    BY <1>1 DEF Pub
  <1>3. ASSUME NEW step \in {"idle", "locked"} \cup Serialized
        PROVE  LET x == [pub[s] EXCEPT !.step = step] IN
               x \in Pub /\ x.step = step /\ x.days = pub[s].days /\ x.new = pub[s].new
    BY <1>1 DEF Pub
  <1> QED BY <1>1, <1>2, <1>3

LEMMA BeginPublicationInv ==
    ASSUME Owners!OwnershipAssumption, OwnersInv, NEW s \in Sources, NEW D \in SUBSET Owners!Days,
           Owners!BeginPublication(s, D)
    PROVE  OwnersInv'
  <1> DEFINE x == [Owners!IdlePub EXCEPT !.step = "locked", !.days = D]
  <1>1. pub' = [pub EXCEPT ![s] = x] /\ srcLock[s] = Nobody /\ srcLock' = [srcLock EXCEPT ![s] = s]
        /\ UNCHANGED <<assigned, costs, Owners!customers, accLock, dayLock, Owners!operator, Owners!history>>
    BY DEF Owners!BeginPublication
  <1>2. x \in Pub /\ x.step = "locked" /\ x.new = {}
    <2>1. Owners!IdlePub \in Pub /\ Owners!IdlePub.new = {}
      BY DEF Owners!IdlePub, Pub
    <2> HIDE DEF Owners!IdlePub
    <2> QED BY <2>1 DEF Pub
  <1> HIDE DEF x
  <1>3. LocksKept(s) /\ srcLock'[s] = s
    BY <1>1, Constants DEF LocksKept, OwnersInv, OwnersTyped
  <1>4. refused' \in BOOLEAN /\ owed' = owed
    BY <1>1 DEF Owners!history, OwnersInv, OwnersTyped
  <1> QED BY <1>1, <1>2, <1>3, <1>4, PubStep DEF Serialized, Checked

LEMMA SerializeInv ==
    ASSUME Owners!OwnershipAssumption, OwnersInv, NEW s \in Sources, Owners!Serialize(s) PROVE OwnersInv'
  <1> DEFINE x == [pub[s] EXCEPT !.step = "serialized"]
  <1>1. pub' = [pub EXCEPT ![s] = x] /\ pub[s].step = "locked" /\ dayLock = Nobody /\ dayLock' = s
        /\ UNCHANGED <<assigned, costs, Owners!customers, srcLock, accLock, Owners!operator, Owners!history>>
    BY DEF Owners!Serialize
  <1>2. x \in Pub /\ x.step = "serialized" /\ x.new = {}
    BY <1>1, PubIs DEF Serialized, Publishing
  <1> HIDE DEF x
  <1>3. LocksKept(s) /\ srcLock'[s] = s
    BY <1>1, Constants, PubIs DEF LocksKept, OwnersInv, OwnersTyped, Publishing
  <1>4. refused' \in BOOLEAN /\ owed' = owed
    BY <1>1 DEF Owners!history, OwnersInv, OwnersTyped
  <1> QED BY <1>1, <1>2, <1>3, <1>4, PubStep DEF Serialized, Checked

LEMMA CheckOverlapInv ==
    ASSUME Owners!OwnershipAssumption, OwnersInv, NEW s \in Sources, Owners!CheckOverlap(s) PROVE OwnersInv'
  <1>0. pub[s].step = "serialized"
          /\ UNCHANGED <<assigned, costs, Owners!customers, Owners!operator, Owners!history>>
    BY DEF Owners!CheckOverlap
  <1>1. refused' \in BOOLEAN /\ owed' = owed
    BY <1>0 DEF Owners!history, OwnersInv, OwnersTyped
  <1>2. CASE \E o \in Sources \ {s}, d \in pub[s].days : costs[o][d] # Owners!Absent
    BY <1>0, <1>1, <1>2, AbortInv DEF Owners!CheckOverlap
  <1>3. CASE \A o \in Sources \ {s}, d \in pub[s].days : costs[o][d] = Owners!Absent
    <2> DEFINE x == [pub[s] EXCEPT !.step = "checked"]
    <2>1. pub' = [pub EXCEPT ![s] = x] /\ UNCHANGED Owners!locks
      BY <1>3 DEF Owners!CheckOverlap
    <2>2. x \in Pub /\ x.step = "checked" /\ x.new = {} /\ x.days = pub[s].days
      BY <1>0, PubIs DEF Serialized, Publishing
    <2> HIDE DEF x
    <2>3. LocksKept(s) /\ srcLock'[s] = s /\ dayLock' = s
      BY <1>0, <2>1, PubIs, UnchangedKeeps DEF Publishing, Serialized, Owners!locks
    <2> QED BY <1>0, <1>1, <1>3, <2>1, <2>2, <2>3, PubStep DEF Serialized, Checked
  <1> QED BY <1>2, <1>3

LEMMA LookUpOwnersInv ==
    ASSUME Owners!OwnershipAssumption, OwnersInv, NEW s \in Sources, Owners!LookUpOwners(s) PROVE OwnersInv'
  <1>0. /\ pub[s].step = "checked" /\ UNCHANGED <<assigned, costs, Owners!customers, Owners!locks, Owners!operator, Owners!history>>
        /\ Publishing(s) /\ pub[s].new = {} /\ assigned \subseteq Owners!Assignment
    BY PubIs DEF Owners!LookUpOwners, Publishing, OwnersInv, Proper
  <1>1. /\ refused' \in BOOLEAN /\ owed' = owed /\ LocksKept(s) /\ srcLock'[s] = s /\ dayLock' = s
        /\ \A o \in Sources \ {s}, d \in pub[s].days : costs[o][d] = Owners!Absent
    BY <1>0, UnchangedKeeps DEF Owners!history, OwnersInv, OwnersTyped, Publishing, Owners!locks,
         Serialized, Checked
  <1>2. CASE Owners!Open = {}
    <2> DEFINE x == [pub[s] EXCEPT !.step = "unowned"]
    <2>1. pub' = [pub EXCEPT ![s] = x]
      BY <1>2 DEF Owners!LookUpOwners
    <2>2. x \in Pub /\ x.step = "unowned" /\ x.new = {} /\ x.days = pub[s].days
      BY <1>0, PubIs DEF Serialized
    <2> HIDE DEF x
    <2> QED BY <1>0, <1>1, <2>1, <2>2, PubStep
  <1>3. CASE Owners!Open # {}
    <2>0. [d \in Owners!Days |-> Owners!OwnerIn(assigned, d)] \in [Owners!Days -> Stamps]
            /\ assigned \cup {} = assigned
      BY <1>0, OwnerTyped
    <2>o. PICK o \in [Owners!Days -> Stamps] : o = [d \in Owners!Days |-> Owners!OwnerIn(assigned, d)]
      BY <2>0
    <2>p. pub[s] \in Pub /\ "owned" \in {"idle", "locked"} \cup Serialized /\ o \in [Owners!Days -> Stamps]
      BY <2>o DEF OwnersInv, OwnersTyped, Serialized
    <2> DEFINE x == [pub[s] EXCEPT !.step = "owned", !.owners = o]
    <2>1. pub' = [pub EXCEPT ![s] = x]
      BY <1>3, <2>o DEF Owners!LookUpOwners, OwnersInv, OwnersTyped
    <2>2. x \in Pub /\ x.step = "owned" /\ x.new = {} /\ x.days = pub[s].days /\ x.owners = o
      BY <1>0, <2>p DEF Pub
    <2>3. assigned # {}
      BY <1>3 DEF Owners!Open
    <2>4. x.owners = [d \in Owners!Days |-> Owners!OwnerIn(assigned \cup x.new, d)]
      BY <2>0, <2>2, <2>o
    <2> HIDE DEF x
    <2> QED BY <1>0, <1>1, <2>1, <2>2, <2>3, <2>4, PubStep
  <1> QED BY <1>2, <1>3

LEMMA LockAccountInv ==
    ASSUME Owners!OwnershipAssumption, OwnersInv, NEW s \in Sources, Owners!LockAccount(s) PROVE OwnersInv'
  <1> DEFINE x == [pub[s] EXCEPT !.step = "assigning"]
  <1>1. pub' = [pub EXCEPT ![s] = x] /\ pub[s].step = "unowned" /\ accLock = Nobody /\ accLock' = s
        /\ UNCHANGED <<assigned, costs, Owners!customers, srcLock, dayLock, Owners!operator, Owners!history>>
    BY DEF Owners!LockAccount
  <1>2. x \in Pub /\ x.step = "assigning" /\ x.new = {} /\ x.days = pub[s].days
    BY <1>1, PubIs DEF Serialized, Publishing
  <1> HIDE DEF x
  <1>3. LocksKept(s) /\ srcLock'[s] = s /\ dayLock' = s
    BY <1>1, Constants, PubIs DEF LocksKept, OwnersInv, OwnersTyped, Publishing, Serialized
  <1>4. refused' \in BOOLEAN /\ owed' = owed
    BY <1>1 DEF Owners!history, OwnersInv, OwnersTyped
  <1>5. \A o \in Sources \ {s}, d \in pub[s].days : costs[o][d] = Owners!Absent
    BY <1>1, PubIs DEF Publishing, Serialized, Checked
  <1> QED BY <1>1, <1>2, <1>3, <1>4, <1>5, PubStep

LEMMA AutoAssignInv ==
    ASSUME Owners!OwnershipAssumption, OwnersInv, NEW s \in Sources, Owners!AutoAssign(s) PROVE OwnersInv'
  <1>0. /\ pub[s].step = "assigning" /\ UNCHANGED <<assigned, costs, Owners!customers, Owners!operator>>
        /\ Publishing(s) /\ pub[s].new = {} /\ accLock = s /\ srcLock[s] = s /\ dayLock = s
        /\ assigned \subseteq Owners!Assignment /\ refused \in BOOLEAN
        /\ \A o \in Sources \ {s}, d \in pub[s].days : costs[o][d] = Owners!Absent
    BY PubIs DEF Owners!AutoAssign, Publishing, OwnersInv, Proper, OwnersTyped, Serialized, Checked
  <1>1. CASE Owners!Open # {} /\ \E a \in Owners!Open : a.customer = Owner[s]
    <2>0. [d \in Owners!Days |-> Owners!OwnerIn(assigned, d)] \in [Owners!Days -> Stamps]
            /\ assigned \cup {} = assigned
      BY <1>0, OwnerTyped
    <2>o. PICK o \in [Owners!Days -> Stamps] : o = [d \in Owners!Days |-> Owners!OwnerIn(assigned, d)]
      BY <2>0
    <2>p. pub[s] \in Pub /\ "owned" \in {"idle", "locked"} \cup Serialized /\ o \in [Owners!Days -> Stamps]
      BY <2>o DEF OwnersInv, OwnersTyped, Serialized
    <2> DEFINE x == [pub[s] EXCEPT !.step = "owned", !.owners = o]
    <2>1. pub' = [pub EXCEPT ![s] = x] /\ UNCHANGED <<Owners!locks, Owners!history>>
      BY <1>1, <2>o DEF Owners!AutoAssign, OwnersInv, OwnersTyped
    <2>2. x \in Pub /\ x.step = "owned" /\ x.new = {} /\ x.days = pub[s].days /\ x.owners = o
      BY <1>0, <2>p DEF Pub
    <2>3. assigned # {}
      BY <1>1 DEF Owners!Open
    <2>4. x.owners = [d \in Owners!Days |-> Owners!OwnerIn(assigned \cup x.new, d)]
      BY <2>0, <2>2, <2>o
    <2> HIDE DEF x
    <2>5. LocksKept(s) /\ srcLock'[s] = s /\ dayLock' = s /\ refused' \in BOOLEAN /\ owed' = owed
      BY <1>0, <2>1, UnchangedKeeps DEF Owners!locks, Owners!history
    <2> QED BY <1>0, <2>1, <2>2, <2>3, <2>4, <2>5, PubStep
  <1>2. CASE Owners!Open # {} /\ ~\E a \in Owners!Open : a.customer = Owner[s]
    <2>1. Owners!Abort(s) /\ UNCHANGED Owners!history
      BY <1>2 DEF Owners!AutoAssign
    <2> QED BY <1>0, <2>1, AbortInv DEF Owners!history
  <1>3. CASE Owners!Open = {} /\ \E a \in assigned : Owners!Overlap(a, Owners!Automatic(s))
    <2>1. Owners!Abort(s) /\ refused' = (refused \/ Owners!Returned(s)) /\ UNCHANGED owed
      BY <1>3 DEF Owners!AutoAssign
    <2>2. refused' \in BOOLEAN
      BY <2>1
    <2> QED BY <1>0, <2>1, <2>2, AbortInv
  <1>4. CASE Owners!Open = {} /\ ~\E a \in assigned : Owners!Overlap(a, Owners!Automatic(s))
    <2>1. assigned = {} /\ {Owners!Automatic(s)} \in SUBSET Owners!Assignment
      BY <1>4, NoOverlapIsNone, AutomaticProper DEF OwnersInv, Proper
    <2>2. [d \in Owners!Days |-> Owners!OwnerIn(assigned \cup {Owners!Automatic(s)}, d)] \in [Owners!Days -> Stamps]
      <3>1. assigned \cup {Owners!Automatic(s)} \subseteq Owners!Assignment
        BY <2>1
      <3> QED BY <3>1, OwnerTyped
    <2>n. PICK new \in SUBSET Owners!Assignment : new = {Owners!Automatic(s)}
      BY <2>1
    <2>o. PICK o \in [Owners!Days -> Stamps] : o = [d \in Owners!Days |-> Owners!OwnerIn(assigned \cup {Owners!Automatic(s)}, d)]
      BY <2>2
    <2>p. pub[s] \in Pub /\ "owned" \in {"idle", "locked"} \cup Serialized
          /\ o \in [Owners!Days -> Stamps] /\ new \in SUBSET Owners!Assignment
      BY <2>n, <2>o DEF OwnersInv, OwnersTyped, Serialized
    <2>3. PICK x : x = [pub[s] EXCEPT !.step = "owned", !.new = new, !.owners = o]
      OBVIOUS
    <2>4. x \in Pub /\ x.step = "owned" /\ x.new = new /\ x.days = pub[s].days /\ x.owners = o
      BY <2>3, <2>p DEF Pub
    <2>5. /\ pub' = [pub EXCEPT ![s] = [pub[s] EXCEPT !.step = "owned", !.new = {Owners!Automatic(s)},
                 !.owners = [d \in Owners!Days |-> Owners!OwnerIn(assigned \cup {Owners!Automatic(s)}, d)]]]
          /\ srcLock[Home] \in {Nobody, s}
          /\ srcLock' = [srcLock EXCEPT ![Home] = s] /\ UNCHANGED <<accLock, dayLock, Owners!history>>
      BY <1>4 DEF Owners!AutoAssign, OwnersInv, OwnersTyped
    <2>6. pub' = [pub EXCEPT ![s] = x]
      BY <2>3, <2>5, <2>n, <2>o
    <2>7. x.owners = [d \in Owners!Days |-> Owners!OwnerIn(assigned \cup x.new, d)]
            /\ x.new = {Owners!Automatic(s)}
      BY <2>4, <2>n, <2>o
    <2>8. LocksKept(s) /\ srcLock'[s] = s /\ srcLock'[Home] = s
      BY <1>0, <2>5, Constants DEF LocksKept, OwnersInv, OwnersTyped
    <2>9. refused' \in BOOLEAN /\ owed' = owed /\ accLock' = s /\ dayLock' = s
      BY <1>0, <2>5 DEF Owners!history
    <2>10. UNCHANGED <<assigned, costs, Owners!customers, Owners!operator, owed>>
      BY <1>0, <2>9
    <2>11. \A k \in Sources \ {s}, d \in x.days : costs[k][d] = Owners!Absent
      BY <1>0, <2>4
    <2> QED BY <2>1, <2>4, <2>6, <2>7, <2>8, <2>9, <2>10, <2>11, PubStep
  <1> QED BY <1>1, <1>2, <1>3, <1>4

\* The commit of a publication.
LEMMA PublishInv ==
    ASSUME Owners!OwnershipAssumption, OwnersInv, NEW s \in Sources, Owners!Publish(s) PROVE OwnersInv'
  <1>0. /\ pub[s].step = "owned" /\ UNCHANGED <<Owners!customers, Owners!operator, Owners!history>>
        /\ costs' = [costs EXCEPT ![s] = [d \in Owners!Days |-> IF d \in pub[s].days THEN pub[s].owners[d] ELSE Owners!Absent]]
        /\ assigned' = assigned \cup pub[s].new
        /\ pub' = [pub EXCEPT ![s] = Owners!IdlePub] /\ LocksKept(s)
    BY FreedKeeps DEF Owners!Publish, Owners!Abort
  <1>1. /\ pub[s] \in Pub /\ Publishing(s) /\ pub[s].owners \in [Owners!Days -> Stamps] /\ srcLock[s] = s
        /\ dayLock = s /\ Home \in Sources /\ s # "operator" /\ s # Nobody
        /\ \A o \in Sources \ {s}, d \in pub[s].days : costs[o][d] = Owners!Absent
    BY <1>0, PubIs, Constants DEF Publishing, Serialized, Checked
  <1>2. /\ pub'[s] = Owners!IdlePub /\ Owners!IdlePub \in Pub /\ Owners!IdlePub.step = "idle"
           /\ Owners!IdlePub.new = {}
        /\ \A t \in Sources \ {s} : pub'[t] = pub[t]
    BY <1>0 DEF OwnersInv, OwnersTyped, Owners!IdlePub, Pub
  <1>3. Proper(assigned') /\ assigned' # {} /\ (pub[s].new # {} => assigned = {})
    <2>1. CASE pub[s].new = {}
      <3>1. assigned' = assigned /\ assigned # {}
        BY <1>0, <1>1, <2>1 DEF Publishing
      <3> QED BY <2>1, <3>1 DEF OwnersInv
    <2>2. CASE pub[s].new # {}
      <3>1. assigned' = {Owners!Automatic(s)} /\ assigned = {}
        BY <1>0, <1>1, <2>2 DEF Publishing
      <3> QED BY <3>1, AutomaticProper
    <2> QED BY <2>1, <2>2
  <1>4. costs' \in [Sources -> [Owners!Days -> Stamps]]
    <2>1. [d \in Owners!Days |-> IF d \in pub[s].days THEN pub[s].owners[d] ELSE Owners!Absent] \in [Owners!Days -> Stamps]
      BY <1>1 DEF Stamps
    <2> QED BY <1>0, <2>1 DEF OwnersInv, OwnersTyped
  <1>5. OwnersTyped'
    BY <1>0, <1>2, <1>4 DEF OwnersInv, OwnersTyped, LocksKept, Owners!customers, Owners!operator,
         Owners!history
  <1>6. /\ \A o \in Sources \ {s} : costs'[o] = costs[o]
        /\ \A d \in Owners!Days : costs'[s][d] = IF d \in pub[s].days THEN pub[s].owners[d] ELSE Owners!Absent
    BY <1>0 DEF OwnersInv, OwnersTyped
  <1>7. Publishing(s)'
    BY <1>2 DEF Publishing, Serialized, Checked
  <1>8. ASSUME NEW t \in Sources \ {s} PROVE Publishing(t)'
    <2>1. Publishing(t) /\ pub'[t] = pub[t] /\ pub[t].step \notin Serialized
      BY <1>1, <1>2 DEF OwnersInv, Publishing
    <2>2. pub[t].step # "owned" /\ pub[t].step # "assigning" /\ pub[t].step \notin Checked
      BY <2>1 DEF Serialized, Checked
    <2> QED BY <1>0, <2>1, <2>2 DEF Publishing, LocksKept
  <1>9. LookedUp'
    <2>1. pub'[Home].step # "owned"
      <3>1. CASE s = Home
        BY <1>2, <3>1
      <3>2. CASE s # Home
        <4>1. pub[Home].step \notin Serialized
          BY <1>1, <3>2 DEF OwnersInv, Publishing
        <4> QED BY <1>1, <1>2, <3>2, <4>1 DEF Serialized
      <3> QED BY <3>1, <3>2
    <2> QED BY <2>1 DEF LookedUp
  <1>10. Transferring'
    <2>1. transfer.step = "restamp" => assigned' = assigned
      <3>1. pub[s].new # {} => srcLock[Home] = s
        BY <1>1 DEF Publishing
      <3>2. transfer.step = "restamp" => pub[s].new = {}
        BY <1>1, <3>1 DEF OwnersInv, Transferring
      <3> QED BY <1>0, <3>2
    <2>2. transfer' = transfer /\ LocksKept(s)
      BY <1>0 DEF Owners!operator
    <2>3. transfer.step = "restamp" =>
             /\ Owners!Refused(transfer.customer, transfer.start)' = Owners!Refused(transfer.customer, transfer.start)
             /\ Owners!Transferred(transfer.customer, transfer.start)' = Owners!Transferred(transfer.customer, transfer.start)
      BY <2>1, <2>2 DEF Owners!Refused, Owners!Transferred, Owners!Ended, Owners!Open
    <2> QED BY <1>1, <2>2, <2>3 DEF OwnersInv, Transferring, LocksKept
  <1>11. Owners!OwnRowsAreStamped'
    <2>1. CASE s = Home
      <3>1. pub[s].owners = [d \in Owners!Days |-> Owners!OwnerIn(assigned', d)]
        BY <1>0, <2>1 DEF OwnersInv, LookedUp
      <3>2. \A d \in Owners!Days : costs'[Home][d] = Owners!Absent
              \/ costs'[Home][d] = Owners!OwnerIn(assigned', d)
        BY <1>6, <2>1, <3>1
      <3> QED BY <3>2 DEF Owners!OwnRowsAreStamped, Owners!Stamped
    <2>2. CASE s # Home
      <3>1. CASE pub[s].new = {}
        BY <1>0, <1>1, <1>6, <2>2, <3>1 DEF OwnersInv, Owners!OwnRowsAreStamped, Owners!Stamped,
             Owners!history
      <3>2. CASE pub[s].new # {}
        BY <1>1, <1>3, <1>6, <2>2, <3>2 DEF OwnersInv, NoneYet, Owners!OwnRowsAreStamped, Owners!Stamped
      <3> QED BY <3>1, <3>2
    <2> QED BY <2>1, <2>2
  <1>12. Owners!OneSourcePerDay'
    BY <1>1, <1>6 DEF OwnersInv, Owners!OneSourcePerDay
  <1> QED
    BY <1>3, <1>5, <1>7, <1>8, <1>9, <1>10, <1>11, <1>12 DEF OwnersInv, NoneYet

-----------------------------------------------------------------------------
(* The operator. *)

\* A request that locks or gives up.
LEMMA TransferStep ==
    ASSUME Owners!OwnershipAssumption, OwnersInv, LocksKept("operator"), transfers' \in 0..MaxTransfers,
           UNCHANGED <<assigned, Owners!publications, Owners!customers, Owners!history>>, Transferring',
           transfer' \in [step : {"idle", "assigning", "restamp"}, customer : Customers \cup {Nobody},
                          start : 0..LastDay, new : SUBSET Owners!Assignment]
    PROVE  OwnersInv'
  <1>1. OwnersTyped'
    BY DEF OwnersInv, OwnersTyped, LocksKept, Owners!customers, Owners!publications, Owners!history
  <1>2. ASSUME NEW t \in Sources PROVE Publishing(t)'
    <2>1. Publishing(t) /\ pub' = pub /\ costs' = costs /\ Home \in Sources /\ t # "operator"
      BY Constants DEF OwnersInv, Owners!publications
    <2> QED BY <2>1 DEF Publishing, LocksKept
  <1>3. (Proper(assigned) /\ NoneYet /\ Owners!OwnRowsAreStamped /\ Owners!OneSourcePerDay /\ LookedUp)'
    BY DEF OwnersInv, NoneYet, Owners!OwnRowsAreStamped, Owners!Stamped, Owners!OneSourcePerDay,
         LookedUp, Owners!publications, Owners!history
  <1> QED BY <1>1, <1>2, <1>3 DEF OwnersInv

LEMMA IdleTransferIs ==
    ASSUME Owners!OwnershipAssumption
    PROVE  /\ Owners!IdleTransfer \in [step : {"idle", "assigning", "restamp"}, customer : Customers \cup {Nobody},
                                start : 0..LastDay, new : SUBSET Owners!Assignment]
           /\ Owners!IdleTransfer.step = "idle"
  <1>1. 0 \in 0..LastDay
    BY Constants
  <1> QED BY <1>1 DEF Owners!IdleTransfer

LEMMA TransferEnds ==
    ASSUME Owners!OwnershipAssumption, OwnersInv, transfer' = Owners!IdleTransfer, Owners!Freed("operator"),
           UNCHANGED transfers,
           UNCHANGED <<assigned, Owners!publications, Owners!customers, Owners!history>>
    PROVE  OwnersInv'
  <1>1. LocksKept("operator") /\ Transferring' /\ transfers' \in 0..MaxTransfers
    BY FreedKeeps, IdleTransferIs DEF Transferring, OwnersInv, OwnersTyped
  <1> QED BY <1>1, IdleTransferIs, TransferStep

LEMMA BeginTransferInv ==
    ASSUME Owners!OwnershipAssumption, OwnersInv, NEW c \in Customers, NEW start \in Owners!Days,
           Owners!BeginTransfer(c, start)
    PROVE  OwnersInv'
  <1>1. PICK t : t = [Owners!IdleTransfer EXCEPT !.step = "assigning", !.customer = c, !.start = start]
    OBVIOUS
  <1>2. /\ transfers' = transfers + 1 /\ transfers < MaxTransfers /\ accLock = Nobody /\ accLock' = "operator"
        /\ transfer' = t /\ UNCHANGED <<assigned, Owners!publications, Owners!customers, srcLock, dayLock, Owners!history>>
    BY <1>1 DEF Owners!BeginTransfer
  <1>3. start \in 0..LastDay
    BY Constants DEF Owners!Days
  <1>4. /\ t \in [step : {"idle", "assigning", "restamp"}, customer : Customers \cup {Nobody},
                  start : 0..LastDay, new : SUBSET Owners!Assignment]
        /\ t.step = "assigning" /\ t.customer = c /\ t.start = start
    <2> HIDE DEF Owners!IdleTransfer
    <2> QED BY <1>1, <1>3, IdleTransferIs
  <1>5. transfers' \in 0..MaxTransfers
    BY <1>2, Constants DEF OwnersInv, OwnersTyped
  <1>6. LocksKept("operator")
    BY <1>2, Constants DEF LocksKept, OwnersInv, OwnersTyped
  <1>7. Transferring'
    BY <1>2, <1>4 DEF Transferring
  <1> QED BY <1>2, <1>4, <1>5, <1>6, <1>7, TransferStep

LEMMA AssignInv ==
    ASSUME Owners!OwnershipAssumption, OwnersInv, Owners!Assign PROVE OwnersInv'
  <1>0. /\ transfer.step = "assigning"
           /\ UNCHANGED <<assigned, Owners!publications, Owners!customers, transfers, Owners!history>>
        /\ accLock = "operator" /\ transfer.customer \in Customers /\ transfer.start \in Owners!Days
    BY DEF Owners!Assign, OwnersInv, Transferring
  <1>1. CASE Owners!Refused(transfer.customer, transfer.start)
    BY <1>0, <1>1, TransferEnds DEF Owners!Assign
  <1>2. CASE ~Owners!Refused(transfer.customer, transfer.start)
    <2> DEFINE new == Owners!Transferred(transfer.customer, transfer.start)
    <2>1. PICK t : t = [transfer EXCEPT !.step = "restamp", !.new = new]
      OBVIOUS
    <2>2. new \subseteq Owners!Assignment
      BY <1>0, <1>2, TransferredIs DEF OwnersInv, Proper
    <2>3. /\ srcLock[Home] = Nobody /\ srcLock' = [srcLock EXCEPT ![Home] = "operator"]
          /\ transfer' = t /\ UNCHANGED <<accLock, dayLock>>
      BY <1>2, <2>1 DEF Owners!Assign
    <2>4. /\ t \in [step : {"idle", "assigning", "restamp"}, customer : Customers \cup {Nobody},
                    start : 0..LastDay, new : SUBSET Owners!Assignment]
          /\ t.step = "restamp" /\ t.customer = transfer.customer /\ t.start = transfer.start /\ t.new = new
      <3> HIDE DEF new
      <3> QED BY <2>1, <2>2 DEF OwnersInv, OwnersTyped
    <2>5. LocksKept("operator") /\ srcLock'[Home] = "operator"
      BY <2>3, Constants DEF LocksKept, OwnersInv, OwnersTyped
    <2>6. /\ Owners!Refused(transfer.customer, transfer.start)' = Owners!Refused(t.customer, t.start)
          /\ Owners!Transferred(transfer.customer, transfer.start)' = Owners!Transferred(t.customer, t.start)
      BY <1>0, <2>3 DEF Owners!Refused, Owners!Transferred, Owners!Ended, Owners!Open
    <2>7. Transferring'
      BY <1>0, <1>2, <2>3, <2>4, <2>5, <2>6 DEF Transferring
    <2>8. transfers' \in 0..MaxTransfers
      BY <1>0 DEF OwnersInv, OwnersTyped
    <2> QED BY <1>0, <2>3, <2>4, <2>5, <2>7, <2>8, TransferStep
  <1> QED BY <1>1, <1>2

\* The commit of a transfer.
LEMMA RestampInv ==
    ASSUME Owners!OwnershipAssumption, OwnersInv, Owners!Restamp PROVE OwnersInv'
  <1>0. /\ transfer.step = "restamp" /\ assigned' = transfer.new
        /\ costs' = [s \in Sources |-> [d \in Owners!Days |->
                        IF costs[s][d] = Owners!Absent \/ d < transfer.start THEN costs[s][d]
                        ELSE Owners!OwnerIn(transfer.new, d)]]
        /\ owed' = owed \ Owners!From(transfer.start) /\ transfer' = Owners!IdleTransfer
           /\ LocksKept("operator")
        /\ UNCHANGED <<pub, Owners!customers, transfers, refused>>
    BY FreedKeeps DEF Owners!Restamp
  <1>1. /\ transfer.customer \in Customers /\ transfer.start \in Owners!Days /\ srcLock[Home] = "operator"
        /\ accLock = "operator" /\ transfer.new = Owners!Transferred(transfer.customer, transfer.start)
        /\ ~Owners!Refused(transfer.customer, transfer.start) /\ Home \in Sources
    BY <1>0, Constants DEF OwnersInv, Transferring
  <1>2. /\ Proper(transfer.new) /\ transfer.new # {} /\ transfer.new \subseteq Owners!Assignment
        /\ \A d \in Owners!Days : d < transfer.start => Owners!OwnerIn(transfer.new, d) = Owners!OwnerIn(assigned, d)
    BY <1>1, TransferredIs DEF OwnersInv, Proper
  <1>3. \A s \in Sources, d \in Owners!Days :
            /\ costs'[s][d] = IF costs[s][d] = Owners!Absent \/ d < transfer.start THEN costs[s][d]
                              ELSE Owners!OwnerIn(transfer.new, d)
            /\ costs'[s][d] \in Stamps /\ (costs'[s][d] # Owners!Absent => costs[s][d] # Owners!Absent)
            /\ (costs[s][d] = Owners!Absent => costs'[s][d] = Owners!Absent)
    BY <1>0, <1>2, OwnerTyped DEF OwnersInv, OwnersTyped
  <1>4. costs' \in [Sources -> [Owners!Days -> Stamps]]
    BY <1>0, <1>3
  <1>5. OwnersTyped'
    BY <1>0, <1>4, IdleTransferIs DEF OwnersInv, OwnersTyped, LocksKept, Owners!customers
  <1>6. Transferring'
    BY <1>0, IdleTransferIs DEF Transferring
  <1>7. ASSUME NEW t \in Sources PROVE Publishing(t)'
    <2>1. Publishing(t) /\ pub'[t] = pub[t] /\ t # "operator" /\ pub[t].new = {}
            /\ pub[t].days \subseteq Owners!Days
      BY <1>0, <1>1, Constants DEF OwnersInv, Publishing, OwnersTyped, Pub
    <2>2. \A o \in Sources, d \in pub[t].days : costs[o][d] = Owners!Absent => costs'[o][d] = Owners!Absent
      BY <1>3, <2>1
    <2> QED BY <1>0, <1>1, <1>2, <2>1, <2>2 DEF Publishing, LocksKept
  <1>8. LookedUp'
    <2>1. pub[Home].step = "idle"
      BY <1>1, Constants DEF OwnersInv, Publishing
    <2> QED BY <1>0, <2>1 DEF LookedUp
  <1>9. Owners!OwnRowsAreStamped'
    <2>1. ASSUME NEW d \in Owners!Days PROVE Owners!Stamped(Home, d)'
      <3>0. d \in Nat /\ transfer.start \in Nat
        BY <1>1, Constants DEF Owners!Days
      <3>1. CASE d < transfer.start
        <4>1. d \notin Owners!From(transfer.start)
          BY <3>0, <3>1 DEF Owners!From
        <4>2. Owners!Stamped(Home, d)
          BY DEF OwnersInv, Owners!OwnRowsAreStamped
        <4>3. costs'[Home][d] = costs[Home][d]
          BY <1>1, <1>3, <3>1
        <4> QED BY <1>0, <1>2, <3>1, <4>1, <4>2, <4>3 DEF Owners!Stamped
      <3>2. CASE ~(d < transfer.start)
        BY <1>0, <1>1, <1>3, <3>2 DEF Owners!Stamped
      <3> QED BY <3>1, <3>2
    <2> QED BY <2>1 DEF Owners!OwnRowsAreStamped
  <1>10. Owners!OneSourcePerDay'
    BY <1>3 DEF OwnersInv, Owners!OneSourcePerDay
  <1>11. (Proper(assigned) /\ NoneYet)'
    BY <1>0, <1>2 DEF NoneYet
  <1> QED BY <1>5, <1>6, <1>7, <1>8, <1>9, <1>10, <1>11 DEF OwnersInv

-----------------------------------------------------------------------------
(* Customers, and the database. *)

LEMMA OffboardInv ==
    ASSUME Owners!OwnershipAssumption, OwnersInv, NEW c \in Customers, Owners!Offboard(c) PROVE OwnersInv'
  <1>0. /\ active' = active \ {c} /\ enabled' = {s \in enabled : Owner[s] # c}
        /\ srcLock[Home] = Nobody /\ UNCHANGED <<Owners!publications, Owners!locks, Owners!operator, refused>>
        /\ assigned' = {ClosedBy(c, a) : a \in assigned} /\ owed' = owed \cup Left(c)
    BY Constants DEF Owners!Offboard, ClosedBy, Left
  <1>1. /\ Proper(assigned') /\ (assigned' = {} <=> assigned = {})
        /\ \A d \in Owners!Days : d \notin Left(c) => Owners!OwnerIn(assigned', d) = Owners!OwnerIn(assigned, d)
    BY <1>0, ClosedIs DEF OwnersInv
  <1>2. Home \in Sources /\ Nobody # "operator" /\ Nobody \notin Sources
    BY Constants
  <1>3. pub[Home].step = "idle" /\ transfer.step # "restamp"
    BY <1>0, <1>2 DEF OwnersInv, Publishing, Transferring
  <1>4. costs' = costs /\ pub' = pub /\ transfer' = transfer /\ transfers' = transfers
        /\ srcLock' = srcLock /\ accLock' = accLock /\ dayLock' = dayLock
    BY <1>0 DEF Owners!publications, Owners!locks, Owners!operator
  <1>5. OwnersTyped'
    <2>1. Left(c) \subseteq Owners!Days
      BY DEF Left, Owners!From
    <2> QED BY <1>0, <1>4, <2>1 DEF OwnersInv, OwnersTyped
  <1>6. ASSUME NEW t \in Sources PROVE Publishing(t)'
    <2>1. Publishing(t) /\ pub[t].new = {}
      BY <1>0, <1>2 DEF OwnersInv, Publishing
    <2> QED BY <1>1, <1>4, <2>1 DEF Publishing
  <1>7. Owners!OwnRowsAreStamped'
    BY <1>0, <1>1, <1>4 DEF OwnersInv, Owners!OwnRowsAreStamped, Owners!Stamped
  <1>8. (NoneYet /\ Transferring /\ LookedUp /\ Owners!OneSourcePerDay)'
    BY <1>1, <1>3, <1>4 DEF OwnersInv, NoneYet, Transferring, LookedUp, Owners!OneSourcePerDay
  <1> QED BY <1>1, <1>5, <1>6, <1>7, <1>8 DEF OwnersInv

\* A step that only changes which customers and connections are active.
LEMMA CustomersStep ==
    ASSUME Owners!OwnershipAssumption, OwnersInv, active' \subseteq Customers, enabled' \subseteq Sources,
           UNCHANGED <<assigned, Owners!publications, Owners!locks, Owners!operator, Owners!history>>
    PROVE  OwnersInv'
  <1>1. /\ assigned' = assigned /\ costs' = costs /\ pub' = pub /\ transfer' = transfer
        /\ transfers' = transfers /\ owed' = owed /\ refused' = refused
        /\ srcLock' = srcLock /\ accLock' = accLock /\ dayLock' = dayLock
    BY DEF Owners!publications, Owners!locks, Owners!operator, Owners!history
  <1>2. OwnersTyped'
    BY <1>1 DEF OwnersInv, OwnersTyped
  <1>3. /\ Owners!Refused(transfer.customer, transfer.start)' = Owners!Refused(transfer.customer, transfer.start)
        /\ Owners!Transferred(transfer.customer, transfer.start)' = Owners!Transferred(transfer.customer, transfer.start)
    BY <1>1 DEF Owners!Refused, Owners!Transferred, Owners!Ended, Owners!Open
  <1>4. Transferring'
    BY <1>1, <1>3 DEF OwnersInv, Transferring
  <1>5. \A s \in Sources : Publishing(s)'
    BY <1>1 DEF OwnersInv, Publishing
  <1>6. (Proper(assigned) /\ NoneYet /\ LookedUp /\ Owners!OwnRowsAreStamped /\ Owners!OneSourcePerDay)'
    BY <1>1 DEF OwnersInv, NoneYet, LookedUp, Owners!OwnRowsAreStamped, Owners!Stamped,
         Owners!OneSourcePerDay
  <1> QED BY <1>2, <1>4, <1>5, <1>6 DEF OwnersInv

LEMMA OwnersNext ==
    ASSUME Owners!OwnershipAssumption
    PROVE  OwnersInv /\ [Owners!Next]_(Owners!vars) => OwnersInv'
  <1> SUFFICES ASSUME OwnersInv, [Owners!Next]_(Owners!vars) PROVE OwnersInv'
    OBVIOUS
  <1>1. ASSUME NEW s \in Sources, NEW D \in SUBSET Owners!Days, Owners!BeginPublication(s, D)
        PROVE  OwnersInv'
    BY <1>1, BeginPublicationInv
  <1>2. ASSUME NEW s \in Sources, Owners!Publication(s) PROVE OwnersInv'
    BY <1>2, SerializeInv, CheckOverlapInv, LookUpOwnersInv, LockAccountInv, AutoAssignInv, PublishInv
       DEF Owners!Publication
  <1>3. ASSUME NEW s \in Sources, Owners!Resume(s) PROVE OwnersInv'
    <2>1. /\ enabled' \subseteq Sources /\ active' \subseteq Customers
          /\ UNCHANGED <<assigned, Owners!publications, Owners!locks, Owners!operator, Owners!history>>
      BY <1>3 DEF Owners!Resume, OwnersInv, OwnersTyped
    <2> QED BY <2>1, CustomersStep
  <1>4. ASSUME NEW c \in Customers, NEW start \in Owners!Days, Owners!BeginTransfer(c, start)
        PROVE  OwnersInv'
    BY <1>4, BeginTransferInv
  <1>5. ASSUME NEW c \in Customers, Owners!Offboard(c) PROVE OwnersInv'
    BY <1>5, OffboardInv
  <1>6. ASSUME NEW c \in Customers, Owners!Reactivate(c) PROVE OwnersInv'
    <2>1. /\ enabled' \subseteq Sources /\ active' \subseteq Customers
          /\ UNCHANGED <<assigned, Owners!publications, Owners!locks, Owners!operator, Owners!history>>
      BY <1>6 DEF Owners!Reactivate, OwnersInv, OwnersTyped
    <2> QED BY <2>1, CustomersStep
  <1>7. CASE Owners!Assign
    BY <1>7, AssignInv
  <1>8. CASE Owners!Restamp
    BY <1>8, RestampInv
  <1>9. CASE Owners!TransferDies
    BY <1>9, TransferEnds DEF Owners!TransferDies
  <1>10. CASE Owners!Detect
    <2>1. PICK x \in Sources \cup {"operator"} :
              /\ IF x = "operator"
                 THEN transfer' = Owners!IdleTransfer /\ Owners!Freed(x) /\ UNCHANGED <<pub, transfers>>
                 ELSE Owners!Abort(x) /\ UNCHANGED Owners!operator
              /\ UNCHANGED <<assigned, costs, Owners!customers, Owners!history>>
      BY <1>10 DEF Owners!Detect
    <2>2. CASE x = "operator"
      <3>1. UNCHANGED Owners!publications
        BY <2>1, <2>2 DEF Owners!publications
      <3> QED BY <2>1, <2>2, <3>1, TransferEnds
    <2>3. CASE x # "operator"
      <3>1. refused' \in BOOLEAN /\ UNCHANGED owed
        BY <2>1 DEF Owners!history, OwnersInv, OwnersTyped
      <3> QED BY <2>1, <2>3, <3>1, AbortInv
    <2> QED BY <2>2, <2>3
  <1>11. CASE UNCHANGED Owners!vars
    <2>1. active' \subseteq Customers /\ enabled' \subseteq Sources
      BY <1>11 DEF Owners!vars, Owners!customers, OwnersInv, OwnersTyped
    <2> QED BY <1>11, <2>1, CustomersStep DEF Owners!vars
  <1> QED
    BY <1>1, <1>2, <1>3, <1>4, <1>5, <1>6, <1>7, <1>8, <1>9, <1>10, <1>11 DEF Owners!Next

LEMMA OwnersMean == OwnersInv => Owners!TypeOK /\ Owners!OwnRowsAreStamped /\ Owners!OneSourcePerDay
  <1> SUFFICES ASSUME OwnersInv PROVE Owners!TypeOK
    BY DEF OwnersInv
  <1>1. \A s \in Sources : /\ pub[s].step \in {"idle", "locked", "serialized", "checked", "unowned", "assigning", "owned"}
                           /\ pub[s].days \subseteq Owners!Days /\ pub[s].new \subseteq Owners!Assignment
    BY DEF OwnersInv, OwnersTyped, Pub, Serialized
  <1>2. transfer.step \in {"idle", "assigning", "restamp"} /\ transfer.customer \in Customers \cup {Nobody}
    BY DEF OwnersInv, OwnersTyped
  <1> QED BY <1>1, <1>2 DEF OwnersInv, OwnersTyped, Proper, Owners!TypeOK, Stamps

\* The rows of the account's own connection carry the owner of their day, but for the days an
\* offboarding left, and no two connections publish the same day of the account, however their
\* publications, the transfers of the operator and the offboardings interleave.
THEOREM RowsStamped ==
    ASSUME Owners!OwnershipAssumption
    PROVE  Owners!Spec => [](Owners!OwnRowsAreStamped /\ Owners!OneSourcePerDay)
  <1>1. Owners!Init => OwnersInv
    BY OwnersInit
  <1>2. OwnersInv /\ [Owners!Next]_(Owners!vars) => OwnersInv'
    BY OwnersNext
  <1> QED BY <1>1, <1>2, OwnersMean, PTL DEF Owners!Spec

-----------------------------------------------------------------------------
(* Portfolio jobs.                                                          *)

\* A key that is active is of no settled job, a settled one is of one, and with one scheduler
\* the key it found no job of has none until it inserts its own.
OnceInv ==
    /\ Once!TypeOK
    /\ \A k \in Keys : settled[k] <= 1 /\ (made[k] => settled[k] = 0)
    /\ \A s \in Leaders : at[s] # "none" => ~Once!Found(at[s])

LEMMA OnceInit == Once!Init => OnceInv
  BY DEF Once!Init, OnceInv, Once!TypeOK

LEMMA OnceNext ==
    ASSUME \A s, t \in Leaders : s = t
    PROVE  OnceInv /\ [Once!Next]_(Once!vars) => OnceInv'
  <1> SUFFICES ASSUME OnceInv, [Once!Next]_(Once!vars) PROVE OnceInv'
    OBVIOUS
  <1>1. ASSUME NEW s \in Leaders, NEW k \in Keys, Once!Check(s, k) PROVE OnceInv'
    BY <1>1 DEF Once!Check, OnceInv, Once!TypeOK, Once!Found
  <1>2. ASSUME NEW s \in Leaders, Once!Insert(s) PROVE OnceInv'
    BY <1>2 DEF Once!Insert, OnceInv, Once!TypeOK, Once!Found
  <1>3. ASSUME NEW k \in Keys, Once!Run(k) PROVE OnceInv'
    <2>1. made[k] /\ settled[k] = 0
      BY <1>3 DEF Once!Run, OnceInv
    <2>2. /\ made' = [made EXCEPT ![k] = FALSE] /\ settled' = [settled EXCEPT ![k] = 1]
          /\ UNCHANGED at
      BY <1>3, <2>1 DEF Once!Run, OnceInv, Once!TypeOK
    <2> QED BY <2>1, <2>2 DEF OnceInv, Once!TypeOK, Once!Found
  <1>4. CASE UNCHANGED Once!vars
    BY <1>4 DEF Once!vars, OnceInv, Once!TypeOK, Once!Found
  <1> QED BY <1>1, <1>2, <1>3, <1>4 DEF Once!Next

LEMMA OnceMeans == OnceInv => Once!PortfolioOnce
  BY DEF OnceInv, Once!TypeOK, Once!PortfolioOnce

\* With one scheduler, a slot's portfolio-wide job is made once, however often it ticks.
THEOREM JobsOnce == ASSUME \A s, t \in Leaders : s = t PROVE Once!Spec => []Once!PortfolioOnce
  BY OnceInit, OnceNext, OnceMeans, PTL DEF Once!Spec

-----------------------------------------------------------------------------
(* The settings of a connection.                                            *)

\* What is verified was tested, in the row, in a form's copy and in the verification's; and a
\* form that has read the row has its role and its capabilities, which only a form writes.
CopyIsTested(copy) == copy.verified => Settings!Settings(copy) \in tested
SettingsInv ==
    /\ Settings!TypeOK
    /\ CopyIsTested(connection)
    /\ \A c \in Clients : web[c].step # "idle" => CopyIsTested(web[c].copy)
    /\ \A c \in Clients : web[c].step = "form" => /\ web[c].copy.role = connection.role
                                                 /\ web[c].copy.caps = connection.caps
    /\ verifier.step = "tested" => Settings!Settings(verifier.copy) \in tested

LEMMA SettingsInit == ASSUME Settings!ConnectionSettingsAssumption PROVE Settings!Init => SettingsInv
  <1> SUFFICES ASSUME Settings!Init PROVE SettingsInv
    OBVIOUS
  <1>1. connection \in Settings!Rows /\ connection.verified = FALSE /\ connection.role \in Roles
          /\ connection.version = 1
    <2>1. 1 \in 1..MaxVersions /\ 1 \in 1..MaxIds
      BY DEF Settings!ConnectionSettingsAssumption
    <2> QED BY <2>1 DEF Settings!Init, Settings!Rows
  <1>2. approved \subseteq requested /\ requested \subseteq Roles \X (1..MaxVersions)
    BY <1>1 DEF Settings!ConnectionSettingsAssumption, Settings!Init
  <1>3. /\ issued \in 1..MaxIds /\ trust \in [Roles -> 0..MaxIds] /\ edits \in 0..MaxEdits
        /\ tested \subseteq {Settings!Settings(r) : r \in Settings!Rows}
    BY DEF Settings!ConnectionSettingsAssumption, Settings!Init
  <1>4. web \in [Clients -> Settings!WebRequests] /\ verifier \in Settings!Jobs
    BY DEF Settings!Init, Settings!WebRequests, Settings!Jobs
  <1>5. (\A c \in Clients : web[c].step = "idle") /\ verifier.step = "idle"
    BY DEF Settings!Init, Settings!Idle
  <1> QED BY <1>1, <1>2, <1>3, <1>4, <1>5 DEF SettingsInv, Settings!TypeOK, CopyIsTested

\* A request keeps the rest: what it writes into its own state is typed and tested.
LEMMA WebStep ==
    ASSUME SettingsInv, NEW c \in Clients, NEW x \in Settings!WebRequests, web' = [web EXCEPT ![c] = x],
           x.step # "idle" => CopyIsTested(x.copy),
           x.step = "form" => x.copy.role = connection.role /\ x.copy.caps = connection.caps,
           UNCHANGED <<connection, approved, requested, issued, trust, verifier, tested, edits>>
    PROVE  SettingsInv'
  <1>1. Settings!TypeOK'
    BY DEF SettingsInv, Settings!TypeOK
  <1>2. \A d \in Clients : /\ web'[d].step # "idle" => CopyIsTested(web'[d].copy)
                           /\ web'[d].step = "form" => /\ web'[d].copy.role = connection.role
                                                       /\ web'[d].copy.caps = connection.caps
    BY DEF SettingsInv, Settings!TypeOK
  <1> QED BY <1>1, <1>2 DEF SettingsInv, CopyIsTested

\* A write of the row that keeps its role and capabilities, and that verifies nothing new.
LEMMA SettingsRowStep ==
    ASSUME SettingsInv, NEW new \in Settings!Rows, connection' = new, CopyIsTested(new),
           new.role = connection.role, new.caps = connection.caps,
           approved' \subseteq requested', requested' \subseteq Roles \X (1..MaxVersions),
           issued' \in 1..MaxIds, edits' \in 0..MaxEdits,
           UNCHANGED <<trust, web, verifier, tested>>
    PROVE  SettingsInv'
  <1>1. Settings!TypeOK'
    BY DEF SettingsInv, Settings!TypeOK
  <1> QED BY <1>1 DEF SettingsInv, CopyIsTested

\* What the verification writes.
LEMMA VerifierStep ==
    ASSUME SettingsInv, NEW x \in Settings!Jobs, verifier' = x, tested \subseteq tested',
           tested' \subseteq {Settings!Settings(r) : r \in Settings!Rows},
           x.step = "tested" => Settings!Settings(x.copy) \in tested',
           UNCHANGED <<connection, approved, requested, issued, trust, web, edits>>
    PROVE  SettingsInv'
  <1>1. Settings!TypeOK'
    BY DEF SettingsInv, Settings!TypeOK
  <1> QED BY <1>1 DEF SettingsInv, CopyIsTested

LEMMA FormInv ==
    ASSUME \A c, d \in Clients : c = d,
           SettingsInv, NEW c \in Clients, Settings!Open(c) \/ Settings!Compare(c) \/ Settings!Save(c)
    PROVE  SettingsInv'
  <1>0. connection \in Settings!Rows /\ web[c] \in Settings!WebRequests
          /\ Settings!Idle \in Settings!WebRequests
    BY DEF SettingsInv, Settings!TypeOK, Settings!WebRequests
  <1>1. CASE Settings!Open(c)
    <2> DEFINE x == [step |-> "form", copy |-> connection]
    <2>1. x \in Settings!WebRequests /\ x.copy = connection
      BY <1>0 DEF Settings!WebRequests
    <2>2. web' = [web EXCEPT ![c] = x]
          /\ UNCHANGED <<connection, approved, requested, issued, trust, verifier, tested, edits>>
      BY <1>1 DEF Settings!Open
    <2> HIDE DEF x
    <2> QED BY <2>1, <2>2, WebStep DEF SettingsInv
  <1>2. CASE Settings!Compare(c)
    <2> DEFINE old == web[c].copy
               new(r, k, changed) == [old EXCEPT !.role = r, !.caps = k,
                                                 !.version = IF changed THEN @ + 1 ELSE @,
                                                 !.verified = ~changed /\ @]
    <2>1. PICK r \in Roles, k \in Capabilities :
             LET changed == <<r, k>> # <<connection.role, connection.caps>>
             IN  /\ new(r, k, changed).version <= MaxVersions
                 /\ web' = [web EXCEPT ![c] = [step |-> "save", copy |-> new(r, k, changed)]]
      BY <1>2 DEF Settings!Compare
    <2>2. web[c].step = "form" /\ web[c] \in [step : {"form", "save"}, copy : Settings!Rows]
      <3>1. web[c].step = "form"
        BY <1>2 DEF Settings!Compare
      <3> QED BY <1>0, <3>1 DEF Settings!WebRequests, Settings!Idle
    <2>3. old \in Settings!Rows /\ CopyIsTested(old) /\ old.role = connection.role
            /\ old.caps = connection.caps
      BY <2>2 DEF SettingsInv
    <2>4. PICK changed \in BOOLEAN : changed = (<<r, k>> # <<connection.role, connection.caps>>)
      OBVIOUS
    <2> DEFINE copy == new(r, k, changed)
    <2>5. copy \in Settings!Rows /\ CopyIsTested(copy)
      <3>1. CASE changed = TRUE
        <4>1. copy = [old EXCEPT !.role = r, !.caps = k, !.version = @ + 1, !.verified = FALSE]
          BY <3>1, <2>3 DEF Settings!Rows
        <4>2. old.version + 1 <= MaxVersions
          BY <3>1, <2>1, <2>3, <2>4 DEF Settings!Rows
        <4>3. copy \in Settings!Rows
          <5>1. PICK v \in 1..MaxVersions : v = old.version + 1
            BY <4>2, <2>3 DEF Settings!Rows
          <5>2. [old EXCEPT !.role = r, !.caps = k, !.version = v, !.verified = FALSE] \in Settings!Rows
            BY <2>3 DEF Settings!Rows
          <5> QED BY <4>1, <5>1, <5>2
        <4>4. copy.verified = FALSE
          BY <4>1, <2>3 DEF Settings!Rows
        <4> QED BY <4>3, <4>4 DEF CopyIsTested
      <3>2. CASE changed = FALSE
        <4>1. copy = old
          BY <3>2, <2>3, <2>4 DEF Settings!Rows
        <4> QED BY <4>1, <2>3
      <3> QED BY <3>1, <3>2
    <2>6. web' = [web EXCEPT ![c] = [step |-> "save", copy |-> copy]]
          /\ UNCHANGED <<connection, approved, requested, issued, trust, verifier, tested, edits>>
      BY <2>1, <2>4, <1>2 DEF Settings!Compare
    <2> HIDE DEF copy
    <2> DEFINE x == [step |-> "save", copy |-> copy]
    <2>7. x \in Settings!WebRequests /\ x.copy = copy /\ x.step = "save"
      BY <2>5 DEF Settings!WebRequests
    <2>8. web' = [web EXCEPT ![c] = x]
      BY <2>6
    <2> HIDE DEF x
    <2> QED BY <2>5, <2>6, <2>7, <2>8, WebStep
  <1>3. CASE Settings!Save(c)
    <2>1. web[c] \in [step : {"form", "save"}, copy : Settings!Rows] /\ web[c].step = "save"
      BY <1>0, <1>3 DEF Settings!Save, Settings!WebRequests, Settings!Idle
    <2>2. connection' \in Settings!Rows /\ CopyIsTested(connection')
      BY <1>3, <2>1 DEF Settings!Save, SettingsInv
    <2>3. web' = [web EXCEPT ![c] = Settings!Idle]
            /\ UNCHANGED <<approved, issued, trust, verifier, tested, edits>>
      BY <1>3 DEF Settings!Save
    <2>4. requested' \subseteq Roles \X (1..MaxVersions) /\ requested \subseteq requested'
      BY <1>3, <2>1 DEF Settings!Save, SettingsInv, Settings!TypeOK, Settings!Rows
    <2>5. Settings!TypeOK'
      BY <1>0, <2>2, <2>3, <2>4 DEF SettingsInv, Settings!TypeOK
    <2>6. \A d \in Clients : web'[d].step = "idle"
      BY <2>3 DEF SettingsInv, Settings!TypeOK, Settings!Idle
    <2> QED BY <2>2, <2>3, <2>5, <2>6 DEF SettingsInv, CopyIsTested
  <1> QED BY <1>1, <1>2, <1>3

LEMMA AdministrationInv ==
    ASSUME Settings!ConnectionSettingsAssumption, SettingsInv,
           Settings!RotateExternalId \/ Settings!SetPaused \/ Settings!StopCustomer \/ Settings!ApproveRole
               \/ Settings!RevokeRole \/ Settings!InstallTrust
    PROVE  SettingsInv'
  <1>0. /\ connection \in Settings!Rows /\ approved \subseteq requested
           /\ requested \subseteq Roles \X (1..MaxVersions)
        /\ issued \in 1..MaxIds /\ edits \in 0..MaxEdits /\ CopyIsTested(connection)
        /\ MaxIds \in Nat /\ MaxVersions \in Nat /\ MaxEdits \in Nat
    BY DEF SettingsInv, Settings!TypeOK, Settings!ConnectionSettingsAssumption
  <1>1. CASE Settings!RotateExternalId
    <2> DEFINE new == [connection EXCEPT !.ext = issued + 1, !.version = @ + 1, !.verified = FALSE]
    <2>1. new \in Settings!Rows /\ CopyIsTested(new) /\ new.role = connection.role
            /\ new.caps = connection.caps
      <3>1. new.verified = FALSE /\ new.role = connection.role /\ new.caps = connection.caps
        BY <1>0 DEF Settings!Rows
      <3>2. new \in Settings!Rows
        <4>1. PICK v \in 1..MaxVersions, e \in 1..MaxIds : v = connection.version + 1 /\ e = issued + 1
          BY <1>0, <1>1 DEF Settings!RotateExternalId, Settings!Rows
        <4>2. [connection EXCEPT !.ext = e, !.version = v, !.verified = FALSE] \in Settings!Rows
          BY <1>0 DEF Settings!Rows
        <4> QED BY <4>1, <4>2
      <3> QED BY <3>1, <3>2 DEF CopyIsTested
    <2>2. connection' = new /\ issued' \in 1..MaxIds
          /\ UNCHANGED <<approved, requested, trust, web, verifier, tested, edits>>
      BY <1>0, <1>1 DEF Settings!RotateExternalId
    <2> HIDE DEF new
    <2> QED BY <1>0, <2>1, <2>2, SettingsRowStep
  <1>2. CASE Settings!SetPaused
    <2>1. PICK paused \in BOOLEAN : Settings!Edit([connection EXCEPT !.enabled = ~paused])
                 /\ UNCHANGED approved
      BY <1>2 DEF Settings!SetPaused
    <2> DEFINE new == [connection EXCEPT !.enabled = ~paused]
    <2>2. new \in Settings!Rows /\ CopyIsTested(new) /\ new.role = connection.role
            /\ new.caps = connection.caps
      BY <1>0 DEF Settings!Rows, CopyIsTested, Settings!Settings
    <2>3. connection' = new /\ edits' \in 0..MaxEdits
          /\ UNCHANGED <<approved, requested, issued, trust, web, verifier, tested>>
      BY <1>0, <2>1 DEF Settings!Edit
    <2> HIDE DEF new
    <2> QED BY <1>0, <2>2, <2>3, SettingsRowStep
  <1>3. CASE Settings!StopCustomer
    <2> DEFINE new == [connection EXCEPT !.enabled = FALSE, !.version = @ + 1, !.verified = FALSE]
    <2>1. new \in Settings!Rows /\ CopyIsTested(new) /\ new.role = connection.role
            /\ new.caps = connection.caps
      <3>1. new.verified = FALSE /\ new.role = connection.role /\ new.caps = connection.caps
        BY <1>0 DEF Settings!Rows
      <3>2. new \in Settings!Rows
        <4>1. PICK v \in 1..MaxVersions : v = connection.version + 1
          BY <1>0, <1>3 DEF Settings!StopCustomer, Settings!Rows
        <4>2. [connection EXCEPT !.enabled = FALSE, !.version = v, !.verified = FALSE] \in Settings!Rows
          BY <1>0 DEF Settings!Rows
        <4> QED BY <4>1, <4>2
      <3> QED BY <3>1, <3>2 DEF CopyIsTested
    <2>2. connection' = new /\ edits' \in 0..MaxEdits
          /\ UNCHANGED <<approved, requested, issued, trust, web, verifier, tested>>
      BY <1>0, <1>3 DEF Settings!StopCustomer, Settings!Edit
    <2> HIDE DEF new
    <2> QED BY <1>0, <2>1, <2>2, SettingsRowStep
  <1>4. CASE Settings!ApproveRole
    <2>1. <<connection.role, connection.version>> \in Roles \X (1..MaxVersions)
      BY <1>0 DEF Settings!Rows
    <2>2. Settings!TypeOK'
      BY <1>0, <1>4, <2>1 DEF Settings!ApproveRole, SettingsInv, Settings!TypeOK
    <2> QED BY <1>4, <2>2 DEF Settings!ApproveRole, SettingsInv, CopyIsTested
  <1>5. CASE Settings!RevokeRole
    <2> DEFINE new == [connection EXCEPT !.enabled = FALSE, !.verified = FALSE]
    <2>1. new \in Settings!Rows /\ CopyIsTested(new) /\ new.role = connection.role
            /\ new.caps = connection.caps
      BY <1>0 DEF Settings!Rows, CopyIsTested
    <2>2. connection' = new /\ edits' \in 0..MaxEdits /\ approved' \subseteq approved
          /\ UNCHANGED <<requested, issued, trust, web, verifier, tested>>
      BY <1>0, <1>5 DEF Settings!RevokeRole, Settings!Edit
    <2> HIDE DEF new
    <2> QED BY <1>0, <2>1, <2>2, SettingsRowStep
  <1>6. CASE Settings!InstallTrust
    <2>1. Settings!TypeOK'
      BY <1>0, <1>6 DEF Settings!InstallTrust, SettingsInv, Settings!TypeOK, Settings!Rows
    <2> QED BY <1>6, <2>1 DEF Settings!InstallTrust, SettingsInv, CopyIsTested
  <1> QED BY <1>1, <1>2, <1>3, <1>4, <1>5, <1>6

LEMMA VerificationInv ==
    ASSUME SettingsInv, Settings!LoadSource \/ Settings!VerifyTrust
             \/ Settings!VerifySource PROVE SettingsInv'
  <1>0. connection \in Settings!Rows /\ verifier \in Settings!Jobs /\ Settings!Idle \in Settings!Jobs
          /\ tested \subseteq {Settings!Settings(r) : r \in Settings!Rows}
    BY DEF SettingsInv, Settings!TypeOK, Settings!Jobs
  <1>1. CASE Settings!LoadSource
    <2>1. verifier' \in Settings!Jobs /\ verifier'.step = "loaded"
      BY <1>0, <1>1 DEF Settings!LoadSource, Settings!Jobs
    <2> QED BY <1>0, <1>1, <2>1, VerifierStep DEF Settings!LoadSource
  <1>2. CASE Settings!VerifyTrust
    <2>1. verifier \in [step : {"loaded", "tested"}, copy : Settings!Rows] /\ verifier.step = "loaded"
      BY <1>0, <1>2 DEF Settings!VerifyTrust, Settings!Jobs, Settings!Idle
    <2>2. CASE trust[verifier.copy.role] = verifier.copy.ext
      <3>1. verifier' = [verifier EXCEPT !.step = "tested"]
              /\ tested' = tested \cup {Settings!Settings(verifier.copy)}
            /\ UNCHANGED <<connection, approved, requested, issued, trust, web, edits>>
        BY <1>2, <2>2 DEF Settings!VerifyTrust
      <3>2. verifier' \in Settings!Jobs /\ verifier'.copy = verifier.copy
        BY <2>1, <3>1 DEF Settings!Jobs
      <3> QED BY <1>0, <2>1, <3>1, <3>2, VerifierStep
    <2>3. CASE trust[verifier.copy.role] # verifier.copy.ext
      <3>1. verifier' = Settings!Idle /\ UNCHANGED <<connection, approved, requested, issued, trust, web, edits, tested>>
        BY <1>2, <2>3 DEF Settings!VerifyTrust
      <3> QED BY <1>0, <3>1, VerifierStep DEF Settings!Idle
    <2> QED BY <2>2, <2>3
  <1>3. CASE Settings!VerifySource
    <2>1. verifier \in [step : {"loaded", "tested"}, copy : Settings!Rows] /\ verifier.step = "tested"
      BY <1>0, <1>3 DEF Settings!VerifySource, Settings!Jobs, Settings!Idle
    <2>2. PICK good \in BOOLEAN : good = Settings!Current(verifier.copy)
      BY DEF Settings!Current
    <2> DEFINE new == [connection EXCEPT !.verified = @ \/ good]
    <2>3. connection' = new
      BY <1>3, <2>2 DEF Settings!VerifySource
    <2>4. new \in Settings!Rows /\ Settings!Settings(new) = Settings!Settings(connection)
            /\ new.role = connection.role /\ new.caps = connection.caps
          /\ (new.verified => connection.verified \/ good)
      BY <1>0 DEF Settings!Rows, Settings!Settings
    <2>5. CopyIsTested(new)
      BY <2>1, <2>2, <2>4 DEF CopyIsTested, Settings!Current, SettingsInv
    <2> HIDE DEF new
    <2>6. UNCHANGED <<approved, requested, issued, trust, web, tested, edits>> /\ verifier' = Settings!Idle
      BY <1>3 DEF Settings!VerifySource
    <2>7. Settings!TypeOK'
      BY <1>0, <2>3, <2>4, <2>6 DEF SettingsInv, Settings!TypeOK
    <2> QED BY <2>3, <2>4, <2>5, <2>6, <2>7 DEF SettingsInv, CopyIsTested, Settings!Idle
  <1> QED BY <1>1, <1>2, <1>3

LEMMA SettingsNext ==
    ASSUME Settings!ConnectionSettingsAssumption, \A c, d \in Clients : c = d
    PROVE  SettingsInv /\ [Settings!Next]_(Settings!vars) => SettingsInv'
  <1> SUFFICES ASSUME SettingsInv, [Settings!Next]_(Settings!vars) PROVE SettingsInv'
    OBVIOUS
  <1>1. CASE UNCHANGED Settings!vars
    BY <1>1 DEF Settings!vars, SettingsInv, Settings!TypeOK, CopyIsTested
  <1> QED BY <1>1, FormInv, AdministrationInv, VerificationInv DEF Settings!Next

LEMMA SettingsMean == SettingsInv => Settings!TypeOK /\ Settings!VerifiedIsWhatWasTested
  BY DEF SettingsInv, CopyIsTested, Settings!VerifiedIsWhatWasTested

\* As long as one form is open at a time, settings that count as verified are settings AWS
\* accepted together, whatever rotations, revocations and verifications come in between
\* (views_management.py, collector.py).
THEOREM VerifiedWasTested ==
    ASSUME Settings!ConnectionSettingsAssumption, \A c, d \in Clients : c = d
    PROVE  Settings!Spec => []Settings!VerifiedIsWhatWasTested
  BY SettingsInit, SettingsNext, SettingsMean, PTL DEF Settings!Spec

-----------------------------------------------------------------------------
(* The schedule and its requests.                                           *)

-----------------------------------------------------------------------------
(* The first and the last of a set of rows exist. *)
Less == {p \in Nat \X Nat : p[1] < p[2]}

LEMMA LessIsWellFounded == IsWellFoundedOn(Less, Nat)
  BY NatLessThanWellFounded, Zenon DEF OpToRel, Less

\* A nonempty set of numbers has a smallest one.
LEMMA Least == ASSUME NEW T, T \subseteq Nat, T # {} PROVE \E x \in T : \A y \in T : x <= y
  <1>1. PICK x \in T : \A y \in T : ~ (<<y, x>> \in Less)
    BY LessIsWellFounded, WFMin, Zenon
  <1>2. ASSUME NEW y \in T, ~ (x <= y) PROVE FALSE
    <2>1. y \in Nat /\ x \in Nat /\ y < x
      BY <1>2
    <2>2. <<y, x>> \in Less
      BY <2>1 DEF Less
    <2> QED BY <1>1, <2>2
  <1> QED BY <1>2

\* A nonempty set of numbers with an upper bound has a largest one.
LEMMA Largest ==
    ASSUME NEW n \in Nat, NEW T, \A x \in T : x \in Nat /\ x <= n, T # {}
    PROVE  \E x \in T : \A y \in T : y <= x
  <1> DEFINE D == {n - x : x \in T}
  <1>1. D \subseteq Nat
    OBVIOUS
  <1>2. D # {}
    OBVIOUS
  <1> HIDE DEF D
  <1>3. PICK d \in D : \A c \in D : d <= c
    BY <1>1, <1>2, Least
  <1>4. PICK x \in T : d = n - x
    BY DEF D
  <1>5. \A y \in T : d <= n - y
    BY <1>3 DEF D
  <1> QED BY <1>4, <1>5

LEMMA FirstRow ==
    ASSUME Len(table) \in Nat, NEW S, S \subseteq Schedule!Rows, S # {}
    PROVE  Schedule!Earliest(S) \in S
  <1>0. S \subseteq Nat
    BY DEF Schedule!Rows
  <1>1. \E x \in S : \A y \in S : x <= y
    BY <1>0, Least
  <1> QED BY <1>1 DEF Schedule!Earliest

LEMMA LastRow ==
    ASSUME Len(table) \in Nat, NEW S, S \subseteq Schedule!Rows, S # {}
    PROVE  Schedule!Latest(S) \in S
  <1>0. \A x \in S : x \in Nat /\ x <= Len(table)
    BY DEF Schedule!Rows
  <1>1. \E x \in S : \A y \in S : y <= x
    BY <1>0, Largest
  <1>2. \E x \in S : \A y \in S : x >= y
    BY <1>0, <1>1
  <1> QED BY <1>2 DEF Schedule!Latest

-----------------------------------------------------------------------------
(* The invariant. *)
JobKeys == {Schedule!SlotKey(k, s) : k \in Schedule!KindNames, s \in Nat} \cup {Schedule!Key(k, x) : k \in Schedule!KindNames, x \in {"backfill", "manual"}}
Job == [kind : Schedule!KindNames, key : JobKeys, months : Schedule!Months,
        status : Schedule!Active \cup {"done", "failed", "deleted"}, attempts : 0..MaxAttempts,
        read : Schedule!Months \cup {0}, saved : BOOLEAN]
Txn == [step : {"none", "look", "write"}, at : 1..2, now : Nat, months : Schedule!Months \cup {0},
        initial : BOOLEAN, seen : Nat, leased : BOOLEAN]
Answer == [months : Nat, job : Nat]

ScheduleTyped ==
    /\ slot \in Schedule!Slots /\ reconcile \in [Schedule!Slots -> Reconciles]
    /\ ready \in BOOLEAN /\ initialized \in BOOLEAN /\ last \in [Schedule!KindNames -> 0..MaxSlots]
    /\ rowLock \in Schedule!Processes \cup {Nobody}
    /\ table \in Seq(Job) /\ Len(table) <= MaxJobs
    /\ txn \in [Schedule!Processes -> Txn] /\ answer \in [Clients -> Answer]

\* A job reads what it is for, has an attempt left while it waits, and one that was queued
\* behind a running pull is for the whole history.
Sound(r) ==
    /\ r.key[1] = r.kind
    /\ r.status \in {"leased", "done"} => r.read >= r.months
    /\ r.status = "queued" => r.attempts < MaxAttempts
    /\ r.key[2] = "backfill" => r.months = History

\* A transaction that has begun holds the row of the source, and what it read is still so.
Holding(p) ==
    /\ txn[p].seen <= Len(table)
    /\ txn[p].step # "none" => rowLock = p /\ txn[p].months \in Schedule!Months
    /\ txn[p].step # "none" /\ p \in Schedulers => (txn[p].initial => ~initialized)
    /\ txn[p].step # "none" /\ p \in Clients => txn[p].months \in {1, History}
    /\ txn[p].step = "write" /\ txn[p].seen # 0 /\ ~txn[p].leased => table[txn[p].seen].status = "queued"
    /\ txn[p].step = "write" /\ txn[p].seen = 0 /\ p \in Clients =>
         \A j \in Schedule!Rows : table[j].kind = Schedule!Kinds[txn[p].at] => table[j].status \notin Schedule!Active

ScheduleAnswered(c) ==
    /\ answer[c].job <= Len(table)
    /\ answer[c].job # 0 => table[answer[c].job].months >= answer[c].months

SchedInv ==
    /\ ScheduleTyped
    /\ \A j \in Schedule!Rows : Sound(table[j])
    /\ \A p \in Schedule!Processes : Holding(p)
    /\ \A c \in Clients : ScheduleAnswered(c)

\* What the environment's settings make of the months: a full pull is the whole history.
ScheduleAssumption == Schedule!SchedulerAssumption /\ FullMonths = History

LEMMA ScheduleConstants ==
    ASSUME ScheduleAssumption
    PROVE  /\ History \in Nat \ {0} /\ MaxSlots \in Nat \ {0} /\ MaxJobs \in Nat /\ MaxAttempts \in Nat \ {0}
           /\ Schedule!Months \subseteq 1..History /\ 1 \in Schedule!Months /\ History \in Schedule!Months
           /\ Schedulers \cap Clients = {} /\ Nobody \notin Schedule!Processes
  <1>1. /\ History \in Nat \ {0} /\ MaxSlots \in Nat \ {0} /\ MaxJobs \in Nat /\ MaxAttempts \in Nat \ {0}
        /\ Schedulers \cap Clients = {} /\ Nobody \notin Schedule!Processes /\ FullMonths = History
    BY DEF ScheduleAssumption, Schedule!SchedulerAssumption, Schedule!Processes
  <1>2. Schedule!Months \subseteq 1..History /\ 1 \in Schedule!Months /\ History \in Schedule!Months
    BY <1>1 DEF ScheduleAssumption, Schedule!SchedulerAssumption, Schedule!Months
  <1> QED BY <1>1, <1>2

LEMMA SchedInit == ASSUME ScheduleAssumption PROVE Schedule!Init => SchedInv
  <1> SUFFICES ASSUME Schedule!Init PROVE SchedInv
    OBVIOUS
  <1>1. Schedule!NoTxn \in Txn /\ Schedule!NoAnswer \in Answer /\ Schedule!NoTxn.step = "none"
          /\ Schedule!NoTxn.seen = 0 /\ Schedule!NoAnswer.job = 0
    BY DEF Schedule!NoTxn, Schedule!NoAnswer, Txn, Answer
  <1>2. table \in Seq(Job) /\ Len(table) = 0
    BY DEF Schedule!Init
  <1>3. ScheduleTyped
    BY <1>1, <1>2, ScheduleConstants DEF Schedule!Init, ScheduleTyped, Schedule!Slots
  <1>4. Schedule!Rows = {}
    BY <1>2 DEF Schedule!Rows
  <1> QED BY <1>1, <1>2, <1>3, <1>4 DEF Schedule!Init, SchedInv, Holding, ScheduleAnswered

-----------------------------------------------------------------------------
(* Steps beside the transactions: the worker's, the pause's and the clock's.  *)

LEMMA Outside ==
    ASSUME ScheduleAssumption, SchedInv,
           UNCHANGED <<reconcile, rowLock, txn, answer>>, slot' \in Schedule!Slots, ready' \in BOOLEAN,
           initialized' \in BOOLEAN, last' \in [Schedule!KindNames -> 0..MaxSlots],
           table' \in Seq(Job), Len(table') = Len(table),
           rowLock # Nobody => initialized' = initialized,
           \A j \in Schedule!Rows : /\ Sound(table'[j])
                                    /\ table'[j].kind = table[j].kind /\ table'[j].months = table[j].months
                                    /\ table'[j].status \in Schedule!Active => table[j].status \in Schedule!Active
                                    /\ rowLock # Nobody /\ table[j].status = "queued" => table'[j].status = "queued"
    PROVE  SchedInv'
  <1>1. ScheduleTyped' /\ Schedule!Rows' = Schedule!Rows /\ Len(table) \in Nat
    BY DEF SchedInv, ScheduleTyped, Schedule!Rows
  <1>2. ASSUME NEW p \in Schedule!Processes PROVE Holding(p)'
    <2>1. Holding(p) /\ txn[p] \in Txn /\ txn'[p] = txn[p] /\ p # Nobody
      BY ScheduleConstants DEF SchedInv, ScheduleTyped
    <2>2. txn[p].seen \in Nat
      BY <2>1 DEF Txn
    <2>3. txn[p].seen # 0 => txn[p].seen \in Schedule!Rows
      BY <2>1, <2>2, <1>1 DEF Holding, Schedule!Rows
    <2> QED BY <1>1, <2>1, <2>3 DEF Holding
  <1>3. ASSUME NEW c \in Clients PROVE ScheduleAnswered(c)'
    <2>1. ScheduleAnswered(c) /\ answer[c] \in Answer /\ answer'[c] = answer[c]
      BY DEF SchedInv, ScheduleTyped
    <2>2. answer[c].job # 0 => answer[c].job \in Schedule!Rows
      BY <2>1, <1>1 DEF ScheduleAnswered, Answer, Schedule!Rows
    <2> QED BY <2>1, <2>2 DEF ScheduleAnswered
  <1> QED BY <1>1, <1>2, <1>3 DEF SchedInv

\* One row that changes, to x.
LEMMA ScheduleRowStep ==
    ASSUME ScheduleAssumption, SchedInv, NEW j \in Schedule!Rows, NEW x \in Job,
           table' = [table EXCEPT ![j] = x],
           UNCHANGED <<reconcile, rowLock, txn, answer>>, slot' \in Schedule!Slots, ready' \in BOOLEAN,
           initialized' \in BOOLEAN, last' \in [Schedule!KindNames -> 0..MaxSlots],
           rowLock # Nobody => initialized' = initialized,
           Sound(x), x.kind = table[j].kind, x.months = table[j].months,
           x.status \in Schedule!Active => table[j].status \in Schedule!Active,
           rowLock # Nobody /\ table[j].status = "queued" => x.status = "queued"
    PROVE  SchedInv'
  <1>1. table \in Seq(Job) /\ j \in 1..Len(table)
    BY DEF SchedInv, ScheduleTyped, Schedule!Rows
  <1>2. table' \in Seq(Job) /\ Len(table') = Len(table)
    BY <1>1, ExceptSeq
  <1>3. \A i \in Schedule!Rows : table'[i] = IF i = j THEN x ELSE table[i]
    BY <1>1 DEF Schedule!Rows
  <1>4. \A i \in Schedule!Rows : /\ Sound(table'[i])
                                 /\ table'[i].kind = table[i].kind /\ table'[i].months = table[i].months
                                 /\ table'[i].status \in Schedule!Active => table[i].status \in Schedule!Active
                                 /\ rowLock # Nobody /\ table[i].status = "queued" => table'[i].status = "queued"
    BY <1>3 DEF SchedInv
  <1> QED BY <1>2, <1>4, Outside

LEMMA RowIs == ASSUME SchedInv, NEW j \in Schedule!Rows
               PROVE  table[j] \in Job /\ Sound(table[j]) /\ table[j].months \in Schedule!Months
  <1>1. table[j] \in Job
    BY DEF SchedInv, ScheduleTyped, Schedule!Rows
  <1> QED BY <1>1 DEF SchedInv, Job

LEMMA LeaseInv ==
    ASSUME ScheduleAssumption, SchedInv, NEW j \in Schedule!Rows, Schedule!Lease(j)
    PROVE  SchedInv'
  <1>0. table[j] \in Job /\ Sound(table[j]) /\ table[j].status = "queued"
          /\ table[j].months \in Schedule!Months
    BY RowIs DEF Schedule!Lease
  <1>1. PICK months \in Schedule!Months :
            months = IF table[j].kind = "collect" /\ ~initialized THEN History ELSE table[j].months
    BY <1>0, ScheduleConstants
  <1>2. PICK n \in 0..MaxAttempts : n = table[j].attempts + 1
    BY <1>0, ScheduleConstants DEF Sound, Job
  <1> DEFINE x == [table[j] EXCEPT !.status = "leased", !.attempts = n, !.read = months]
  <1>3. table' = [table EXCEPT ![j] = x]
    BY <1>1, <1>2 DEF Schedule!Lease
  <1>4. /\ x \in Job /\ x.kind = table[j].kind /\ x.key = table[j].key /\ x.months = table[j].months
        /\ x.status = "leased" /\ x.read = months
    BY <1>0 DEF Job, Schedule!Active
  <1>5. months >= table[j].months
    BY <1>0, <1>1, ScheduleConstants
  <1> HIDE DEF x
  <1>6. Sound(x)
    BY <1>0, <1>4, <1>5 DEF Sound
  <1>7. UNCHANGED <<Schedule!clock, Schedule!source, txn, answer>> /\ rowLock = Nobody
    BY DEF Schedule!Lease
  <1> QED BY <1>0, <1>3, <1>4, <1>6, <1>7, ScheduleRowStep DEF Schedule!clock, Schedule!source,
       SchedInv, ScheduleTyped, Schedule!Active

LEMMA SucceedInv ==
    ASSUME ScheduleAssumption, SchedInv, NEW j \in Schedule!Rows, Schedule!Succeed(j)
    PROVE  SchedInv'
  <1>0. table[j] \in Job /\ Sound(table[j]) /\ table[j].status = "leased" /\ rowLock = Nobody
    BY RowIs DEF Schedule!Succeed
  <1> DEFINE x == [table[j] EXCEPT !.saved = TRUE]
  <1>1. table' = [table EXCEPT ![j] = x] /\ UNCHANGED <<Schedule!clock, ready, rowLock, txn, answer>>
    BY DEF Schedule!Succeed
  <1>2. /\ x \in Job /\ x.kind = table[j].kind /\ x.key = table[j].key /\ x.months = table[j].months
        /\ x.status = table[j].status /\ x.read = table[j].read
    BY <1>0 DEF Job
  <1> HIDE DEF x
  <1>3. Sound(x)
    BY <1>0, <1>2 DEF Sound
  <1>4. last' \in [Schedule!KindNames -> 0..MaxSlots]
    <2>1. slot \in 0..MaxSlots /\ last \in [Schedule!KindNames -> 0..MaxSlots]
      BY ScheduleConstants DEF SchedInv, ScheduleTyped, Schedule!Slots
    <2> QED BY <2>1 DEF Schedule!Succeed
  <1>5. initialized' \in BOOLEAN
    BY DEF Schedule!Succeed, SchedInv, ScheduleTyped
  <1> QED BY <1>0, <1>1, <1>2, <1>3, <1>4, <1>5, ScheduleRowStep DEF Schedule!clock, SchedInv, ScheduleTyped

LEMMA EndInv ==
    ASSUME ScheduleAssumption, SchedInv, NEW j \in Schedule!Rows, Schedule!Complete(j) \/ Schedule!Fail(j)
    PROVE  SchedInv'
  <1>0. table[j] \in Job /\ Sound(table[j]) /\ table[j].status = "leased"
        /\ UNCHANGED <<Schedule!clock, Schedule!source, txn, answer>>
    BY RowIs DEF Schedule!Complete, Schedule!Fail
  <1>1. PICK s \in {"done", "queued", "failed"} :
            /\ table' = [table EXCEPT ![j].status = s]
            /\ s = "queued" => table[j].attempts < MaxAttempts
    <2>1. CASE Schedule!Complete(j)
      BY <2>1 DEF Schedule!Complete
    <2>2. CASE Schedule!Fail(j)
      BY <2>2 DEF Schedule!Fail
    <2> QED BY <2>1, <2>2
  <1> DEFINE x == [table[j] EXCEPT !.status = s]
  <1>2. table' = [table EXCEPT ![j] = x]
    BY <1>1
  <1>3. /\ x \in Job /\ x.kind = table[j].kind /\ x.key = table[j].key /\ x.months = table[j].months
        /\ x.status = s /\ x.read = table[j].read /\ x.attempts = table[j].attempts
    BY <1>0 DEF Job, Schedule!Active
  <1> HIDE DEF x
  <1>4. Sound(x)
    BY <1>0, <1>1, <1>3 DEF Sound
  <1>5. "leased" \in Schedule!Active
    BY DEF Schedule!Active
  <1> QED BY <1>0, <1>2, <1>3, <1>4, <1>5, ScheduleRowStep DEF Schedule!clock, Schedule!source,
       SchedInv, ScheduleTyped

LEMMA PauseInv == ASSUME ScheduleAssumption, SchedInv, Schedule!Pause PROVE SchedInv'
  <1>0. Len(table) \in Nat /\ Schedule!Rows = 1..Len(table) /\ table \in Seq(Job)
    BY DEF SchedInv, ScheduleTyped, Schedule!Rows
  <1>1. /\ table' = [j \in Schedule!Rows |-> IF table[j].status = "queued" THEN [table[j] EXCEPT !.status = "deleted"]
                                             ELSE table[j]]
        /\ ready' = FALSE /\ rowLock = Nobody
           /\ UNCHANGED <<Schedule!clock, initialized, last, rowLock, txn, answer>>
    BY DEF Schedule!Pause
  <1>2. ASSUME NEW j \in Schedule!Rows
        PROVE  /\ table'[j] \in Job /\ Sound(table'[j])
               /\ table'[j].kind = table[j].kind /\ table'[j].months = table[j].months
               /\ table'[j].status \in Schedule!Active => table[j].status \in Schedule!Active
    <2>0. table[j] \in Job /\ Sound(table[j])
      BY RowIs
    <2>1. CASE table[j].status = "queued"
      <3> DEFINE x == [table[j] EXCEPT !.status = "deleted"]
      <3>1. table'[j] = x
        BY <1>1, <2>1
      <3>2. /\ x \in Job /\ x.kind = table[j].kind /\ x.key = table[j].key /\ x.months = table[j].months
            /\ x.status = "deleted"
        BY <2>0 DEF Job, Schedule!Active
      <3> HIDE DEF x
      <3>3. Sound(x)
        BY <2>0, <3>2 DEF Sound
      <3> QED BY <3>1, <3>2, <3>3 DEF Schedule!Active
    <2>2. CASE table[j].status # "queued"
      BY <1>1, <2>0, <2>2
    <2> QED BY <2>1, <2>2
  <1>3. table' \in Seq(Job) /\ Len(table') = Len(table)
    <2>1. table' \in [1..Len(table) -> Job]
      BY <1>0, <1>1, <1>2
    <2> QED BY <1>0, <2>1, SeqDef, LenProperties
  <1> QED BY <1>1, <1>2, <1>3, Outside DEF Schedule!clock, SchedInv, ScheduleTyped

LEMMA NextSlotInv == ASSUME ScheduleAssumption, SchedInv, Schedule!NextSlot PROVE SchedInv'
  <1>1. slot' \in Schedule!Slots /\ UNCHANGED <<reconcile, Schedule!source, table, txn, answer>>
    BY ScheduleConstants DEF Schedule!NextSlot, SchedInv, ScheduleTyped, Schedule!Slots
  <1> QED BY <1>1, Outside DEF Schedule!source, SchedInv, ScheduleTyped

-----------------------------------------------------------------------------
(* Steps of a transaction.                                                  *)

LEMMA BeginInv ==
    ASSUME ScheduleAssumption, SchedInv, NEW p \in Schedule!Processes, NEW months \in Schedule!Months,
           NEW initial \in BOOLEAN,
           Schedule!Begin(p, months, initial),
           p \in Schedulers => initial = FALSE, p \in Clients => months \in {1, History}
    PROVE  SchedInv'
  <1>2. PICK i \in BOOLEAN : i = (initial \/ ~initialized)
    OBVIOUS
  <1> DEFINE x == [Schedule!NoTxn EXCEPT !.step = "look", !.now = slot, !.months = months, !.initial = i]
  <1>1. /\ txn' = [txn EXCEPT ![p] = x] /\ rowLock' = p /\ rowLock = Nobody
        /\ UNCHANGED <<Schedule!clock, ready, initialized, last, table, answer>>
    BY <1>2 DEF Schedule!Begin
  <1>3. slot \in Nat
    BY ScheduleConstants DEF SchedInv, ScheduleTyped, Schedule!Slots
  <1>4. x \in Txn /\ x.step = "look" /\ x.seen = 0 /\ x.months = months /\ x.initial = i
    <2>1. Schedule!NoTxn \in Txn /\ Schedule!NoTxn.seen = 0
      BY DEF Schedule!NoTxn, Txn
    <2> QED BY <1>2, <1>3, <2>1 DEF Txn
  <1> HIDE DEF x
  <1>5. ScheduleTyped'
    BY <1>1, <1>4 DEF SchedInv, ScheduleTyped, Schedule!clock
  <1>6. ASSUME NEW q \in Schedule!Processes PROVE Holding(q)'
    <2>1. CASE q = p
      BY <1>1, <1>2, <1>4, <2>1 DEF SchedInv, ScheduleTyped, Holding
    <2>2. CASE q # p
      <3>1. txn'[q] = txn[q] /\ Holding(q) /\ txn[q].step = "none"
        BY <1>1, <2>2, ScheduleConstants DEF SchedInv, ScheduleTyped, Holding
      <3> QED BY <1>1, <3>1 DEF Holding
    <2> QED BY <2>1, <2>2
  <1> QED BY <1>1, <1>5, <1>6 DEF SchedInv, ScheduleAnswered, Schedule!Rows

LEMMA LookInv ==
    ASSUME ScheduleAssumption, SchedInv, NEW p \in Schedule!Processes, Schedule!Look(p)
    PROVE  SchedInv'
  <1>0. txn[p] \in Txn /\ txn[p].step = "look" /\ Holding(p)
        /\ UNCHANGED <<Schedule!clock, Schedule!source, table, answer>> /\ Len(table) \in Nat
    BY DEF Schedule!Look, SchedInv, ScheduleTyped
  <1> DEFINE kind == Schedule!Kinds[txn[p].at]
             n == IF Schedule!Due(p, kind) THEN Schedule!Pending(kind) ELSE 0
             Found == {j \in Schedule!Rows : table[j].kind = kind /\ table[j].status \in Schedule!Active}
  <1>1. /\ n \in Nat /\ n <= Len(table)
        /\ n # 0 => n \in Schedule!Rows /\ table[n].status \in Schedule!Active
        /\ n = 0 /\ p \in Clients => Found = {}
    <2>1. CASE Found = {}
      <3>1. Schedule!Pending(kind) = 0
        BY <2>1 DEF Schedule!Pending
      <3> QED BY <1>0, <2>1, <3>1
    <2>2. CASE Found # {}
      <3>1. Schedule!Earliest(Found) \in Found
        BY <1>0, <2>2, FirstRow
      <3>2. Schedule!Pending(kind) = Schedule!Earliest(Found)
        BY <2>2 DEF Schedule!Pending
      <3>3. Schedule!Earliest(Found) \in Schedule!Rows /\ Schedule!Earliest(Found) \in Nat
              /\ Schedule!Earliest(Found) # 0
            /\ Schedule!Earliest(Found) <= Len(table)
               /\ table[Schedule!Earliest(Found)].status \in Schedule!Active
        BY <1>0, <3>1 DEF Schedule!Rows
      <3>4. p \in Clients => Schedule!Due(p, kind)
        BY DEF Schedule!Due
      <3> QED BY <1>0, <3>2, <3>3, <3>4
    <2> QED BY <2>1, <2>2
  <1>2. txn' = [txn EXCEPT ![p].step = "write", ![p].seen = n,
                           ![p].leased = (n # 0) /\ (table[n].status = "leased")]
    BY DEF Schedule!Look
  <1> HIDE DEF n
  <1>3. PICK b \in BOOLEAN : b = ((n # 0) /\ (table[n].status = "leased"))
    OBVIOUS
  <1> DEFINE x == [txn[p] EXCEPT !.step = "write", !.seen = n, !.leased = b]
  <1>4. txn' = [txn EXCEPT ![p] = x]
    BY <1>2, <1>3 DEF SchedInv, ScheduleTyped
  <1>5. /\ x \in Txn /\ x.step = "write" /\ x.seen = n /\ x.leased = b /\ x.at = txn[p].at
        /\ x.months = txn[p].months /\ x.initial = txn[p].initial
    BY <1>0, <1>1 DEF Txn
  <1> HIDE DEF x
  <1>6. ScheduleTyped'
    BY <1>0, <1>4, <1>5 DEF SchedInv, ScheduleTyped, Schedule!clock, Schedule!source
  <1>7. Holding(p)'
    <2>1. txn'[p] = x
      BY <1>4 DEF SchedInv, ScheduleTyped
    <2>2. n # 0 /\ ~b => table[n].status = "queued"
      BY <1>1, <1>3 DEF Schedule!Active
    <2>3. n = 0 /\ p \in Clients => \A j \in Schedule!Rows : table[j].kind = kind => table[j].status \notin Schedule!Active
      BY <1>1
    <2> QED BY <1>0, <1>1, <1>5, <2>1, <2>2, <2>3 DEF Holding, Schedule!source, Schedule!Rows
  <1>8. ASSUME NEW q \in Schedule!Processes, q # p PROVE Holding(q)'
    <2>1. txn'[q] = txn[q] /\ Holding(q)
      BY <1>4, <1>8 DEF SchedInv, ScheduleTyped
    <2> QED BY <1>0, <2>1 DEF Holding, Schedule!source, Schedule!Rows
  <1> QED BY <1>0, <1>6, <1>7, <1>8 DEF SchedInv, ScheduleAnswered, Schedule!Rows

\* The end of a write: the other processes are waiting, what the table gains is sound, and
\* an answer is met by its job, which never asks for less than it did.
LEMMA WriteStep ==
    ASSUME ScheduleAssumption, SchedInv, NEW p \in Schedule!Processes, txn[p].step = "write",
           Schedule!Proceed(p),
           UNCHANGED <<Schedule!clock, ready, initialized, last>>,
           table' \in Seq(Job), Len(table) <= Len(table'), Len(table') <= MaxJobs,
           \A j \in 1..Len(table') : Sound(table'[j]),
           answer' \in [Clients -> Answer], \A c \in Clients : ScheduleAnswered(c)'
    PROVE  SchedInv'
  <1>0. /\ txn[p] \in Txn /\ Holding(p) /\ txn \in [Schedule!Processes -> Txn] /\ rowLock = p /\ p # Nobody
        /\ Len(table) \in Nat /\ Len(table') \in Nat
    BY ScheduleConstants DEF SchedInv, ScheduleTyped, Holding
  <1>1. PICK x \in Txn :
             /\ txn' = [txn EXCEPT ![p] = x] /\ x.seen = 0
             /\ \/ x.step = "none" /\ rowLock' = Nobody
                \/ /\ x.step = "look" /\ rowLock' = rowLock /\ x.months = txn[p].months
                   /\ x.initial = txn[p].initial
    <2>1. CASE txn[p].at = Len(Schedule!Kinds)
      <3>1. txn' = [txn EXCEPT ![p] = Schedule!NoTxn] /\ rowLock' = Nobody
        BY <2>1 DEF Schedule!Proceed
      <3>2. Schedule!NoTxn \in Txn /\ Schedule!NoTxn.step = "none" /\ Schedule!NoTxn.seen = 0
        BY DEF Schedule!NoTxn, Txn
      <3> QED BY <3>1, <3>2
    <2>2. CASE txn[p].at # Len(Schedule!Kinds)
      <3>0. Len(Schedule!Kinds) = 2
        BY DEF Schedule!Kinds
      <3>1. PICK n \in 1..2 : n = txn[p].at + 1
        BY <1>0, <2>2, <3>0 DEF Txn
      <3> DEFINE x == [txn[p] EXCEPT !.at = n, !.step = "look", !.seen = 0]
      <3>2. txn' = [txn EXCEPT ![p] = x] /\ rowLock' = rowLock
        BY <1>0, <2>2, <3>1 DEF Schedule!Proceed
      <3>3. x \in Txn /\ x.seen = 0 /\ x.step = "look" /\ x.months = txn[p].months
            /\ x.initial = txn[p].initial
        BY <1>0 DEF Txn
      <3> HIDE DEF x
      <3> QED BY <3>2, <3>3
    <2> QED BY <2>1, <2>2
  <1>2. ScheduleTyped'
    BY <1>0, <1>1 DEF SchedInv, ScheduleTyped, Schedule!clock
  <1>3. Holding(p)'
    BY <1>0, <1>1 DEF Holding
  <1>4. ASSUME NEW q \in Schedule!Processes, q # p PROVE Holding(q)'
    <2>1. txn'[q] = txn[q] /\ Holding(q) /\ txn[q].step = "none" /\ txn[q] \in Txn
      BY <1>0, <1>1, <1>4 DEF SchedInv, Holding
    <2>2. txn[q].seen \in Nat
      BY <2>1 DEF Txn
    <2> QED BY <1>0, <2>1, <2>2 DEF Holding
  <1> QED BY <1>2, <1>3, <1>4 DEF SchedInv, Schedule!Rows

\* A row that jobs.enqueue adds.
LEMMA Appended ==
    ASSUME ScheduleAssumption, SchedInv, NEW kind \in Schedule!KindNames, NEW key \in JobKeys,
           NEW months \in Schedule!Months, key[1] = kind, key[2] = "backfill" => months = History,
           table' = Append(table, Schedule!NewRow(kind, key, months))
    PROVE  /\ table' \in Seq(Job) /\ Len(table') = Len(table) + 1 /\ Len(table) \in Nat
           /\ \A j \in Schedule!Rows : table'[j] = table[j]
           /\ \A j \in 1..(Len(table) + 1) : Sound(table'[j])
           /\ table'[Len(table) + 1].months = months
           /\ table'[Len(table) + 1].kind = kind /\ table'[Len(table) + 1].key = key
  <1> DEFINE r == Schedule!NewRow(kind, key, months)
  <1>1. r \in Job /\ r.months = months /\ r.kind = kind /\ r.key = key /\ r.status = "queued"
          /\ r.attempts = 0
    BY ScheduleConstants DEF Schedule!NewRow, Job, Schedule!Active
  <1>0. table' = Append(table, r)
    OBVIOUS
  <1> HIDE DEF r
  <1>2. Sound(r)
    BY <1>1, ScheduleConstants DEF Sound
  <1>3. table \in Seq(Job) /\ Len(table) \in Nat /\ Schedule!Rows = 1..Len(table)
    BY DEF SchedInv, ScheduleTyped, Schedule!Rows
  <1>4. /\ table' \in Seq(Job) /\ Len(table') = Len(table) + 1
        /\ \A j \in 1..Len(table) : table'[j] = table[j]
        /\ table'[Len(table) + 1] = r
    BY <1>0, <1>1, <1>3, AppendProperties
  <1>5. \A j \in 1..(Len(table) + 1) : Sound(table'[j])
    BY <1>2, <1>3, <1>4 DEF SchedInv
  <1> QED BY <1>1, <1>3, <1>4, <1>5

LEMMA KindIs ==
    ASSUME NEW n \in 1..2
    PROVE  Schedule!Kinds[n] \in Schedule!KindNames /\ (n = 1 <=> Schedule!Kinds[n] = "collect")
  <1>1. n = 1 \/ n = 2
    OBVIOUS
  <1> QED BY <1>1 DEF Schedule!Kinds, Schedule!KindNames

\* What existed still answers for those it answered for, when months only grow.
LEMMA StillAnswered ==
    ASSUME ScheduleAssumption, SchedInv, NEW c \in Clients, answer'[c] = answer[c],
           Len(table) <= Len(table'), Len(table') \in Nat,
           \A j \in Schedule!Rows : table'[j].months \in Nat /\ table'[j].months >= table[j].months
    PROVE  ScheduleAnswered(c)'
  <1>1. ScheduleAnswered(c) /\ answer[c] \in Answer /\ Len(table) \in Nat
    BY DEF SchedInv, ScheduleTyped
  <1>2. answer[c].job # 0 => answer[c].job \in Schedule!Rows
    BY <1>1 DEF ScheduleAnswered, Answer, Schedule!Rows
  <1>3. answer[c].job # 0 => table[answer[c].job].months \in Nat
    BY <1>2, RowIs, ScheduleConstants
  <1>4. answer[c].months \in Nat /\ answer[c].job \in Nat
    BY <1>1 DEF Answer
  <1>5. CASE answer[c].job = 0
    BY <1>1, <1>4, <1>5 DEF ScheduleAnswered
  <1>6. CASE answer[c].job # 0
    <2>1. table[answer[c].job].months >= answer[c].months /\ answer[c].job <= Len(table)
      BY <1>1, <1>6 DEF ScheduleAnswered
    <2>2. table'[answer[c].job].months \in Nat /\ table'[answer[c].job].months >= table[answer[c].job].months
      BY <1>2, <1>6
    <2>3. table'[answer[c].job].months >= answer[c].months
      BY <1>3, <1>4, <1>6, <2>1, <2>2
    <2>4. answer'[c].job <= Len(table')
      BY <1>1, <1>4, <2>1
    <2> QED BY <2>3, <2>4 DEF ScheduleAnswered
  <1> QED BY <1>5, <1>6

LEMMA WriteTickInv ==
    ASSUME ScheduleAssumption, SchedInv, NEW p \in Schedule!Processes, Schedule!WriteTick(p)
    PROVE  SchedInv'
  <1>0. txn[p] \in Txn /\ txn[p].step = "write" /\ Holding(p) /\ p \in Schedulers /\ Schedule!Proceed(p)
        /\ UNCHANGED <<Schedule!clock, ready, initialized, last, answer>>
        /\ table \in Seq(Job) /\ Len(table) \in Nat /\ Len(table) < MaxJobs
    BY DEF Schedule!WriteTick, SchedInv, ScheduleTyped
  <1> DEFINE kind == Schedule!Kinds[txn[p].at]
             key == Schedule!SlotKey(kind, txn[p].now)
             months == IF txn[p].initial THEN History ELSE txn[p].months
  <1>1. /\ kind \in Schedule!KindNames /\ key \in JobKeys /\ key[1] = kind /\ key[2] = "slot"
        /\ months \in Schedule!Months
    <2>1. txn[p].at \in 1..2 /\ txn[p].now \in Nat
      BY <1>0 DEF Txn
    <2>2. kind \in Schedule!KindNames
      BY <2>1, KindIs
    <2>3. key \in JobKeys /\ key[1] = kind /\ key[2] = "slot"
      <3>1. key \in JobKeys
        BY <2>1, <2>2 DEF JobKeys
      <3>2. key = <<kind, "slot", txn[p].now>>
        BY DEF Schedule!SlotKey
      <3> HIDE DEF key, kind
      <3> QED BY <3>1, <3>2
    <2>4. months \in Schedule!Months
      BY <1>0, ScheduleConstants DEF Holding
    <2> QED BY <2>2, <2>3, <2>4
  <1>2. \/ table' = table
        \/ table' = Append(table, Schedule!NewRow(kind, key, months))
    BY DEF Schedule!WriteTick, Schedule!Enqueued
  <1> HIDE DEF kind, key, months
  <1>3. /\ table' \in Seq(Job) /\ Len(table) <= Len(table') /\ Len(table') <= MaxJobs /\ Len(table') \in Nat
        /\ \A j \in Schedule!Rows : table'[j] = table[j]
        /\ \A j \in 1..Len(table') : Sound(table'[j])
    <2>1. CASE table' = table
      BY <1>0, <2>1, ScheduleConstants DEF SchedInv, Schedule!Rows
    <2>2. CASE table' = Append(table, Schedule!NewRow(kind, key, months))
      <3>1. /\ table' \in Seq(Job) /\ Len(table') = Len(table) + 1
            /\ \A j \in Schedule!Rows : table'[j] = table[j]
            /\ \A j \in 1..(Len(table) + 1) : Sound(table'[j])
        BY <1>1, <2>2, Appended
      <3> QED BY <1>0, <3>1, ScheduleConstants
    <2> QED BY <1>2, <2>1, <2>2
  <1>4. \A j \in Schedule!Rows : table'[j].months \in Nat /\ table'[j].months >= table[j].months
    BY <1>3, RowIs, ScheduleConstants
  <1>5. \A c \in Clients : ScheduleAnswered(c)'
    BY <1>0, <1>3, <1>4, StillAnswered
  <1> QED BY <1>0, <1>3, <1>5, WriteStep DEF SchedInv, ScheduleTyped

\* What a request leaves in the table, and the row it is told of.
LEMMA RequestWrites ==
    ASSUME ScheduleAssumption, SchedInv, NEW p \in Schedule!Processes, Schedule!WriteRequest(p)
    PROVE  \E row \in Nat :
             /\ table' \in Seq(Job) /\ Len(table') \in Nat /\ Len(table) <= Len(table')
                /\ Len(table') <= MaxJobs
             /\ \A j \in Schedule!Rows : table'[j].months >= table[j].months
             /\ \A j \in 1..Len(table') : Sound(table'[j]) /\ table'[j].months \in Nat
             /\ row \in 1..Len(table')
             /\ txn[p].at = 1 => table'[row].months >= txn[p].months
             /\ answer' = IF txn[p].at = 1 THEN [answer EXCEPT ![p] = [months |-> txn[p].months, job |-> row]]
                          ELSE answer
  <1>0. txn[p] \in Txn /\ txn[p].step = "write" /\ Holding(p) /\ p \in Clients
        /\ table \in Seq(Job) /\ Len(table) \in Nat /\ Len(table) < MaxJobs /\ Schedule!Rows = 1..Len(table)
    BY DEF Schedule!WriteRequest, SchedInv, ScheduleTyped, Schedule!Rows
  <1> DEFINE t == txn[p]
             kind == Schedule!Kinds[t.at]
             short == t.seen # 0 /\ kind = "collect" /\ t.months > table[t.seen].months
             extend == short /\ ~t.leased
             backfill == short /\ t.leased
             key == IF t.initial /\ ~backfill THEN Schedule!SlotKey(kind, slot)
                    ELSE Schedule!Key(kind, IF backfill THEN "backfill" ELSE "manual")
             kept == t.seen # 0 /\ ~backfill
             row == IF kept THEN t.seen ELSE Schedule!EnqueuedRow(key, FALSE)
             Met(r) == /\ table' \in Seq(Job) /\ Len(table') \in Nat /\ Len(table) <= Len(table')
                       /\ Len(table') <= MaxJobs
                       /\ \A j \in Schedule!Rows : table'[j].months >= table[j].months
                       /\ \A j \in 1..Len(table') : Sound(table'[j]) /\ table'[j].months \in Nat
                       /\ r \in 1..Len(table')
                       /\ txn[p].at = 1 => table'[r].months >= txn[p].months
  <1>1. /\ table' = IF extend THEN [table EXCEPT ![t.seen].months = t.months]
                    ELSE IF kept THEN table ELSE Schedule!Enqueued(kind, key, t.months, FALSE)
        /\ answer' = IF t.at = 1 THEN [answer EXCEPT ![p] = [months |-> t.months, job |-> row]] ELSE answer
    BY DEF Schedule!WriteRequest
  <1>2. t.months \in {1, History} /\ t.months \in Schedule!Months /\ t.at \in 1..2 /\ t.seen \in Nat
        /\ t.leased \in BOOLEAN /\ t.initial \in BOOLEAN /\ slot \in Nat
    BY <1>0, ScheduleConstants DEF Holding, Txn, SchedInv, ScheduleTyped, Schedule!Slots
  <1>3. kind \in Schedule!KindNames /\ (t.at = 1 <=> kind = "collect")
    BY <1>2, KindIs
  <1>4. t.seen # 0 => t.seen \in Schedule!Rows
    BY <1>0, <1>2 DEF Holding
  <1>5. short => t.months = History
    <2>1. t.seen # 0 => table[t.seen].months \in 1..History
      BY <1>4, RowIs, ScheduleConstants
    <2> QED BY <1>2, <2>1
  <1>6. \A j \in Schedule!Rows : table[j].months \in Nat
    BY RowIs, ScheduleConstants
  <1>7. t.months \in Nat /\ History \in Nat /\ t.months <= History
    BY <1>2, ScheduleConstants
  <1>10. ASSUME extend PROVE Met(row)
    <2> DEFINE x == [table[t.seen] EXCEPT !.months = t.months]
    <2>1. t.seen \in Schedule!Rows /\ table[t.seen] \in Job /\ Sound(table[t.seen]) /\ ~t.leased /\ kept
            /\ t.seen # 0
      BY <1>4, <1>10, RowIs
    <2>2. x \in Job /\ x.months = t.months /\ x.status = table[t.seen].status /\ x.key = table[t.seen].key
          /\ x.kind = table[t.seen].kind /\ x.attempts = table[t.seen].attempts
      BY <1>2, <2>1 DEF Job
    <2>3. table' = [table EXCEPT ![t.seen] = x]
      BY <1>1, <1>10
    <2>4. table[t.seen].status = "queued"
      BY <1>0, <2>1 DEF Holding
    <2>5. Sound(x)
      BY <1>5, <1>10, <2>1, <2>2, <2>4 DEF Sound
    <2>6. row = t.seen /\ t.months > table[t.seen].months
      BY <1>10, <2>1
    <2> HIDE DEF x, row, extend, kept
    <2>7. table' \in Seq(Job) /\ Len(table') = Len(table)
      BY <1>0, <2>1, <2>2, <2>3, ExceptSeq
    <2>8. \A j \in Schedule!Rows : table'[j] = IF j = t.seen THEN x ELSE table[j]
      BY <1>0, <2>3
    <2>9. \A j \in Schedule!Rows : table'[j].months >= table[j].months
            /\ table'[j].months \in Nat /\ Sound(table'[j])
      BY <1>6, <1>7, <2>2, <2>5, <2>6, <2>8 DEF SchedInv
    <2>10. row \in Schedule!Rows /\ table'[row].months >= t.months /\ row \in Nat
      BY <1>0, <1>7, <2>1, <2>2, <2>6, <2>8
    <2>11. Met(row)
      BY <1>0, <2>7, <2>9, <2>10, ScheduleConstants
    <2> QED BY <2>11
  <1>11. ASSUME ~extend /\ kept PROVE Met(row)
    <2>1. table' = table /\ row = t.seen /\ t.seen \in Schedule!Rows
      BY <1>1, <1>4, <1>11
    <2>2. t.at = 1 => table[row].months >= t.months
      BY <1>2, <1>3, <1>6, <1>7, <1>11, <2>1
    <2> HIDE DEF row
    <2>3. \A j \in Schedule!Rows : Sound(table'[j])
            /\ table'[j].months \in Nat /\ table'[j].months >= table[j].months
      <3>1. \A j \in Schedule!Rows : Sound(table[j])
        BY DEF SchedInv
      <3>2. \A j \in Schedule!Rows : table[j].months >= table[j].months
        BY <1>6
      <3> QED BY <1>6, <2>1, <3>1, <3>2
    <2>4. row \in Schedule!Rows /\ (t.at = 1 => table'[row].months >= t.months)
      BY <2>1, <2>2
    <2> QED BY <1>0, <2>1, <2>3, <2>4, ScheduleConstants
  <1>12. ASSUME ~kept PROVE Met(row)
    <2>1. ~extend /\ table' = Schedule!Enqueued(kind, key, t.months, FALSE)
            /\ row = Schedule!EnqueuedRow(key, FALSE)
      BY <1>1, <1>12
    <2>2. /\ key \in JobKeys /\ key[1] = kind
          /\ key[2] = "backfill" <=> backfill
      <3>1. CASE backfill
        <4>1. key = Schedule!Key(kind, "backfill") /\ key = <<kind, "backfill", 0>>
          BY <3>1 DEF Schedule!Key
        <4>2. key \in JobKeys
          BY <1>3, <4>1 DEF JobKeys
        <4> HIDE DEF kind, backfill, key
        <4> QED BY <3>1, <4>1, <4>2
      <3>2. CASE ~backfill /\ t.initial
        <4>1. key = Schedule!SlotKey(kind, slot) /\ key = <<kind, "slot", slot>>
          BY <3>2 DEF Schedule!SlotKey
        <4>2. key \in JobKeys
          BY <1>2, <1>3, <4>1 DEF JobKeys
        <4> HIDE DEF kind, backfill, key
        <4> QED BY <3>2, <4>1, <4>2
      <3>3. CASE ~backfill /\ ~t.initial
        <4>1. key = Schedule!Key(kind, "manual") /\ key = <<kind, "manual", 0>>
          BY <3>3 DEF Schedule!Key
        <4>2. key \in JobKeys
          BY <1>3, <4>1 DEF JobKeys
        <4> HIDE DEF kind, backfill, key
        <4> QED BY <3>3, <4>1, <4>2
      <3> QED BY <3>1, <3>2, <3>3
    <2>3. backfill \/ t.seen = 0
      BY <1>12
    <2>4. backfill => t.months = History
      BY <1>5
    <2> HIDE DEF key, row, kind
    <2>5. CASE Schedule!ActiveRows(key) # {}
      <3>1. Schedule!Earliest(Schedule!ActiveRows(key)) \in Schedule!ActiveRows(key)
        BY <1>0, <2>5, FirstRow DEF Schedule!ActiveRows
      <3>2. PICK j \in Schedule!Rows : j = Schedule!Earliest(Schedule!ActiveRows(key))
                   /\ table[j].key = key /\ table[j].status \in Schedule!Active
        BY <3>1 DEF Schedule!ActiveRows
      <3>3. Schedule!Existing(key, FALSE) = j /\ j # 0 /\ j \in Nat
        BY <1>0, <2>5, <3>2 DEF Schedule!Existing
      <3>4. table' = table /\ row = j
        BY <2>1, <3>3 DEF Schedule!Enqueued, Schedule!EnqueuedRow
      <3>5. t.seen # 0
        <4>1. table[j].kind = kind
          BY <2>2, <3>2, RowIs DEF Sound
        <4> QED BY <1>0, <3>2, <4>1 DEF Holding, kind
      <3>6. table[j].months = History
        BY <2>2, <2>3, <3>2, <3>5, RowIs DEF Sound
      <3>7. table[row].months >= t.months
        BY <1>7, <3>4, <3>6
      <3> QED BY <1>0, <1>6, <3>2, <3>4, <3>7, ScheduleConstants DEF SchedInv
    <2>6. CASE Schedule!ActiveRows(key) = {}
      <3>1. Schedule!Existing(key, FALSE) = 0
        BY <2>6 DEF Schedule!Existing
      <3>2. table' = Append(table, Schedule!NewRow(kind, key, t.months)) /\ row = Len(table) + 1
        BY <2>1, <3>1 DEF Schedule!Enqueued, Schedule!EnqueuedRow
      <3>3. kind \in Schedule!KindNames /\ (key[2] = "backfill" => t.months = History)
        BY <1>3, <2>2, <2>4 DEF kind
      <3>4. /\ table' \in Seq(Job) /\ Len(table') = Len(table) + 1
            /\ \A j \in Schedule!Rows : table'[j] = table[j]
            /\ table'[Len(table) + 1].months = t.months
            /\ \A j \in 1..(Len(table) + 1) : Sound(table'[j])
        BY <1>2, <2>2, <3>2, <3>3, Appended
      <3>5. \A j \in Schedule!Rows : table'[j].months >= table[j].months
        BY <1>6, <3>4
      <3>6. \A j \in 1..(Len(table) + 1) : table'[j].months \in Nat
        <4>1. \A j \in 1..(Len(table) + 1) : j \in Schedule!Rows \/ j = Len(table) + 1
          BY <1>0
        <4> QED BY <1>6, <1>7, <3>4, <4>1
      <3>7. table'[row].months >= t.months /\ row \in 1..Len(table') /\ row \in Nat
        BY <1>0, <1>7, <3>2, <3>4
      <3> QED BY <1>0, <3>4, <3>5, <3>6, <3>7, ScheduleConstants
    <2> QED BY <2>5, <2>6
  <1>13. Met(row) /\ row \in Nat
    <2>1. Met(row)
      BY <1>10, <1>11, <1>12
    <2>2. Len(table') \in Nat /\ row \in 1..Len(table')
      BY <2>1
    <2> HIDE DEF row
    <2> QED BY <2>1, <2>2
  <1> HIDE DEF row
  <1> QED BY <1>1, <1>13

LEMMA WriteRequestInv ==
    ASSUME ScheduleAssumption, SchedInv, NEW p \in Schedule!Processes, Schedule!WriteRequest(p)
    PROVE  SchedInv'
  <1>1. PICK row \in Nat :
             /\ table' \in Seq(Job) /\ Len(table') \in Nat /\ Len(table) <= Len(table')
                /\ Len(table') <= MaxJobs
             /\ \A j \in Schedule!Rows : table'[j].months >= table[j].months
             /\ \A j \in 1..Len(table') : Sound(table'[j]) /\ table'[j].months \in Nat
             /\ row \in 1..Len(table')
             /\ txn[p].at = 1 => table'[row].months >= txn[p].months
             /\ answer' = IF txn[p].at = 1 THEN [answer EXCEPT ![p] = [months |-> txn[p].months, job |-> row]]
                          ELSE answer
    BY RequestWrites
  <1>2. p \in Clients /\ txn[p].step = "write" /\ Schedule!Proceed(p)
          /\ UNCHANGED <<Schedule!clock, ready, initialized, last>>
    BY DEF Schedule!WriteRequest
  <1>3. txn[p] \in Txn /\ Holding(p) /\ Len(table) \in Nat /\ answer \in [Clients -> Answer]
    BY DEF SchedInv, ScheduleTyped
  <1>4. txn[p].months \in Nat
    BY <1>2, <1>3, ScheduleConstants DEF Holding
  <1>5. \A j \in Schedule!Rows : table'[j].months \in Nat /\ table'[j].months >= table[j].months
    BY <1>1, <1>3 DEF Schedule!Rows
  <1> DEFINE a == [months |-> txn[p].months, job |-> row]
  <1>6. a \in Answer /\ a.months = txn[p].months /\ a.job = row
    BY <1>4 DEF Answer
  <1> HIDE DEF a
  <1>7. answer' = IF txn[p].at = 1 THEN [answer EXCEPT ![p] = a] ELSE answer
    BY <1>1 DEF a
  <1>8. answer' \in [Clients -> Answer]
    BY <1>3, <1>6, <1>7
  <1>9. ASSUME NEW c \in Clients PROVE ScheduleAnswered(c)'
    <2>1. CASE txn[p].at = 1 /\ c = p
      <3>1. answer'[c] = a
        BY <1>2, <1>3, <1>7, <2>1
      <3> QED BY <1>1, <1>6, <2>1, <3>1 DEF ScheduleAnswered
    <2>2. CASE ~(txn[p].at = 1 /\ c = p)
      <3>1. answer'[c] = answer[c]
        BY <1>2, <1>3, <1>7, <2>2
      <3> QED BY <1>1, <1>5, <3>1, StillAnswered
    <2> QED BY <2>1, <2>2
  <1> QED BY <1>1, <1>2, <1>8, <1>9, WriteStep

LEMMA SchedNext ==
    ASSUME ScheduleAssumption
    PROVE  SchedInv /\ [Schedule!Next]_(Schedule!vars) => SchedInv'
  <1> SUFFICES ASSUME SchedInv, [Schedule!Next]_(Schedule!vars) PROVE SchedInv'
    OBVIOUS
  <1>1. CASE Schedule!Worker
    BY <1>1, LeaseInv, SucceedInv, EndInv DEF Schedule!Worker
  <1>2. ASSUME NEW p \in Schedulers, Schedule!Tick(p) \/ Schedule!Look(p) \/ Schedule!WriteTick(p)
        PROVE  SchedInv'
    <2>1. p \in Schedule!Processes /\ p \notin Clients
      BY ScheduleConstants DEF Schedule!Processes
    <2>2. CASE Schedule!Tick(p)
      <3>1. reconcile[slot] \in Schedule!Months
        BY DEF SchedInv, ScheduleTyped, Schedule!Months
      <3> QED BY <2>1, <2>2, <3>1, BeginInv DEF Schedule!Tick
    <2> QED BY <1>2, <2>1, <2>2, LookInv, WriteTickInv
  <1>3. ASSUME NEW c \in Clients,
               \/ Schedule!RequestSync(c) \/ Schedule!SourceAction(c) \/ Schedule!SyncCosts(c)
               \/ Schedule!Look(c) \/ Schedule!WriteRequest(c)
        PROVE  SchedInv'
    <2>1. c \in Schedule!Processes /\ c \notin Schedulers
      BY ScheduleConstants DEF Schedule!Processes
    <2>2. ASSUME NEW months \in {1, History}, NEW initial \in BOOLEAN, Schedule!Request(c, months, initial)
          PROVE  SchedInv'
      <3>1. PICK m \in {1, History} : m = IF initial \/ ~initialized THEN History ELSE months
        OBVIOUS
      <3>2. Schedule!Begin(c, m, initial) /\ m \in Schedule!Months
        BY <2>2, <3>1, ScheduleConstants DEF Schedule!Request
      <3> QED BY <2>1, <3>2, BeginInv
    <2>3. FullMonths = History
      BY DEF ScheduleAssumption
    <2> QED BY <1>3, <2>1, <2>2, <2>3, LookInv, WriteRequestInv
            DEF Schedule!RequestSync, Schedule!SourceAction, Schedule!SyncCosts
  <1>4. CASE UNCHANGED Schedule!vars
    BY <1>4, Outside DEF Schedule!vars, Schedule!clock, Schedule!source, SchedInv, ScheduleTyped
  <1> QED BY <1>1, <1>2, <1>3, <1>4, PauseInv, NextSlotInv DEF Schedule!Next, Schedule!Scheduling,
       Schedule!Asking

LEMMA SchedMeans ==
    ASSUME ScheduleAssumption
    PROVE  SchedInv => Schedule!TypeOK /\ Schedule!RequestIsServed
  <1> SUFFICES ASSUME SchedInv PROVE Schedule!TypeOK /\ Schedule!RequestIsServed
    OBVIOUS
  <1>0. Len(table) \in Nat /\ Schedule!Rows = 1..Len(table)
    BY DEF SchedInv, ScheduleTyped, Schedule!Rows
  <1>1. Schedule!TypeOK
    <2>1. \A j \in Schedule!Rows : /\ table[j].kind \in Schedule!KindNames /\ table[j].months \in Schedule!Months
                                   /\ table[j].read \in Schedule!Months \cup {0} /\ table[j].saved \in BOOLEAN
                                   /\ table[j].status \in Schedule!Active \cup {"done", "failed", "deleted"}
                                   /\ table[j].attempts \in 0..MaxAttempts
      BY RowIs DEF Job
    <2>2. \A p \in Schedule!Processes : txn[p].step \in {"none", "look", "write"}
            /\ txn[p].seen \in 0..Len(table)
      BY <1>0 DEF SchedInv, ScheduleTyped, Holding, Txn
    <2>3. \A c \in Clients : answer[c].job \in 0..Len(table)
      BY <1>0 DEF SchedInv, ScheduleTyped, ScheduleAnswered, Answer
    <2> QED BY <2>1, <2>2, <2>3 DEF SchedInv, ScheduleTyped, Schedule!TypeOK
  <1>2. ASSUME NEW c \in Clients, answer[c].job # 0, table[answer[c].job].status \in {"leased", "done"}
        PROVE  table[answer[c].job].read >= answer[c].months
    <2>1. ScheduleAnswered(c) /\ answer[c].months \in Nat /\ answer[c].job \in Schedule!Rows
      BY <1>0, <1>2 DEF SchedInv, ScheduleTyped, ScheduleAnswered, Answer
    <2> DEFINE j == answer[c].job
    <2>2. table[j] \in Job /\ Sound(table[j]) /\ table[j].months \in Nat /\ table[j].read \in Nat
      BY <2>1, RowIs, ScheduleConstants DEF Job
    <2> QED BY <1>2, <2>1, <2>2 DEF Sound, ScheduleAnswered
  <1> QED BY <1>1, <1>2 DEF Schedule!RequestIsServed

LEMMA SchedInvariance == ASSUME ScheduleAssumption PROVE Schedule!Spec => []SchedInv
  BY SchedInit, SchedNext, PTL DEF Schedule!Spec

\* Only the tick whose transaction it is adds a row while it writes, and it adds one of its kind
\* and slot that has none yet, unless the kind was pulled in this slot.
LEMMA SlotStep ==
    ASSUME ScheduleAssumption, SchedInv, [Schedule!Next]_(Schedule!vars)
    PROVE  [Schedule!SlotPulledOnce]_(Schedule!vars)
  <1> SUFFICES ASSUME Schedule!Next, NEW p \in Schedulers, txn[p].step = "write", txn'[p] # txn[p],
                      Len(table') > Len(table)
               PROVE  LET new == table'[Len(table')] IN
                        /\ last[new.kind] < txn[p].now \/ ~initialized
                        /\ \A j \in Schedule!Rows : table[j].key # new.key
    BY DEF Schedule!SlotPulledOnce
  <1>0. /\ p \in Schedule!Processes /\ p \notin Clients /\ Holding(p) /\ rowLock = p /\ p # Nobody
           /\ txn[p] \in Txn
        /\ Len(table) \in Nat /\ table \in Seq(Job) /\ Schedule!Rows = 1..Len(table)
    BY ScheduleConstants DEF SchedInv, ScheduleTyped, Holding, Schedule!Processes, Schedule!Rows
  <1>1. Schedule!WriteTick(p)
    <2>1. ~Schedule!Worker /\ ~Schedule!Pause /\ ~Schedule!NextSlot
      BY <1>0 DEF Schedule!Worker, Schedule!Lease, Schedule!Succeed, Schedule!Complete,
           Schedule!Fail, Schedule!Pause, Schedule!NextSlot
    <2>2. ASSUME NEW q \in Schedule!Processes, Schedule!Look(q) PROVE FALSE
      BY <1>0, <2>2 DEF Schedule!Look
    <2>3. ASSUME NEW q \in Schedule!Processes, NEW m, NEW i, Schedule!Begin(q, m, i) PROVE FALSE
      BY <1>0, <2>3 DEF Schedule!Begin
    <2>4. ASSUME NEW q \in Clients, Schedule!WriteRequest(q) PROVE FALSE
      <3>1. txn[q].step = "write" /\ Holding(q)
        BY <2>4 DEF Schedule!WriteRequest, SchedInv, Schedule!Processes
      <3> QED BY <1>0, <3>1 DEF Holding
    <2>5. ASSUME NEW q \in Schedulers, Schedule!WriteTick(q) PROVE q = p
      <3>1. txn[q].step = "write" /\ Holding(q)
        BY <2>5 DEF Schedule!WriteTick, SchedInv, Schedule!Processes
      <3> QED BY <1>0, <3>1 DEF Holding
    <2>6. PICK q \in Schedulers : Schedule!WriteTick(q)
      BY <2>1, <2>2, <2>3, <2>4 DEF Schedule!Next, Schedule!Scheduling, Schedule!Asking,
           Schedule!RequestSync, Schedule!SourceAction, Schedule!SyncCosts, Schedule!Tick, Schedule!Request, Schedule!Processes
    <2> QED BY <2>5, <2>6
  <1> DEFINE kind == Schedule!Kinds[txn[p].at]
             key == Schedule!SlotKey(kind, txn[p].now)
             months == IF txn[p].initial THEN History ELSE txn[p].months
  <1>2. table' = IF Schedule!Due(p, kind)
          /\ txn[p].seen = 0 THEN Schedule!Enqueued(kind, key, months, TRUE) ELSE table
    BY <1>1 DEF Schedule!WriteTick
  <1>3. kind \in Schedule!KindNames /\ key \in JobKeys /\ key[1] = kind /\ key[2] = "slot"
        /\ months \in Schedule!Months
    <2>1. txn[p].at \in 1..2 /\ txn[p].now \in Nat
      BY <1>0 DEF Txn
    <2>2. kind \in Schedule!KindNames
      BY <2>1, KindIs
    <2>3. key \in JobKeys /\ key[1] = kind /\ key[2] = "slot"
      <3>1. key \in JobKeys
        BY <2>1, <2>2 DEF JobKeys
      <3>2. key = <<kind, "slot", txn[p].now>>
        BY DEF Schedule!SlotKey
      <3> HIDE DEF key, kind
      <3> QED BY <3>1, <3>2
    <2>4. months \in Schedule!Months
      BY <1>0, ScheduleConstants DEF Holding
    <2> QED BY <2>2, <2>3, <2>4
  <1> HIDE DEF key, months
  <1>4. Schedule!Due(p, kind) /\ Schedule!Existing(key, TRUE) = 0
          /\ table' = Append(table, Schedule!NewRow(kind, key, months))
    <2>1. table' # table
      BY <1>0
    <2>2. Schedule!Due(p, kind) /\ table' = Schedule!Enqueued(kind, key, months, TRUE)
      BY <1>2, <2>1
    <2> QED BY <2>1, <2>2 DEF Schedule!Enqueued
  <1>5. table'[Len(table')].kind = kind /\ table'[Len(table')].key = key
    BY <1>3, <1>4, Appended
  <1>6. last[kind] < txn[p].now \/ ~initialized
    BY <1>0, <1>4 DEF Schedule!Due, Holding
  <1>7. ASSUME NEW j \in Schedule!Rows, table[j].key = key PROVE FALSE
    <2> DEFINE S == {i \in Schedule!Rows : table[i].key = key}
    <2>1. Schedule!Latest(S) \in S
      BY <1>0, <1>7, LastRow
    <2>2. Schedule!Latest(S) # 0
      BY <1>0, <2>1
    <2>3. Schedule!Existing(key, TRUE) = Schedule!Latest(S)
      BY <1>7 DEF Schedule!Existing
    <2> QED BY <1>4, <2>2, <2>3
  <1> QED BY <1>5, <1>6, <1>7

\* Where a full pull is the whole history, as by default, everyone who asks for a pull is told
\* of a job that reads at least the months asked for, however requests, ticks and running pulls
\* interleave (scheduler.py).
THEOREM RequestsServed == ASSUME ScheduleAssumption PROVE Schedule!Spec => []Schedule!RequestIsServed
  BY SchedInvariance, SchedMeans, PTL

\* A kind has one job in a slot, whatever schedulers do at once (scheduler.py).
THEOREM SlotsOnce ==
    ASSUME ScheduleAssumption
    PROVE  Schedule!Spec => [][Schedule!SlotPulledOnce]_(Schedule!vars)
  BY SchedInvariance, SlotStep, PTL DEF Schedule!Spec

-----------------------------------------------------------------------------
(* The verdicts on a budget.                                                *)

VerdictInv == Verdicts!TypeOK /\ Verdicts!VerdictsAreAlerted

LEMMA RunIs ==
    ASSUME NEW r \in Verdicts!Runs
    PROVE  /\ r.at = "status" => r \in [at : {"status"}, month : Verdicts!Months,
                                        amount : Verdicts!Amount, sets : Verdicts!Amount]
           /\ r.at = "rows" => r \in [at : {"rows"}, month : Verdicts!Months, amount : Verdicts!Amount,
                                      sets : Verdicts!Amount, data : Verdicts!Data]
           /\ r.at = "persist" => r \in [at : {"persist"}, month : Verdicts!Months, amount : Verdicts!Amount,
                                         sets : Verdicts!Amount, data : Verdicts!Data, actual : Verdicts!Total]
           /\ r # Verdicts!Idle => r.month \in Verdicts!Months /\ r.amount \in Verdicts!Amount
  BY DEF Verdicts!Runs, Verdicts!Idle

\* The verdict and the alerts of one evaluation agree.
LEMMA AlertedTogether ==
    ASSUME Verdicts!BudgetEvaluationAssumption, NEW amount \in Verdicts!Amount, NEW actual \in Nat,
           NEW data, NEW forecast \in Nat
    PROVE  LET status == Verdicts!Verdict(amount, data, actual, forecast)
               raised == Verdicts!Raised(amount, actual, forecast) IN
           /\ status \in Verdicts!Verdicts /\ raised \subseteq {"actual", "forecast"}
           /\ status = "At risk" => "actual" \in raised
           /\ status = "Over budget" /\ AlertAt <= 100 => "actual" \in raised
           /\ status = "Forecast over budget" => "forecast" \in raised
  <1>1. amount \in Nat /\ AlertAt \in Nat /\ WarnAt \in Nat
    BY DEF Verdicts!BudgetEvaluationAssumption, Verdicts!Amount, Verdicts!Unset
  <1>2. amount * WarnAt \in Nat
    BY <1>1
  <1>3. ASSUME AlertAt <= 100, actual > amount PROVE Verdicts!Reached(amount, actual, AlertAt)
    <2>1. 100 - AlertAt \in Nat
      BY <1>1, <1>3
    <2>2. amount * (100 - AlertAt) \in Nat
      BY <1>1, <2>1
    <2>3. amount * (100 - AlertAt) = amount * 100 - amount * AlertAt
      BY <1>1
    <2>4. amount * AlertAt \in Nat
      BY <1>1
    <2> QED BY <1>1, <1>3, <2>2, <2>3, <2>4 DEF Verdicts!Reached
  <1>4. forecast * 100 > amount * WarnAt => forecast # 0 /\ Verdicts!Reached(amount, forecast, WarnAt)
    BY <1>2 DEF Verdicts!Reached
  <1>5. Verdicts!Verdict(amount, data, actual, forecast) \in Verdicts!Verdicts
    BY DEF Verdicts!Verdict, Verdicts!Verdicts
  <1> QED BY <1>3, <1>4, <1>5 DEF Verdicts!Verdict, Verdicts!Raised

LEMMA VerdictInit == ASSUME Verdicts!BudgetEvaluationAssumption PROVE Verdicts!Init => VerdictInv
  <1> SUFFICES ASSUME Verdicts!Init PROVE VerdictInv
    OBVIOUS
  <1>1. 0 \in Verdicts!Total /\ 0 \in 0..MaxChanges
    BY DEF Verdicts!BudgetEvaluationAssumption, Verdicts!Total
  <1>2. period \in [Scope -> [Verdicts!Months -> Verdicts!Coverage]]
    BY DEF Verdicts!Init, Verdicts!Coverage
  <1> QED BY <1>1, <1>2 DEF VerdictInv, Verdicts!Init, Verdicts!TypeOK, Verdicts!VerdictsAreAlerted,
          Verdicts!Amount, Verdicts!Unset, Verdicts!Runs

\* A step of an evaluation that has not come to its end, or that fails.
LEMMA ReadingInv ==
    ASSUME VerdictInv, NEW e \in Verdicts!Evaluators, NEW r \in Verdicts!Runs,
           evaluator' = [evaluator EXCEPT ![e] = r], changes' \in 0..MaxChanges,
           UNCHANGED <<watched, ceiling, period, spend, evaluation, alerts>>
    PROVE  VerdictInv'
  BY DEF VerdictInv, Verdicts!TypeOK, Verdicts!VerdictsAreAlerted

LEMMA FollowingIs ==
    ASSUME NEW r \in Verdicts!Runs, r # Verdicts!Idle PROVE Verdicts!Following(r) \in Verdicts!Runs
  BY RunIs DEF Verdicts!Following, Verdicts!Runs, Verdicts!Months, Verdicts!Previous,
     Verdicts!Amount, Verdicts!Unset

LEMMA PersistInv ==
    ASSUME Verdicts!BudgetEvaluationAssumption, VerdictInv, NEW e \in Verdicts!Evaluators,
           Verdicts!Persist(e)
    PROVE  VerdictInv'
  <1> DEFINE r == evaluator[e]
  <1>1. r \in Verdicts!Runs /\ r.at = "persist" /\ r # Verdicts!Idle
    BY DEF VerdictInv, Verdicts!TypeOK, Verdicts!Persist, Verdicts!Idle
  <1>2. /\ r.month \in Verdicts!Months /\ r.amount \in Verdicts!Amount /\ r.sets \in Verdicts!Amount
        /\ r.data \in Verdicts!Data /\ r.actual \in Verdicts!Total /\ r.actual \in Nat
    BY <1>1, RunIs DEF Verdicts!Total, Verdicts!BudgetEvaluationAssumption
  <1>3. PICK f \in Verdicts!Forecasts(r.month, r.data, r.actual) :
          /\ evaluation' = [evaluation EXCEPT ![r.month] =
                [status |-> Verdicts!Verdict(r.amount, r.data, r.actual, f), amount |-> r.amount,
                 actual |-> r.actual, data |-> r.data]]
          /\ alerts' = [alerts EXCEPT ![r.month] = @ \cup Verdicts!Raised(r.amount, r.actual, f)]
    BY DEF Verdicts!Persist
  <1>4. f \in Nat
    BY <1>2, <1>3 DEF Verdicts!Forecasts, Verdicts!BudgetEvaluationAssumption
  <1> DEFINE status == Verdicts!Verdict(r.amount, r.data, r.actual, f)
             raised == Verdicts!Raised(r.amount, r.actual, f)
             entry == [status |-> status, amount |-> r.amount, actual |-> r.actual, data |-> r.data]
  <1>5. /\ status \in Verdicts!Verdicts /\ raised \subseteq {"actual", "forecast"}
        /\ status = "At risk" => "actual" \in raised
        /\ status = "Over budget" /\ AlertAt <= 100 => "actual" \in raised
        /\ status = "Forecast over budget" => "forecast" \in raised
    BY <1>2, <1>4, AlertedTogether
  <1>6. entry \in [status : Verdicts!Verdicts, amount : Verdicts!Amount, actual : Verdicts!Total,
                   data : Verdicts!Data]
    BY <1>2, <1>5
  <1>7. evaluation' = [evaluation EXCEPT ![r.month] = entry]
          /\ alerts' = [alerts EXCEPT ![r.month] = @ \cup raised]
    BY <1>3
  <1>8. /\ ceiling' \in Verdicts!Amount /\ UNCHANGED <<watched, period, spend, changes>>
        /\ evaluator' \in [Verdicts!Evaluators -> Verdicts!Runs]
    <2>1. Verdicts!Following(r) \in Verdicts!Runs /\ Verdicts!Idle \in Verdicts!Runs
      BY <1>1, FollowingIs DEF Verdicts!Runs
    <2> QED BY <1>2, <2>1 DEF Verdicts!Persist, VerdictInv, Verdicts!TypeOK
  <1> HIDE DEF status, raised, entry, r
  <1>9. /\ evaluation' \in [Verdicts!Months -> {Verdicts!NotEvaluated} \cup
                              [status : Verdicts!Verdicts, amount : Verdicts!Amount,
                               actual : Verdicts!Total, data : Verdicts!Data]]
        /\ alerts' \in [Verdicts!Months -> SUBSET {"actual", "forecast"}]
    BY <1>2, <1>5, <1>6, <1>7 DEF VerdictInv, Verdicts!TypeOK
  <1>10. Verdicts!TypeOK'
    BY <1>8, <1>9 DEF VerdictInv, Verdicts!TypeOK
  <1>11. ASSUME NEW m \in Verdicts!Months, evaluation'[m] # Verdicts!NotEvaluated
         PROVE  /\ evaluation'[m].status = "At risk" => "actual" \in alerts'[m]
                /\ evaluation'[m].status = "Over budget" /\ AlertAt <= 100 => "actual" \in alerts'[m]
                /\ evaluation'[m].status = "Forecast over budget" => "forecast" \in alerts'[m]
    <2>1. CASE m = r.month
      <3>1. evaluation'[m].status = status /\ raised \subseteq alerts'[m]
        BY <1>7, <1>11, <2>1 DEF VerdictInv, Verdicts!TypeOK, entry
      <3> QED BY <1>5, <3>1
    <2>2. CASE m # r.month
      <3>1. evaluation'[m] = evaluation[m] /\ alerts'[m] = alerts[m]
        BY <1>7, <1>11, <2>2 DEF VerdictInv, Verdicts!TypeOK
      <3> QED BY <1>11, <3>1 DEF VerdictInv, Verdicts!VerdictsAreAlerted
    <2> QED BY <2>1, <2>2
  <1> QED BY <1>10, <1>11 DEF VerdictInv, Verdicts!VerdictsAreAlerted

LEMMA VerdictNext ==
    ASSUME Verdicts!BudgetEvaluationAssumption
    PROVE  VerdictInv /\ [Verdicts!Next]_(Verdicts!vars) => VerdictInv'
  <1> SUFFICES ASSUME VerdictInv, [Verdicts!Next]_(Verdicts!vars) PROVE VerdictInv'
    OBVIOUS
  <1>0. /\ \A e \in Verdicts!Evaluators : evaluator[e] \in Verdicts!Runs
        /\ ceiling \in Verdicts!Amount /\ changes \in 0..MaxChanges /\ MaxChanges \in Nat
        /\ Verdicts!Unset \in Verdicts!Amount
    BY DEF VerdictInv, Verdicts!TypeOK, Verdicts!BudgetEvaluationAssumption, Verdicts!Amount
  <1>1. CASE Verdicts!WorkerBegin
    <2>1. [at |-> "status", month |-> Verdicts!Current, amount |-> ceiling, sets |-> Verdicts!Unset]
            \in Verdicts!Runs
      BY <1>0 DEF Verdicts!Runs, Verdicts!Months
    <2> QED BY <1>0, <1>1, <2>1, ReadingInv DEF Verdicts!WorkerBegin, Verdicts!Evaluators
  <1>2. ASSUME NEW m \in Verdicts!Months, NEW l \in Verdicts!Amount, Verdicts!WebBegin(m, l)
        PROVE  VerdictInv'
    <2>1. [at |-> "status", month |-> m, amount |-> ceiling, sets |-> l] \in Verdicts!Runs
      BY <1>0 DEF Verdicts!Runs
    <2>2. changes' \in 0..MaxChanges
      BY <1>0, <1>2 DEF Verdicts!WebBegin
    <2> QED BY <1>2, <2>1, <2>2, ReadingInv DEF Verdicts!WebBegin, Verdicts!Evaluators
  <1>3. ASSUME NEW e \in Verdicts!Evaluators, Verdicts!ReadStatus(e) PROVE VerdictInv'
    <2>1. Verdicts!DataStatus(evaluator[e].month) \in Verdicts!Data
      BY DEF Verdicts!DataStatus, Verdicts!Data
    <2>2. [at |-> "rows", month |-> evaluator[e].month, amount |-> evaluator[e].amount, sets |-> evaluator[e].sets,
           data |-> Verdicts!DataStatus(evaluator[e].month)] \in Verdicts!Runs
      BY <1>0, <1>3, <2>1, RunIs DEF Verdicts!ReadStatus, Verdicts!Runs
    <2> QED BY <1>0, <1>3, <2>2, ReadingInv DEF Verdicts!ReadStatus, VerdictInv, Verdicts!TypeOK
  <1>4. ASSUME NEW e \in Verdicts!Evaluators, Verdicts!ReadRows(e) PROVE VerdictInv'
    <2>1. evaluator[e].month \in Verdicts!Months
      BY <1>0, <1>4, RunIs DEF Verdicts!ReadRows
    <2>2. spend[evaluator[e].month] \in Verdicts!Total
      BY <2>1 DEF VerdictInv, Verdicts!TypeOK
    <2>3. [at |-> "persist", month |-> evaluator[e].month, amount |-> evaluator[e].amount, sets |-> evaluator[e].sets,
           data |-> evaluator[e].data, actual |-> spend[evaluator[e].month]] \in Verdicts!Runs
      BY <1>0, <1>4, <2>2, RunIs DEF Verdicts!ReadRows, Verdicts!Runs
    <2> QED BY <1>0, <1>4, <2>3, ReadingInv DEF Verdicts!ReadRows, VerdictInv, Verdicts!TypeOK
  <1>5. ASSUME NEW e \in Verdicts!Evaluators, Verdicts!Raises(e) PROVE VerdictInv'
    <2>1. Verdicts!Following(evaluator[e]) \in Verdicts!Runs /\ Verdicts!Idle \in Verdicts!Runs
      BY <1>0, <1>5, FollowingIs DEF Verdicts!Raises, Verdicts!Runs
    <2>2. changes' \in 0..MaxChanges
      BY <1>0, <1>5 DEF Verdicts!Raises
    <2> QED BY <1>5, <2>1, <2>2, ReadingInv DEF Verdicts!Raises
  <1>6. CASE Verdicts!Deactivate \/ UNCHANGED Verdicts!vars
    BY <1>6 DEF VerdictInv, Verdicts!TypeOK, Verdicts!VerdictsAreAlerted, Verdicts!Deactivate, Verdicts!vars
  <1>7. ASSUME NEW s \in Scope, NEW m \in Verdicts!Months, NEW status \in Verdicts!Coverage,
               NEW c \in Verdicts!Total, Verdicts!Cover(s, m, status, c)
        PROVE  VerdictInv'
    <2>1. changes' \in 0..MaxChanges
      BY <1>0, <1>7 DEF Verdicts!Cover
    <2> QED BY <1>7, <2>1 DEF VerdictInv, Verdicts!TypeOK, Verdicts!VerdictsAreAlerted, Verdicts!Cover
  <1>8. ASSUME NEW s \in Scope, NEW m \in Verdicts!Months,
               Verdicts!Attempt(s, m) \/ Verdicts!Publish(s, m) \/ Verdicts!Failure(s, m)
                 \/ Verdicts!GoesOld(s, m)
        PROVE  VerdictInv'
    <2>1. spend[m] \in Verdicts!Total
      BY DEF VerdictInv, Verdicts!TypeOK
    <2>2. \E status \in Verdicts!Coverage, c \in Verdicts!Total : Verdicts!Cover(s, m, status, c)
      BY <1>8, <2>1 DEF Verdicts!Attempt, Verdicts!Publish, Verdicts!Failure, Verdicts!GoesOld,
         Verdicts!Coverage
    <2> QED BY <1>7, <2>2
  <1> QED BY <1>1, <1>2, <1>3, <1>4, <1>5, <1>6, <1>8, PersistInv DEF Verdicts!Next

LEMMA VerdictMeans == VerdictInv => Verdicts!TypeOK /\ Verdicts!VerdictsAreAlerted
  BY DEF VerdictInv

\* The worker and a web request evaluate one month over each other, while costs are published and
\* the limit changes: the stored verdict always has the alert of its threshold (budgets.py).
THEOREM VerdictsAlerted ==
    ASSUME Verdicts!BudgetEvaluationAssumption
    PROVE  Verdicts!Spec => []Verdicts!VerdictsAreAlerted
  BY VerdictInit, VerdictNext, VerdictMeans, PTL DEF Verdicts!Spec

-----------------------------------------------------------------------------
(* The inventory of accounts.                                               *)

LEMMA InventoryInit == ASSUME Inventory!DiscoveryAssumption PROVE Inventory!Init => Inventory!TypeOK
  <1> SUFFICES ASSUME Inventory!Init PROVE Inventory!TypeOK
    OBVIOUS
  <1>1. Inventory!NoRun \in Inventory!Run /\ 0 \in 0..MaxMoves /\ 0 \in 0..MaxChanges
    BY DEF Inventory!DiscoveryAssumption, Inventory!NoRun, Inventory!Run
  <1> QED BY <1>1 DEF Inventory!Init, Inventory!TypeOK

LEMMA InventoryNext ==
    ASSUME Inventory!DiscoveryAssumption
    PROVE  Inventory!TypeOK /\ [Inventory!Next]_(Inventory!vars) => Inventory!TypeOK'
  <1> SUFFICES ASSUME Inventory!TypeOK, [Inventory!Next]_(Inventory!vars) PROVE Inventory!TypeOK'
    OBVIOUS
  <1>1. ASSUME NEW p \in Payers, Inventory!Ask(p) PROVE Inventory!TypeOK'
    <2>1. Inventory!Found(p) \subseteq Accounts
      BY DEF Inventory!Found, Inventory!TypeOK
    <2>2. [found |-> Inventory!Found(p), version |-> setting[p], going |-> TRUE] \in Inventory!Run
      BY <2>1 DEF Inventory!TypeOK, Inventory!Run
    <2> QED BY <1>1, <2>2 DEF Inventory!Ask, Inventory!TypeOK, Inventory!Holders
  <1>2. ASSUME NEW p \in Payers, Inventory!LoseLease(p) PROVE Inventory!TypeOK'
    <2>1. Inventory!NoRun \in Inventory!Run
      BY DEF Inventory!DiscoveryAssumption, Inventory!NoRun, Inventory!Run
    <2>2. [leased |-> Inventory!NoRun, late |-> discovering[p]["leased"]]
            \in [Inventory!Holders -> Inventory!Run]
      BY <2>1 DEF Inventory!TypeOK, Inventory!Holders
    <2> QED BY <1>2, <2>2 DEF Inventory!LoseLease, Inventory!TypeOK
  <1>3. ASSUME NEW p \in Payers, NEW h \in Inventory!Holders, Inventory!Write(p, h) PROVE Inventory!TypeOK'
    <2>1. discovering' \in [Payers -> [Inventory!Holders -> Inventory!Run]]
      <3>1. Inventory!NoRun \in Inventory!Run
        BY DEF Inventory!DiscoveryAssumption, Inventory!NoRun, Inventory!Run
      <3> QED BY <1>3, <3>1 DEF Inventory!Write, Inventory!TypeOK
    <2>2. CASE UNCHANGED <<account, holder>>
      BY <1>3, <2>1, <2>2 DEF Inventory!Write, Inventory!TypeOK
    <2>3. CASE ~UNCHANGED <<account, holder>>
      <3> DEFINE found == discovering[p][h].found
                 entry(a) == IF a \in found THEN [seen |-> TRUE, source |-> p, missing |-> FALSE]
                             ELSE IF a \in Inventory!Missing(p, found)
                                  THEN [account[a] EXCEPT !.missing = TRUE] ELSE account[a]
                 Rows == {Inventory!Unseen} \cup [seen : {TRUE}, source : Payers, missing : BOOLEAN]
      <3>1. /\ account' = [a \in Accounts |-> entry(a)]
            /\ holder' = Inventory!AutoAssigned(p, found)
        BY <1>3, <2>3 DEF Inventory!Write
      <3>2. ASSUME NEW a \in Accounts
            PROVE  /\ entry(a) \in Rows
                   /\ a \in found \/ account[a] # Inventory!Unseen => entry(a) # Inventory!Unseen
        BY DEF Inventory!TypeOK, Inventory!Missing, Inventory!Unseen
      <3>3. holder' \in [Accounts -> Payers \cup {Inventory!NoPayer}]
        BY <3>1 DEF Inventory!AutoAssigned, Inventory!TypeOK
      <3>4. ASSUME NEW a \in Accounts, holder'[a] # Inventory!NoPayer PROVE account'[a] # Inventory!Unseen
        <4>1. a \in found \/ holder[a] # Inventory!NoPayer
          BY <3>1, <3>4 DEF Inventory!AutoAssigned
        <4> HIDE DEF entry
        <4> QED BY <3>1, <3>2, <4>1 DEF Inventory!TypeOK
      <3> HIDE DEF entry
      <3> QED BY <1>3, <2>1, <3>1, <3>2, <3>3, <3>4 DEF Inventory!Write, Inventory!TypeOK
    <2> QED BY <2>2, <2>3
  <1>4. ASSUME NEW p \in Payers, NEW a \in Accounts, Inventory!AddManually(p, a) PROVE Inventory!TypeOK'
    BY <1>4 DEF Inventory!AddManually, Inventory!TypeOK, Inventory!Unseen
  <1>5. ASSUME NEW p \in Payers, Inventory!ChangeConnection(p) PROVE Inventory!TypeOK'
    <2>1. setting[p] \in 0..MaxChanges /\ setting[p] < MaxChanges /\ MaxChanges \in Nat
      BY <1>5 DEF Inventory!DiscoveryAssumption, Inventory!ChangeConnection, Inventory!TypeOK
    <2>2. setting[p] + 1 \in 0..MaxChanges
      BY <2>1
    <2> QED BY <1>5, <2>2 DEF Inventory!ChangeConnection, Inventory!TypeOK
  <1>6. ASSUME NEW p \in Payers \cup {Inventory!Outside}, NEW a \in Accounts, Inventory!Move(a, p)
        PROVE  Inventory!TypeOK'
    <2>1. moves + 1 \in 0..MaxMoves
      BY <1>6 DEF Inventory!DiscoveryAssumption, Inventory!Move, Inventory!TypeOK
    <2> QED BY <1>6, <2>1 DEF Inventory!Move, Inventory!TypeOK
  <1>7. ASSUME NEW p \in Payers, NEW a \in Accounts, Inventory!Forget(p, a) PROVE Inventory!TypeOK'
    BY <1>7 DEF Inventory!Forget, Inventory!TypeOK
  <1>8. CASE UNCHANGED Inventory!vars
    BY <1>8 DEF Inventory!vars, Inventory!TypeOK
  <1> QED BY <1>1, <1>2, <1>3, <1>4, <1>5, <1>6, <1>7, <1>8 DEF Inventory!Next

LEMMA AssignmentStep ==
    ASSUME Inventory!TypeOK, [Inventory!Next]_(Inventory!vars) PROVE Inventory!AssignmentIsKept
  <1> SUFFICES ASSUME NEW a \in Accounts, holder[a] # Inventory!NoPayer PROVE holder'[a] = holder[a]
    BY DEF Inventory!AssignmentIsKept
  <1>1. ASSUME NEW p \in Payers, NEW h \in Inventory!Holders, Inventory!Write(p, h)
        PROVE  holder'[a] = holder[a]
    BY <1>1 DEF Inventory!Write, Inventory!AutoAssigned
  <1>2. ASSUME NEW p \in Payers, NEW b \in Accounts, Inventory!AddManually(p, b)
        PROVE  holder'[a] = holder[a]
    BY <1>2 DEF Inventory!AddManually
  <1> QED BY <1>1, <1>2 DEF Inventory!Next, Inventory!vars, Inventory!Ask, Inventory!LoseLease,
          Inventory!ChangeConnection, Inventory!Forget, Inventory!Move

\* However late an answer of AWS is written and whoever adds accounts by hand meanwhile, an
\* account that has a customer keeps it (collector.py, governance.py).
THEOREM AssignmentsKept ==
    ASSUME Inventory!DiscoveryAssumption
    PROVE  Inventory!Spec => [][Inventory!AssignmentIsKept]_(Inventory!vars)
  BY InventoryInit, InventoryNext, AssignmentStep, PTL DEF Inventory!Spec
=============================================================================
