--------------------------- MODULE PaginationProofs -------------------------
(***************************************************************************)
(* Proofs about Pagination, for every set of tokens, finite or not, and    *)
(* every limit.                                                            *)
(***************************************************************************)
EXTENDS Pagination, FiniteSetTheorems, TLAPS

(* What has been asked was seen before, the token of the next request has  *)
(* not been asked, every request asked for a token of its own, every one   *)
(* but an open or failed one has yielded a page, and every page but the    *)
(* last one given has been counted.                                        *)
Progress ==
    /\ asked \subseteq seen
    /\ IsFiniteSet(asked) /\ Cardinality(asked) = requests
    /\ pc = "looping" => token \notin asked /\ token \in seen /\ ~LimitReached(count)
    /\ pc \in {"requesting", "handled", "raised"} =>
           yielded = count /\ requests = count + 1 /\ ~LimitReached(count)
    /\ pc \in {"yielding", "abandoned"} => yielded = count + 1 /\ requests = yielded
    /\ pc \in {"looping", "exhausted", "limited", "repeated"} => yielded = count /\ requests = yielded
    /\ max_pages > 0 => requests <= max_pages

Inv == TypeOK /\ Progress

LEMMA InvInit == Init => Inv
BY PaginationAssumption, FS_EmptySet DEF Init, Inv, TypeOK, Progress, PageTokens, PCs, LimitReached

LEMMA InvStep == Inv /\ [Next]_vars => Inv'
<1> SUFFICES ASSUME Inv, [Next]_vars PROVE Inv'
  OBVIOUS
<1> USE PaginationAssumption
    DEF Inv, TypeOK, Progress, PageTokens, PCs, Ended, LimitReached, arguments
<1>1. CASE Request
  <2>1. token \notin asked /\ asked' = asked \cup {token} /\ requests' = requests + 1
    BY <1>1 DEF Request
  <2>2. IsFiniteSet(asked') /\ Cardinality(asked') = requests'
    BY <2>1, FS_AddElement
  <2> QED
    BY <1>1, <2>2 DEF Request
<1>2. CASE PageArrives
  BY <1>2 DEF PageArrives, Receive
<1>3. CASE RequestFails
  BY <1>3 DEF RequestFails
<1>4. CASE Resume
  BY <1>4 DEF Resume, Repeated
<1>5. CASE Abandon
  BY <1>5 DEF Abandon
<1>6. CASE UNCHANGED vars
  BY <1>6 DEF vars
<1> QED
  BY <1>1, <1>2, <1>3, <1>4, <1>5, <1>6 DEF Next

LEMMA Invariant == Spec => []Inv
BY InvInit, InvStep, PTL DEF Spec

(* Every variable keeps its type; max_pages bounds the requests it limits. *)
THEOREM TypeCorrect == Spec => []TypeOK
<1>1. Inv => TypeOK
  BY DEF Inv
<1> QED
  BY <1>1, Invariant, PTL

(* No page is requested twice, and none after max_pages of them.           *)
THEOREM RequestsNeeded == Spec => RequestsAreNeeded
<1>1. Inv /\ [Next]_vars =>
         [requests' # requests =>
             (token \notin asked /\ (max_pages > 0 => requests < max_pages))]_vars
  BY DEF Inv, TypeOK, Progress, LimitReached, Next, Request, PageArrives, RequestFails, Resume, Abandon
<1> QED
  BY <1>1, Invariant, PTL DEF Spec, RequestsAreNeeded

RequestsBounded ==
    /\ max_pages > 0 => requests <= max_pages
    /\ IsFiniteSet(Tokens) => requests <= Cardinality(PageTokens)

(* The requests are no more than max_pages, nor than the tokens, even if   *)
(* the server answers with the same ones for ever.                         *)
THEOREM RequestsLimited == Spec => []RequestsBounded
<1>1. Inv => RequestsBounded
  <2> SUFFICES ASSUME Inv PROVE RequestsBounded
    OBVIOUS
  <2>1. max_pages > 0 => requests <= max_pages
    BY DEF Inv, Progress
  <2>2. ASSUME IsFiniteSet(Tokens) PROVE requests <= Cardinality(PageTokens)
    <3>1. IsFiniteSet(PageTokens)
      BY <2>2, FS_AddElement DEF PageTokens
    <3>2. asked \subseteq PageTokens /\ Cardinality(asked) = requests
      BY DEF Inv, TypeOK, Progress
    <3> QED
      BY <3>1, <3>2, FS_Subset
  <2> QED
    BY <2>1, <2>2 DEF RequestsBounded
<1> QED
  BY <1>1, Invariant, PTL

(* No page that arrived is dropped.                                        *)
THEOREM PagesYielded == Spec => []NoPageDropped
<1>1. Inv => NoPageDropped
  BY DEF Inv, Progress, NoPageDropped
<1> QED
  BY <1>1, Invariant, PTL

(* What is left of an iteration: three steps for each token not yet asked, *)
(* and what the present page still needs.                                  *)
StepsLeft ==
    3 * (Cardinality(PageTokens) - requests) +
    CASE pc = "looping" -> 1
      [] pc = "requesting" -> 3
      [] pc = "yielding" -> 2
      [] OTHER -> 0

(* The reason why IterationEnds, for every finite set of tokens: no step of*)
(* the iteration, whatever the server answers, leaves as much to do as     *)
(* before, and what is left to do never runs below zero.                   *)
THEOREM IterationRunsOut ==
    ASSUME IsFiniteSet(Tokens)
    PROVE  Spec => [](StepsLeft \in Nat) /\ [][StepsLeft' < StepsLeft]_vars
<1>1. Inv => StepsLeft \in Nat
  <2> SUFFICES ASSUME Inv PROVE StepsLeft \in Nat
    OBVIOUS
  <2>1. IsFiniteSet(PageTokens)
    BY FS_AddElement DEF PageTokens
  <2>2. asked \subseteq PageTokens /\ Cardinality(asked) = requests /\ requests \in Nat
    BY DEF Inv, TypeOK, Progress
  <2>3. Cardinality(PageTokens) \in Nat /\ requests <= Cardinality(PageTokens)
    BY <2>1, <2>2, FS_Subset, FS_CardinalityType
  <2> QED
    BY <2>2, <2>3 DEF StepsLeft
<1>2. Inv /\ [Next]_vars => [StepsLeft' < StepsLeft]_vars
  <2> SUFFICES ASSUME Inv, Next PROVE StepsLeft' < StepsLeft
    OBVIOUS
  <2>1. Cardinality(PageTokens) \in Nat /\ requests \in Nat
    BY FS_AddElement, FS_CardinalityType DEF PageTokens, Inv, TypeOK
  <2> USE DEF StepsLeft
  <2>2. CASE Request
    BY <2>1, <2>2 DEF Request
  <2>3. CASE PageArrives
    BY <2>1, <2>3 DEF PageArrives, Receive
  <2>4. CASE RequestFails
    BY <2>1, <2>4 DEF RequestFails
  <2>5. CASE Resume
    BY <2>1, <2>5 DEF Resume
  <2>6. CASE Abandon
    BY <2>1, <2>6 DEF Abandon
  <2> QED
    BY <2>2, <2>3, <2>4, <2>5, <2>6 DEF Next
<1> QED
  BY <1>1, <1>2, Invariant, PTL DEF Spec

=============================================================================
