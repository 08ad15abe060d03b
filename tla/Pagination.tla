----------------------------- MODULE Pagination -----------------------------
(***************************************************************************)
(* iter_pages of both clients: a generator (or an async one) that calls a  *)
(* paginated method once for each page it yields, and follows the page     *)
(* tokens of a server that may answer with any token, also one it has      *)
(* given before, directly or at the end of a longer cycle.                 *)
(***************************************************************************)
EXTENDS Integers, FiniteSets

CONSTANTS
    Tokens,     \* the non-empty page tokens
    NoToken,    \* the empty token: the first page, or no further page
    MaxPages,   \* bound: the largest max_pages of a call
    MaxRequests \* bound: the requests of a call; one larger than the number
                \* of tokens is never met (theorem RequestsLimited)

ASSUME PaginationAssumption == NoToken \notin Tokens /\ MaxPages \in Nat /\ MaxRequests \in Nat

VARIABLES
    max_pages,  \* the argument; 0 stands for None
    handler,    \* an error_handler was passed on to the method
    pc,         \* where the generator is
    token,      \* the token of the next request
    seen,       \* the tokens iter_pages has met
    count,      \* the pages after which the consumer asked for more
    response,   \* next_page_token of the page at hand
    asked,      \* history: the tokens the server was sent
    requests,   \* history: the requests the server was sent
    yielded     \* history: the pages the consumer was given

arguments == <<max_pages, handler>>
vars == <<arguments, pc, token, seen, count, response, asked, requests, yielded>>

PageTokens == Tokens \cup {NoToken}
Ended == {"exhausted", "limited", "repeated", "handled", "raised", "abandoned"}
PCs == {"looping", "requesting", "yielding"} \cup Ended

TypeOK ==
    /\ max_pages \in 0..MaxPages
    /\ handler \in BOOLEAN
    /\ pc \in PCs
    /\ token \in PageTokens
    /\ seen \subseteq PageTokens
    /\ count \in 0..yielded
    /\ response \in PageTokens
    /\ asked \subseteq PageTokens
    /\ requests \in Nat
    /\ yielded \in 0..requests

(* validate_page_iterator has refused every max_pages below 1.             *)
Init ==
    /\ max_pages \in 0..MaxPages
    /\ handler \in BOOLEAN
    /\ pc = "looping"
    /\ token \in PageTokens
    /\ seen = {token}
    /\ count = 0
    /\ response = NoToken
    /\ asked = {}
    /\ requests = 0
    /\ yielded = 0

-----------------------------------------------------------------------------
(* Faulty variants, used by no specification.                              *)
LimitReachedLate(n) == max_pages > 0 /\ n > max_pages
RepeatedJustBefore(t) == t = token
ReceiveUnlessRepeated(next) ==
    /\ response' = next
    /\ IF next \in seen
       THEN pc' = "repeated" /\ UNCHANGED yielded
       ELSE pc' = "yielding" /\ yielded' = yielded + 1
    /\ UNCHANGED count
ReceiveCounted(next) ==
    /\ response' = next
    /\ pc' = "yielding"
    /\ yielded' = yielded + 1
    /\ count' = count + 1

-----------------------------------------------------------------------------
LimitReached(n) == max_pages > 0 /\ n >= max_pages

Repeated(t) == t \in seen

(* The loop test holds, as a page limit is met only after a yield.         *)
Request ==
    /\ pc = "looping"
    /\ requests < MaxRequests
    /\ ~LimitReached(count)
    /\ pc' = "requesting"
    /\ asked' = asked \cup {token}
    /\ requests' = requests + 1
    /\ UNCHANGED <<arguments, token, seen, count, response, yielded>>

(* The page is yielded before it is counted or its token is looked at.     *)
Receive(next) ==
    /\ response' = next
    /\ pc' = "yielding"
    /\ yielded' = yielded + 1
    /\ UNCHANGED count

PageArrives ==
    /\ pc = "requesting"
    /\ \E next \in PageTokens : Receive(next)
    /\ UNCHANGED <<arguments, token, seen, asked, requests>>

(* The method raises, or its error handler took the error and it returned  *)
(* None, which ends the iteration without an error.                        *)
RequestFails ==
    /\ pc = "requesting"
    /\ \/ pc' = "raised"
       \/ handler /\ pc' = "handled"
    /\ UNCHANGED <<arguments, token, seen, count, response, asked, requests, yielded>>

(* The consumer asks for another page.                                     *)
Resume ==
    /\ pc = "yielding"
    /\ count' = count + 1
    /\ \/ /\ LimitReached(count')
          /\ pc' = "limited"
          /\ UNCHANGED <<token, seen>>
       \/ /\ ~LimitReached(count')
          /\ token' = response
          /\ pc' = IF response = NoToken THEN "exhausted"
                   ELSE IF Repeated(response) THEN "repeated" ELSE "looping"
          /\ seen' = IF pc' = "looping" THEN seen \cup {response} ELSE seen
    /\ UNCHANGED <<arguments, response, asked, requests, yielded>>

(* The consumer breaks out of its loop.                                    *)
Abandon ==
    /\ pc = "yielding"
    /\ pc' = "abandoned"
    /\ UNCHANGED <<arguments, token, seen, count, response, asked, requests, yielded>>

Next == Request \/ PageArrives \/ RequestFails \/ Resume \/ Abandon

Spec == Init /\ [][Next]_vars

(* The server answers or fails, and the consumer goes on.                  *)
FairSpec == Spec /\ WF_vars(Request \/ PageArrives \/ RequestFails \/ Resume)

-----------------------------------------------------------------------------
(* No page is requested twice, whatever the server answers, and none after *)
(* max_pages of them.                                                      *)
RequestsAreNeeded ==
    [][requests' # requests =>
          (token \notin asked /\ (max_pages > 0 => requests < max_pages))]_vars

(* Every page that arrived has been yielded before anything else happens   *)
(* to the iteration, also the page that carries a repeated token.          *)
NoPageDropped ==
    pc \in {"looping", "yielding", "exhausted", "limited", "repeated", "abandoned"} =>
        yielded = requests

(* The iteration ends, also when max_pages is None and the server keeps    *)
(* answering with tokens of a finite set.                                  *)
IterationEnds == <>(pc \in Ended)

=============================================================================
