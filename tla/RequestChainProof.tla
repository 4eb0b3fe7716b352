------------------------- MODULE RequestChainProof --------------------------
(***************************************************************************)
(* Proofs about RequestChain for any origins and limits.                   *)
(***************************************************************************)
EXTENDS RequestChain, TLAPS

\* A request of the chain went to another origin.
Away == \E o \in via : ~SameOrigin(Home, o)

Trail == left \/ ~SameOrigin(Home, req.origin) => Away

AwayScoped ==
    Away => /\ req.headers \subseteq {"Accept", "Content-Type"}
            /\ "Content-Type" \in req.headers => req.body # "none" /\ req.method = opts.method

\* A response body is open from the answer to its end.
Closed == open = IF pc \in {"answered", "returned", "received"} THEN 1 ELSE 0

Flagged ==
    /\ opts.guard /\ requests > 1 => redirected
    /\ result # "none" => pc = "over"

\* What services have done before the chain at hand.
Before == IF again THEN 1 ELSE 0

\* By default an unsafe request is sent once in a chain.
Acting ==
    /\ again => refreshed \/ pc \in {"refreshing", "over"}
    /\ opts.method = "POST" /\ opts.retry = "default" =>
         /\ effects <= Before + 1
         /\ pc \in {"building", "refreshing"} => effects <= Before
         /\ pc = "sending" /\ req.method = "POST" => effects <= Before
         /\ pc \in {"answered", "returned", "received"} /\ req.method = "POST" /\ resp.status \notin Acted =>
              effects <= Before
         /\ pc = "waiting" => req.method = "GET"

\* The attempts of a request, and of a chain.
Round == MaxRetries + 1

Quota == MaxRequests * Round

\* The attempts of the chains and requests before the one at hand.
Earlier == (IF refreshed THEN Quota ELSE 0) + (requests - 1) * Round

Counting ==
    /\ pc = "building" => sends <= IF refreshed THEN Quota ELSE 0
    /\ pc = "sending" => sends <= Earlier + attempt
    /\ pc \in {"answered", "returned", "received"} => sends <= Earlier + attempt + 1
    /\ pc = "waiting" => sends <= Earlier + attempt + 1 /\ attempt < MaxRetries
    /\ pc = "refreshing" => sends <= Quota /\ ~refreshed
    /\ sends <= MaxSends

IInv ==
    /\ TypeOK /\ Trail /\ AwayScoped /\ TokenStaysHome /\ BodyWhole
    /\ Closed /\ Flagged /\ NoPageAsData /\ Acting /\ Counting

USE RequestChainAssumption

-----------------------------------------------------------------------------
(* Origins, requests and counts *)

LEMMA OriginEquality ==
    /\ SameOrigin(Home, Home)
    /\ \A o \in Origin : SameOrigin(Home, o) => o = Home
BY DEF SameOrigin, Origin

LEMMA FirstRequestType ==
    ASSUME NEW o \in Options
    PROVE  /\ FirstRequest(o) \in Request
           /\ FirstRequest(o).origin = Home
           /\ FirstRequest(o).body \in {"none", "full"}
           /\ FirstRequest(o).headers \subseteq Headers
<1>1. FirstRequest(o).headers \subseteq Headers
  BY DEF FirstRequest, Headers
<1>2. QED
  BY <1>1 DEF FirstRequest, Request, Options

LEMMA ResponseShape ==
    ASSUME NEW r \in Response
    PROVE  /\ r.status \in {200, 302, 307, 401, 404, 503}
           /\ r.location \in Origin \cup {NoLocation}
           /\ r.html \in BOOLEAN
<1>1. CASE r \in [status : {302, 307}, location : Origin \cup {NoLocation}, html : {FALSE}]
  BY <1>1, ZenonT(60)
<1>2. CASE r \in [status : {200}, location : {NoLocation}, html : BOOLEAN]
  BY <1>2
<1>3. CASE r \in [status : {401, 404, 503}, location : {NoLocation}, html : {FALSE}]
  BY <1>3, ZenonT(60)
<1>4. QED
  BY <1>1, <1>2, <1>3, ZenonT(60) DEF Response

\* A chain of n requests stays below its quota, and one more request adds a round.
LEMMA RoundCount ==
    ASSUME NEW n \in 1 .. MaxRequests
    PROVE  /\ (n - 1) * Round \in Nat /\ Quota \in Nat
           /\ (n - 1) * Round + Round = n * Round
           /\ n * Round <= Quota
           /\ MaxSends = Quota + Quota
<1>1. Round \in Nat
  BY DEF Round
<1>2. n * Round <= MaxRequests * Round
  BY <1>1
<1>3. (n - 1) * Round + Round = n * Round
  BY <1>1
<1>4. (n - 1) * Round \in Nat /\ MaxRequests * Round \in Nat
  BY <1>1
<1>5. MaxSends = MaxRequests * Round + MaxRequests * Round
  BY <1>1 DEF MaxSends, Round
<1>6. QED
  BY <1>2, <1>3, <1>4, <1>5 DEF Quota

LEMMA CountType ==
    ASSUME NEW n \in Nat, NEW bound \in Nat, n <= bound + 1
    PROVE  Count(n, bound) \in 0 .. bound + 1 /\ Count(n, bound) <= n + 1
BY DEF Count

\* The attempts before the request at hand leave it a round.
LEMMA EarlierCount ==
    ASSUME requests \in 1 .. MaxRequests, refreshed \in BOOLEAN
    PROVE  /\ Earlier \in Nat /\ Earlier + Round <= MaxSends
           /\ (IF refreshed THEN Quota ELSE 0) + requests * Round = Earlier + Round
<1>1. PICK u \in Nat, w \in Nat : u = (requests - 1) * Round /\ w = requests * Round
  BY RoundCount DEF Round
<1>2. u + Round = w /\ w <= Quota /\ Quota \in Nat /\ MaxSends = Quota + Quota /\ Round \in Nat
  BY <1>1, RoundCount DEF Round
<1>3. PICK b \in Nat : b = (IF refreshed THEN Quota ELSE 0) /\ b <= Quota
  BY <1>2
<1>4. Earlier = b + u
  BY <1>1, <1>3 DEF Earlier
<1>5. QED
  BY <1>1, <1>2, <1>3, <1>4

LEMMA SendsType == MaxSends \in Nat
BY RoundCount

-----------------------------------------------------------------------------
(* The first request *)

LEMMA InitIInv == Init => IInv
<1> SUFFICES ASSUME Init PROVE IInv
  OBVIOUS
<1>1. opts \in Options
  BY DEF Init
<1>2. resp \in Response
  BY DEF Init, Response
<1>3. TypeOK
  <2>1. req \in Request /\ requests \in 1 .. MaxRequests /\ attempt \in 0 .. MaxRetries
    BY <1>1, FirstRequestType DEF Init
  <2>2. sends \in 0 .. MaxSends + 1 /\ effects \in 0 .. 3
    BY SendsType DEF Init
  <2>3. pc \in {"building", "sending"} /\ result \in {"none", "data"}
    BY DEF Init
  <2>4. via \subseteq Origin /\ granted \subseteq Origin /\ open \in 0 .. 1
    BY DEF Init
  <2>5. /\ redirected \in BOOLEAN /\ refreshed \in BOOLEAN
        /\ left \in BOOLEAN /\ again \in BOOLEAN
    BY DEF Init
  <2>6. QED
    BY <1>1, <1>2, <2>1, <2>2, <2>3, <2>4, <2>5 DEF TypeOK
<1>4. Trail /\ AwayScoped /\ TokenStaysHome /\ BodyWhole
  BY <1>1, OriginEquality, FirstRequestType
     DEF Init, Trail, Away, AwayScoped, TokenStaysHome, BodyWhole
<1>5. Closed /\ Flagged /\ NoPageAsData /\ Acting
  BY DEF Init, Closed, Flagged, NoPageAsData, Acting, Before
<1>6. Counting
  BY SendsType, RoundCount DEF Init, Counting
<1>7. QED
  BY <1>3, <1>4, <1>5, <1>6 DEF IInv

LEMMA BuildStep == ASSUME IInv, Build PROVE IInv'
<1> USE DEF IInv
<1>1. TypeOK'
  <2>1. opts' \in Options /\ req' \in Request /\ requests' \in 1 .. MaxRequests /\ attempt' \in 0 .. MaxRetries
    BY FirstRequestType DEF Build, TypeOK
  <2>2. pc' \in {"sending", "over"} /\ result' \in {"none", "data", "error"}
    BY DEF Build, End, TypeOK
  <2>3. QED
    BY <2>1, <2>2 DEF Build, TypeOK
<1>2. Trail' /\ AwayScoped' /\ TokenStaysHome' /\ BodyWhole'
  BY OriginEquality, FirstRequestType
     DEF Build, End, TypeOK, Trail, Away, AwayScoped, TokenStaysHome, BodyWhole
<1>3. Closed' /\ Flagged' /\ NoPageAsData'
  BY DEF Build, End, Closed, Flagged, NoPageAsData
<1>4. Acting'
  BY DEF Build, End, Acting, Before, TypeOK
<1>5. Counting'
  <2>1. Quota \in Nat /\ MaxSends = Quota + Quota
    BY RoundCount
  <2>2. Earlier' = IF refreshed THEN Quota ELSE 0
    BY <2>1, RoundCount DEF Build, Earlier, Round
  <2>3. QED
    BY <2>1, <2>2 DEF Build, End, Counting, TypeOK
<1>6. QED
  BY <1>1, <1>2, <1>3, <1>4, <1>5

-----------------------------------------------------------------------------
(* An attempt *)

\* What an attempt that reaches its service changes.
LEMMA SentMoves ==
    ASSUME IInv, Sent, pc = "sending", opts.access => SameOrigin(Home, req.origin)
    PROVE  /\ req' \in Request /\ left' \in BOOLEAN
           /\ req'.origin = req.origin /\ req'.method = req.method /\ req'.headers = req.headers
           /\ req'.body = "none" <=> req.body = "none"
           /\ granted' \subseteq {Home}
           /\ sends' \in 0 .. MaxSends + 1 /\ sends' <= sends + 1
           /\ left' => left \/ ~SameOrigin(Home, req.origin)
<1> USE DEF IInv
<1>1. req \in Request /\ req.origin \in Origin
  BY DEF TypeOK, Request
<1>2. req' \in Request /\ req'.origin = req.origin /\ req'.method = req.method /\ req'.headers = req.headers
      /\ (req'.body = "none" <=> req.body = "none")
  BY <1>1 DEF Sent, Request
<1>3. granted' \subseteq {Home}
  BY <1>1, OriginEquality DEF Sent, TokenStaysHome
<1>4. sends' \in 0 .. MaxSends + 1 /\ sends' <= sends + 1
  <2>1. sends \in Nat /\ sends <= MaxSends + 1
    BY SendsType DEF TypeOK
  <2>2. QED
    BY <2>1, SendsType, CountType DEF Sent
<1>5. left' \in BOOLEAN
  <2>1. SameOrigin(Home, req.origin) \in BOOLEAN
    BY DEF SameOrigin
  <2>2. (~SameOrigin(Home, req.origin)) \in BOOLEAN
    BY <2>1
  <2>3. QED
    BY <2>2 DEF Sent, TypeOK
<1>6. QED
  BY <1>2, <1>3, <1>4, <1>5 DEF Sent

LEMMA AnsweredStep == ASSUME IInv, Answered PROVE IInv'
<1> USE DEF IInv
<1>1. pc = "sending" /\ Sent /\ (opts.access => SameOrigin(Home, req.origin))
  BY DEF Answered
<1>2. PICK r \in Response :
        /\ resp' = r
        /\ effects' = IF req.method = "POST" /\ r.status \in Acted THEN Count(effects, 2) ELSE effects
        /\ \/ End("error") /\ UNCHANGED open
           \/ pc' = "answered" /\ open' = open + 1 /\ UNCHANGED result
  BY DEF Answered
<1>3. /\ req' \in Request /\ left' \in BOOLEAN
      /\ req'.origin = req.origin /\ req'.method = req.method /\ req'.headers = req.headers
      /\ req'.body = "none" <=> req.body = "none"
      /\ granted' \subseteq {Home}
      /\ sends' \in 0 .. MaxSends + 1 /\ sends' <= sends + 1
      /\ left' => left \/ ~SameOrigin(Home, req.origin)
  BY <1>1, SentMoves
<1>4. UNCHANGED <<opts, requests, via, attempt, redirected, refreshed, again>>
  BY DEF Answered
<1>5. open = 0 /\ result = "none"
  BY <1>1 DEF Closed, Flagged, TypeOK
<1>6. effects' \in 0 .. 3 /\ effects' <= effects + 1
  <2>1. effects \in Nat /\ effects <= 2 + 1
    BY DEF TypeOK
  <2>2. Count(effects, 2) \in 0 .. 3 /\ Count(effects, 2) <= effects + 1
    BY <2>1 DEF Count
  <2>3. QED
    BY <1>2, <2>1, <2>2
<1>7. TypeOK'
  <2>1. pc' \in {"answered", "over"} /\ result' \in {"none", "error"} /\ open' \in 0 .. 1
    BY <1>2, <1>5 DEF End
  <2>2. opts' \in Options /\ requests' \in 1 .. MaxRequests /\ via' \subseteq Origin /\ attempt' \in 0 .. MaxRetries
        /\ redirected' \in BOOLEAN /\ refreshed' \in BOOLEAN /\ again' \in BOOLEAN
    BY <1>4 DEF TypeOK
  <2>3. resp' \in Response /\ granted' \subseteq Origin
    BY <1>2, <1>3
  <2>4. QED
    BY <1>3, <1>6, <2>1, <2>2, <2>3 DEF TypeOK
<1>8. Trail' /\ AwayScoped' /\ TokenStaysHome'
  BY <1>3, <1>4 DEF Trail, Away, AwayScoped, TokenStaysHome
<1>9. BodyWhole' /\ Closed' /\ Flagged' /\ NoPageAsData'
  BY <1>2, <1>4, <1>5 DEF End, BodyWhole, Closed, Flagged, NoPageAsData
<1>10. Acting'
  <2>1. req'.method \in {"GET", "POST"}
    BY <1>3 DEF Request
  <2>2. effects \in Nat /\ effects' \in Nat
    BY <1>6 DEF TypeOK
  <2>3. QED
    BY <1>1, <1>2, <1>3, <1>4, <1>6, <2>1, <2>2 DEF End, Acting, Before
<1>11. Counting'
  <2>1. sends \in Nat /\ sends' \in Nat /\ Earlier' = Earlier
    BY <1>3, <1>4 DEF TypeOK, Earlier
  <2>2. attempt \in 0 .. MaxRetries /\ Earlier \in Nat /\ Earlier + Round <= MaxSends
    BY EarlierCount DEF TypeOK
  <2>3. Earlier + attempt + 1 <= MaxSends
    BY <2>2, SendsType DEF Round
  <2>4. sends' <= Earlier' + attempt' + 1
    BY <1>1, <1>3, <1>4, <2>1, <2>2 DEF Counting
  <2>5. pc' \in {"answered", "over"}
    BY <1>2 DEF End
  <2>6. sends' <= MaxSends
    BY <2>1, <2>2, <2>3, <2>4, <1>4, SendsType
  <2>7. QED
    BY <2>4, <2>5, <2>6 DEF Counting
<1>12. QED
  BY <1>7, <1>8, <1>9, <1>10, <1>11

LEMMA UnansweredStep == ASSUME IInv, Unanswered PROVE IInv'
<1> USE DEF IInv
<1>1. pc = "sending" /\ pc' = "over" /\ result' = "error"
      /\ UNCHANGED <<opts, requests, via, attempt, redirected, resp, refreshed, open, again>>
  BY DEF Unanswered, End
<1>2. /\ req' \in Request /\ left' \in BOOLEAN
      /\ req'.origin = req.origin /\ req'.method = req.method /\ req'.headers = req.headers
      /\ req'.body = "none" <=> req.body = "none"
      /\ granted' \subseteq {Home}
      /\ sends' \in 0 .. MaxSends + 1 /\ sends' <= sends + 1
      /\ left' => left \/ ~SameOrigin(Home, req.origin)
  <2>1. CASE UNCHANGED <<req, left, granted, sends, effects>>
    BY <2>1 DEF TypeOK, TokenStaysHome
  <2>2. CASE Sent /\ (opts.access => SameOrigin(Home, req.origin))
    BY <1>1, <2>2, SentMoves
  <2>3. QED
    BY <2>1, <2>2 DEF Unanswered
<1>3. effects' \in 0 .. 3 /\ effects' <= effects + 1 /\ (req.method # "POST" => effects' = effects)
  <2>1. effects \in Nat /\ effects <= 2 + 1
    BY DEF TypeOK
  <2>2. Count(effects, 2) \in 0 .. 3 /\ Count(effects, 2) <= effects + 1
    BY <2>1 DEF Count
  <2>3. effects' = effects \/ (req.method = "POST" /\ effects' = Count(effects, 2))
    BY DEF Unanswered
  <2>4. QED
    BY <2>1, <2>2, <2>3
<1>4. TypeOK'
  BY <1>1, <1>2, <1>3 DEF TypeOK
<1>5. Trail' /\ AwayScoped' /\ TokenStaysHome'
  BY <1>1, <1>2 DEF Trail, Away, AwayScoped, TokenStaysHome
<1>6. BodyWhole' /\ Closed' /\ Flagged' /\ NoPageAsData'
  BY <1>1 DEF BodyWhole, Closed, Flagged, NoPageAsData
<1>7. Acting'
  <2>1. effects \in Nat /\ effects' \in Nat
    BY <1>3 DEF TypeOK
  <2>2. QED
    BY <1>1, <1>3, <2>1 DEF Acting, Before
<1>8. Counting'
  <2>1. sends \in Nat /\ sends' \in Nat
    BY <1>2 DEF TypeOK
  <2>2. attempt \in 0 .. MaxRetries /\ Earlier \in Nat /\ Earlier + Round <= MaxSends
    BY EarlierCount DEF TypeOK
  <2>3. sends' <= Earlier + attempt + 1
    BY <1>1, <1>2, <2>1, <2>2 DEF Counting
  <2>4. sends' <= MaxSends
    BY <2>1, <2>2, <2>3, SendsType DEF Round
  <2>5. QED
    BY <1>1, <2>4 DEF Counting
<1>9. QED
  BY <1>4, <1>5, <1>6, <1>7, <1>8

-----------------------------------------------------------------------------
(* Retries *)

LEMMA RetryStep == ASSUME IInv, Retry PROVE IInv'
<1> USE DEF IInv
<1>1. pc = "answered" /\ open = 1 /\ result = "none"
      /\ UNCHANGED <<opts, chain, resp, refreshed, result, history>>
  BY DEF Retry, Closed, Flagged, TypeOK
<1>2. \/ Retryable /\ attempt < Retries /\ pc' = "waiting" /\ open' = 0
      \/ pc' = "returned" /\ open' = 1
  BY <1>1 DEF Retry
<1>3. UNCHANGED <<opts, req, requests, via, attempt, redirected, resp, refreshed, result,
                  left, granted, sends, effects, again>>
  BY <1>1 DEF chain, history
<1>4. TypeOK'
  <2>1. pc' \in {"waiting", "returned"} /\ open' \in 0 .. 1
    BY <1>2
  <2>2. QED
    BY <1>3, <2>1 DEF TypeOK
<1>5. Trail' /\ AwayScoped' /\ TokenStaysHome' /\ BodyWhole'
  BY <1>2, <1>3 DEF Trail, Away, AwayScoped, TokenStaysHome, BodyWhole
<1>6. Closed' /\ Flagged' /\ NoPageAsData'
  BY <1>1, <1>2, <1>3 DEF Closed, Flagged, NoPageAsData
<1>7. Acting'
  <2>1. Retryable /\ opts.retry = "default" => req.method = "GET"
    BY DEF Retryable
  <2>2. QED
    BY <1>1, <1>2, <1>3, <2>1 DEF Acting, Before
<1>8. Counting'
  <2>1. Earlier' = Earlier
    BY <1>3 DEF Earlier
  <2>2. attempt < Retries => attempt < MaxRetries
    BY DEF Retries, TypeOK
  <2>3. QED
    BY <1>1, <1>2, <1>3, <2>1, <2>2 DEF Counting
<1>9. QED
  BY <1>4, <1>5, <1>6, <1>7, <1>8

LEMMA BackoffStep == ASSUME IInv, Backoff PROVE IInv'
<1> USE DEF IInv
<1>1. pc = "waiting" /\ open = 0 /\ result = "none"
      /\ UNCHANGED <<opts, requests, via, redirected, resp, refreshed, open, history>>
  BY DEF Backoff, Closed, Flagged, TypeOK
<1>2. UNCHANGED <<left, granted, sends, effects, again>>
  BY <1>1 DEF history
<1>3. \/ pc' = "over" /\ result' = "error" /\ UNCHANGED <<req, attempt>>
      \/ /\ pc' = "sending" /\ attempt' = attempt + 1 /\ result' = "none"
         /\ req' = [req EXCEPT !.body = IF @ = "spent" THEN "full" ELSE @]
  BY <1>1 DEF Backoff, End
<1>4. /\ req' \in Request /\ req'.origin = req.origin /\ req'.method = req.method
      /\ req'.headers = req.headers /\ (req'.body = "none" <=> req.body = "none")
      /\ pc' = "sending" => req'.body # "spent"
  BY <1>3 DEF Request, TypeOK
<1>5. TypeOK'
  <2>1. pc' \in {"sending", "over"} /\ result' \in {"none", "error"}
    BY <1>3
  <2>2. attempt' \in 0 .. MaxRetries
    BY <1>1, <1>3 DEF TypeOK, Counting
  <2>3. QED
    BY <1>1, <1>2, <1>4, <2>1, <2>2 DEF TypeOK
<1>6. Trail' /\ AwayScoped' /\ TokenStaysHome'
  BY <1>1, <1>2, <1>4 DEF Trail, Away, AwayScoped, TokenStaysHome
<1>7. BodyWhole' /\ Closed' /\ Flagged' /\ NoPageAsData'
  BY <1>1, <1>3, <1>4 DEF BodyWhole, Closed, Flagged, NoPageAsData
<1>8. Acting'
  BY <1>1, <1>2, <1>3, <1>4 DEF Acting, Before
<1>9. Counting'
  <2>1. Earlier' = Earlier /\ Earlier \in Nat
    BY <1>1, EarlierCount DEF Earlier, TypeOK
  <2>2. attempt \in Nat /\ sends \in Nat
    BY DEF TypeOK
  <2>3. QED
    BY <1>1, <1>2, <1>3, <2>1, <2>2 DEF Counting
<1>10. QED
  BY <1>5, <1>6, <1>7, <1>8, <1>9

-----------------------------------------------------------------------------
(* Redirects *)

\* What the redirect policy leaves of a request Client.Do makes.
LEMMA ScopedRequest ==
    ASSUME opts \in Options, req \in Request, resp \in Response, Redirects, NEW next \in NextRequests
    PROVE  /\ Scoped(next) \in Request
           /\ Scoped(next).origin = resp.location /\ resp.location \in Origin
           /\ Scoped(next).method \in {req.method, "GET"}
           /\ resp.status # 307 => Scoped(next).method = "GET"
           /\ Scoped(next).body \in {"none", "full"}
           /\ Crossed(resp.location) =>
                /\ Scoped(next).headers \subseteq {"Accept", "Content-Type"}
                /\ "Content-Type" \in Scoped(next).headers =>
                     Scoped(next).body # "none" /\ Scoped(next).method = opts.method
<1>1. resp.location \in Origin
  BY ResponseShape DEF Redirects
<1>2. PICK h \in SUBSET (FirstRequest(opts).headers \cup {"Referer"}) :
        next = [origin |-> resp.location,
                method |-> IF resp.status = 307 THEN req.method ELSE "GET",
                headers |-> h \cup {"Accept"},
                body |-> IF resp.status = 307 /\ req.body # "none" THEN "full" ELSE "none"]
  BY DEF NextRequests
<1>3. h \cup {"Accept"} \subseteq Headers
  BY FirstRequestType DEF Headers
<1>4. /\ next \in Request /\ next.origin = resp.location /\ next.method \in {req.method, "GET"}
      /\ resp.status # 307 => next.method = "GET"
      /\ next.body \in {"none", "full"} /\ next.headers \subseteq Headers
  BY <1>1, <1>2, <1>3 DEF Request
<1> DEFINE replayed == next.body # "none" /\ next.method = opts.method
           some == {x \in next.headers : HeaderAllowed(x, replayed)}
<1>5. CASE Crossed(next.origin)
  <2>1. Scoped(next) = [next EXCEPT !.headers = some]
    BY <1>5 DEF Scoped
  <2>2. some \subseteq Headers /\ some \subseteq {"Accept", "Content-Type"}
        /\ ("Content-Type" \in some => replayed)
    BY <1>4 DEF HeaderAllowed
  <2> HIDE DEF some
  <2>3. /\ Scoped(next) \in Request /\ Scoped(next).headers = some
        /\ Scoped(next).origin = next.origin /\ Scoped(next).method = next.method
        /\ Scoped(next).body = next.body
    BY <1>4, <2>1, <2>2 DEF Request
  <2>4. QED
    BY <1>1, <1>4, <2>2, <2>3
<1>6. CASE ~Crossed(next.origin)
  BY <1>1, <1>4, <1>6 DEF Scoped
<1>7. QED
  BY <1>5, <1>6

LEMMA RedirectStep == ASSUME IInv, Redirect PROVE IInv'
<1> USE DEF IInv
<1>1. PICK next \in NextRequests : req' = Scoped(next)
  BY DEF Redirect
<1>2. /\ pc = "returned" /\ Redirects /\ requests < MaxRequests
      /\ redirected' = (redirected \/ opts.guard)
      /\ requests' = requests + 1 /\ via' = via \cup {resp.location} /\ attempt' = 0
      /\ open' = open - 1 /\ pc' = "sending"
      /\ UNCHANGED <<opts, resp, refreshed, result, left, granted, sends, effects, again>>
  BY DEF Redirect, Limit, RedirectedTo, history, TypeOK
<1>3. open = 1 /\ result = "none"
  BY <1>2 DEF Closed, Flagged, TypeOK
<1>4. /\ req' \in Request /\ req'.origin = resp.location /\ resp.location \in Origin
      /\ req'.method \in {req.method, "GET"} /\ (resp.status # 307 => req'.method = "GET")
      /\ req'.body \in {"none", "full"}
      /\ Crossed(resp.location) =>
           /\ req'.headers \subseteq {"Accept", "Content-Type"}
           /\ "Content-Type" \in req'.headers => req'.body # "none" /\ req'.method = opts.method
  BY <1>1, <1>2, ScopedRequest DEF TypeOK
<1>5. Away' <=> Crossed(resp.location)
  BY <1>2 DEF Away, Crossed
<1>6. TypeOK'
  <2>1. requests' \in 1 .. MaxRequests /\ attempt' \in 0 .. MaxRetries /\ open' \in 0 .. 1
    BY <1>2, <1>3 DEF TypeOK
  <2>2. redirected' \in BOOLEAN
    BY <1>2 DEF TypeOK, Options
  <2>3. via' \subseteq Origin
    BY <1>2, <1>4 DEF TypeOK
  <2>4. QED
    BY <1>2, <1>4, <2>1, <2>2, <2>3 DEF TypeOK
<1>7. Trail' /\ AwayScoped' /\ TokenStaysHome' /\ BodyWhole'
  <2>1. left => Crossed(resp.location)
    BY DEF Trail, Away, Crossed
  <2>2. QED
    BY <1>2, <1>4, <1>5, <2>1 DEF Trail, AwayScoped, TokenStaysHome, BodyWhole, Crossed
<1>8. Closed' /\ Flagged' /\ NoPageAsData'
  <2>1. opts.guard => redirected'
    BY <1>2
  <2>2. QED
    BY <1>2, <1>3, <2>1 DEF Closed, Flagged, NoPageAsData
<1>9. Acting'
  <2>1. req'.method = "POST" => req.method = "POST" /\ resp.status = 307
    BY <1>4
  <2>2. 307 \notin Acted
    BY DEF Acted
  <2>3. QED
    BY <1>2, <2>1, <2>2 DEF Acting, Before
<1>10. Counting'
  <2>1. Earlier' = Earlier + Round
    <3>1. Earlier' = (IF refreshed THEN Quota ELSE 0) + requests * Round
      BY <1>2 DEF Earlier, TypeOK
    <3>2. QED
      BY <3>1, EarlierCount DEF TypeOK
  <2>2. Earlier \in Nat /\ attempt \in 0 .. MaxRetries /\ sends \in Nat
    BY EarlierCount DEF TypeOK
  <2>3. sends <= Earlier + Round
    BY <1>2, <2>2 DEF Counting, Round
  <2>4. QED
    BY <1>2, <2>1, <2>2, <2>3 DEF Counting, Round
<1>11. QED
  BY <1>6, <1>7, <1>8, <1>9, <1>10

\* A redirect that is refused, and an answer that is none.
LEMMA DoEndsStep == ASSUME IInv, RedirectRefused \/ DoReturns PROVE IInv'
<1> USE DEF IInv
<1>1. /\ pc = "returned"
      /\ UNCHANGED <<opts, req, requests, via, attempt, redirected, resp, refreshed,
                     left, granted, sends, effects, again>>
  BY DEF RedirectRefused, DoReturns, chain, history
<1>2. \/ pc' = "over" /\ result' = "error" /\ open' = open - 1
      \/ pc' = "received" /\ UNCHANGED <<result, open>>
  BY DEF RedirectRefused, DoReturns, End
<1>3. open = 1 /\ result = "none"
  BY <1>1 DEF Closed, Flagged, TypeOK
<1>4. TypeOK'
  <2>1. pc' \in {"over", "received"} /\ result' \in {"none", "error"} /\ open' \in 0 .. 1
    BY <1>2, <1>3
  <2>2. QED
    BY <1>1, <2>1 DEF TypeOK
<1>5. Trail' /\ AwayScoped' /\ TokenStaysHome' /\ BodyWhole'
  BY <1>1, <1>2 DEF Trail, Away, AwayScoped, TokenStaysHome, BodyWhole
<1>6. Closed' /\ Flagged' /\ NoPageAsData'
  BY <1>1, <1>2, <1>3 DEF Closed, Flagged, NoPageAsData
<1>7. Acting'
  BY <1>1, <1>2 DEF Acting, Before
<1>8. Counting'
  <2>1. Earlier' = Earlier
    BY <1>1 DEF Earlier
  <2>2. QED
    BY <1>1, <1>2, <2>1 DEF Counting
<1>9. QED
  BY <1>4, <1>5, <1>6, <1>7, <1>8

-----------------------------------------------------------------------------
(* The end of a chain *)

LEMMA ReceiveStep == ASSUME IInv, Receive PROVE IInv'
<1> USE DEF IInv
<1>1. /\ pc = "received" /\ open' = open - 1
      /\ UNCHANGED <<opts, req, requests, via, attempt, redirected, resp, refreshed,
                     left, granted, sends, effects>>
  BY DEF Receive, chain
<1>2. open = 1 /\ result = "none"
  BY <1>1 DEF Closed, Flagged, TypeOK
<1>3. \/ pc' = "over" /\ result' = "error" /\ UNCHANGED again
      \/ pc' = "over" /\ result' = "data" /\ UNCHANGED again /\ ~HTMLPage
      \/ /\ pc' = "refreshing" /\ result' = "none" /\ resp.status = 401 /\ ~refreshed
         /\ again' = (req.method # opts.method)
  BY <1>2 DEF Receive, End
<1>4. TypeOK'
  <2>1. pc' \in {"over", "refreshing"} /\ result' \in {"none", "error", "data"} /\ open' \in 0 .. 1
    BY <1>1, <1>2, <1>3
  <2>2. again' \in BOOLEAN
    <3>1. (req.method # opts.method) \in BOOLEAN
      OBVIOUS
    <3>2. QED
      BY <1>3, <3>1 DEF TypeOK
  <2>3. QED
    BY <1>1, <2>1, <2>2 DEF TypeOK
<1>5. Trail' /\ AwayScoped' /\ TokenStaysHome' /\ BodyWhole'
  BY <1>1, <1>3 DEF Trail, Away, AwayScoped, TokenStaysHome, BodyWhole
<1>6. Closed' /\ Flagged'
  BY <1>1, <1>2, <1>3 DEF Closed, Flagged
<1>7. NoPageAsData'
  <2>1. result' = "data" /\ opts.guard /\ requests > 1 => ~resp.html
    BY <1>3 DEF HTMLPage, Flagged
  <2>2. QED
    BY <1>1, <2>1 DEF NoPageAsData
<1>8. Acting'
  <2>1. req.method \in {"GET", "POST"} /\ effects \in Nat /\ 401 \notin Acted
    BY DEF TypeOK, Request, Acted
  <2>2. CASE pc' = "over"
    BY <1>1, <1>3, <2>2 DEF Acting, Before
  <2>3. CASE pc' = "refreshing"
    <3>1. resp.status = 401 /\ ~again /\ again' = (req.method # opts.method)
      BY <1>1, <1>3, <2>3 DEF Acting
    <3>2. CASE req.method = opts.method
      <4>1. again' = FALSE
        BY <3>1, <3>2
      <4>2. QED
        BY <1>1, <2>1, <2>3, <3>1, <3>2, <4>1 DEF Acting, Before
    <3>3. CASE req.method # opts.method
      <4>1. again' = TRUE
        BY <3>1, <3>3
      <4>2. QED
        BY <1>1, <2>1, <2>3, <3>1, <4>1 DEF Acting, Before
    <3>4. QED
      BY <3>2, <3>3
  <2>4. QED
    BY <1>3, <2>2, <2>3
<1>9. Counting'
  <2>1. sends \in Nat /\ attempt \in 0 .. MaxRetries /\ Earlier \in Nat
    BY EarlierCount DEF TypeOK
  <2>2. ~refreshed => Earlier + Round <= Quota
    <3>1. requests \in 1 .. MaxRequests
      BY DEF TypeOK
    <3>2. PICK u \in Nat : u = (requests - 1) * Round /\ u + Round <= Quota
      BY <3>1, RoundCount
    <3>3. QED
      BY <3>2 DEF Earlier
  <2>3. sends <= Earlier + Round
    BY <1>1, <2>1 DEF Counting, Round
  <2>4. Quota \in Nat
    BY RoundCount
  <2>5. QED
    BY <1>1, <1>3, <2>1, <2>2, <2>3, <2>4 DEF Counting, Round
<1>10. QED
  BY <1>4, <1>5, <1>6, <1>7, <1>8, <1>9

LEMMA RefreshStep == ASSUME IInv, Refresh PROVE IInv'
<1> USE DEF IInv
<1>1. /\ pc = "refreshing"
      /\ UNCHANGED <<opts, req, requests, via, attempt, redirected, resp, open,
                     left, granted, sends, effects, again>>
      /\ \/ pc' = "over" /\ result' = "error" /\ UNCHANGED refreshed
         \/ pc' = "building" /\ result' = result /\ refreshed' = TRUE
  BY DEF Refresh, End, chain, history
<1>2. open = 0 /\ result = "none"
  BY <1>1 DEF Closed, Flagged, TypeOK
<1>3. TypeOK'
  <2>1. pc' \in {"over", "building"} /\ result' \in {"none", "error"} /\ refreshed' \in BOOLEAN
    BY <1>1, <1>2 DEF TypeOK
  <2>2. QED
    BY <1>1, <2>1 DEF TypeOK
<1>4. Trail' /\ AwayScoped' /\ TokenStaysHome' /\ BodyWhole'
  BY <1>1 DEF Trail, Away, AwayScoped, TokenStaysHome, BodyWhole
<1>5. Closed' /\ Flagged' /\ NoPageAsData'
  BY <1>1, <1>2 DEF Closed, Flagged, NoPageAsData
<1>6. Acting'
  BY <1>1 DEF Acting, Before
<1>7. Counting'
  BY <1>1 DEF Counting
<1>8. QED
  BY <1>3, <1>4, <1>5, <1>6, <1>7

LEMMA NextIInv == IInv /\ [Next]_vars => IInv'
<1> SUFFICES ASSUME IInv, [Next]_vars PROVE IInv'
  OBVIOUS
<1>1. CASE Next
  BY <1>1, BuildStep, AnsweredStep, UnansweredStep, RetryStep, BackoffStep, RedirectStep, DoEndsStep,
     ReceiveStep, RefreshStep DEF Next
<1>2. CASE UNCHANGED vars
  <2>1. TypeOK'
    BY <1>2 DEF IInv, vars, chain, history, TypeOK
  <2>2. QED
    BY <1>2, <2>1 DEF IInv, vars, chain, history, Trail, Away, AwayScoped, TokenStaysHome, BodyWhole,
       Closed, Flagged, NoPageAsData, Acting, Before, Counting, Earlier
<1>3. QED
  BY <1>1, <1>2

LEMMA SpecIInv == Spec => []IInv
<1>1. Init => IInv
  BY InitIInv
<1>2. IInv /\ [Next]_vars => IInv'
  BY NextIInv
<1>3. QED
  BY <1>1, <1>2, PTL DEF Spec

-----------------------------------------------------------------------------
(* What a user of the module relies on *)

\* A chain has at most MaxRequests requests with at most MaxRetries retries each, and
\* one response body at most is open.
THEOREM TypeCorrect == Spec => []TypeOK
<1>1. IInv => TypeOK
  BY DEF IInv
<1>2. QED
  BY <1>1, SpecIInv, PTL

\* Credentials and the Referer stay behind once a redirect chain has left the origin of
\* the request, however it goes on (redirectPolicy).
THEOREM CredentialsStay == Spec => []HeadersScoped
<1>1. IInv => HeadersScoped
  BY DEF IInv, Trail, AwayScoped, HeadersScoped
<1>2. QED
  BY <1>1, SpecIInv, PTL

\* The Access token reaches no other origin, by redirects, retries or the resend.
THEOREM AccessTokenStays == Spec => []TokenStaysHome
<1>1. IInv => TokenStaysHome
  BY DEF IInv
<1>2. QED
  BY <1>1, SpecIInv, PTL

\* Every attempt of every request of a chain has its whole body.
THEOREM BodiesSent == Spec => []BodyWhole
<1>1. IInv => BodyWhole
  BY DEF IInv
<1>2. QED
  BY <1>1, SpecIInv, PTL

\* Under the default retry policy a service acts on an unsafe request once, but for
\* the resend after a redirect to a page that asks for credentials.
THEOREM UnsafeOnce == Spec => []ActedOnce
<1>1. IInv => ActedOnce
  BY DEF IInv, TypeOK, Acting, Before, ActedOnce
<1>2. QED
  BY <1>1, SpecIInv, PTL

\* No path through retries, redirects, errors and the resend leaves a body open.
THEOREM BodiesClosed == Spec => []ResponsesClosed
<1>1. IInv => ResponsesClosed
  BY DEF IInv, Closed, ResponsesClosed
<1>2. QED
  BY <1>1, SpecIInv, PTL

\* A page reached by a redirect is not taken for data.
THEOREM PagesRefused == Spec => []NoPageAsData
<1>1. IInv => NoPageAsData
  BY DEF IInv
<1>2. QED
  BY <1>1, SpecIInv, PTL

\* Whatever services answer, a call makes at most two chains of MaxRequests requests
\* with MaxRetries retries each.
THEOREM AttemptsEnd == Spec => []AttemptsBounded
<1>1. IInv => AttemptsBounded
  BY DEF IInv, Counting, AttemptsBounded
<1>2. QED
  BY <1>1, SpecIInv, PTL
=============================================================================
