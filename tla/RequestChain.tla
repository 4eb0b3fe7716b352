---------------------------- MODULE RequestChain ----------------------------
(***************************************************************************)
(* One API request of the runtime (pkg/runtime: client.go, retry.go,       *)
(* redirect.go, the checks of cloudflare_access.go): it is sent, repeated  *)
(* while the service is busy, redirected, and after a 401 sent once more   *)
(* from the start with refreshed credentials.  The service may answer      *)
(* anything at any time.  net/http's Client.Do, which turns a redirect     *)
(* into a request and asks the redirect policy, is external.               *)
(***************************************************************************)
EXTENDS Integers

CONSTANTS
    Hosts, Ports,   \* hostnames, and schemes with their effective ports
    PlainPorts,     \* the ports of http
    Home,           \* the origin the request is made for
    LoginHost,      \* a host of *.cloudflareaccess.com
    NoLocation,     \* an answer without a Location
    MaxRequests,    \* requests of a redirect chain: 10 in the code
    MaxRetries      \* retries of a request: 3 unless ClientOptions says otherwise

Origin == [host : Hosts, port : Ports]

ASSUME RequestChainAssumption ==
    /\ Home \in Origin /\ NoLocation \notin Origin
    /\ MaxRequests \in Nat \ {0} /\ MaxRetries \in Nat

VARIABLES
    opts,       \* the request and its ClientOptions
    pc,         \* where doRawFullConsume is
    req,        \* the http.Request at hand
    requests,   \* requests of the chain (len(via) of the next redirect)
    via,        \* origins of those requests
    attempt,    \* retryTransport's attempt
    resp,       \* the answer at hand
    redirected, \* doRawFullOnce's flag
    refreshed,  \* RefreshAuth has been used up
    result,     \* how the call ended
    open,       \* history: response bodies that are not closed
    left,       \* history: the chain has sent a request to another origin
    granted,    \* history: origins that received the Access token
    sends,      \* history: attempts that reached a service
    effects,    \* history: how often a service took the unsafe request
    again       \* history: a 401 came after the unsafe request had become a GET

chain == <<req, requests, via, attempt, redirected>>
history == <<left, granted, sends, effects, again>>
vars == <<opts, pc, chain, resp, refreshed, result, open, history>>

\* Credential and Referer stand for all that redirectHeaderAllowed does not list,
\* Accept for the others it lists.
Headers == {"Credential", "Referer", "Accept", "Content-Type"}

Options == [method : {"GET", "POST"}, body : BOOLEAN,
            retry : {"default", "every", "never"}, \* MaxRetries zero, positive, negative
            access : BOOLEAN,   \* Cloudflare Access is enabled
            polling : BOOLEAN,  \* PollUntilDone's checkRedirect
            guard : BOOLEAN,    \* htmlResponseGuard
            refresh : BOOLEAN]  \* RefreshAuth is set

Request == [origin : Origin, method : {"GET", "POST"}, headers : SUBSET Headers,
            body : {"none", "full", "spent"}]

\* 302 stands for 301 and 303 too, 307 for 308, 503 for every status that is worth a
\* retry, 404 for every other error.
Response ==
    [status : {302, 307}, location : Origin \cup {NoLocation}, html : {FALSE}]
    \cup [status : {200}, location : {NoLocation}, html : BOOLEAN]
    \cup [status : {401, 404, 503}, location : {NoLocation}, html : {FALSE}]

\* Attempts of a call: two chains of MaxRequests requests with their retries.
MaxSends == 2 * MaxRequests * (MaxRetries + 1)

TypeOK ==
    /\ opts \in Options
    /\ pc \in {"building", "sending", "answered", "waiting", "returned", "received", "refreshing", "over"}
    /\ req \in Request
    /\ requests \in 1 .. MaxRequests
    /\ via \subseteq Origin
    /\ attempt \in 0 .. MaxRetries
    /\ resp \in Response
    /\ redirected \in BOOLEAN /\ refreshed \in BOOLEAN
    /\ result \in {"none", "data", "error"}
    /\ open \in 0 .. 1
    /\ left \in BOOLEAN /\ again \in BOOLEAN
    /\ granted \subseteq Origin
    /\ sends \in 0 .. MaxSends + 1 /\ effects \in 0 .. 3

-----------------------------------------------------------------------------
(* newRequest *)

FirstRequest(o) ==
    [origin |-> Home, method |-> o.method,
     headers |-> {"Credential", "Accept"} \cup (IF o.body THEN {"Content-Type"} ELSE {}),
     body |-> IF o.body THEN "full" ELSE "none"]

Init ==
    /\ opts \in {o \in Options : /\ o.polling => o.method = "GET" /\ ~o.body
                               /\ o.access => Home.port \notin PlainPorts}
    /\ pc = "building"
    /\ req = FirstRequest(opts)
    /\ requests = 1 /\ via = {} /\ attempt = 0
    /\ resp = [status |-> 404, location |-> NoLocation, html |-> FALSE]
    /\ redirected = FALSE /\ refreshed = FALSE /\ result = "none"
    /\ open = 0 /\ left = FALSE /\ granted = {} /\ sends = 0 /\ effects = 0 /\ again = FALSE

End(r) == pc' = "over" /\ result' = r

Build ==
    /\ pc = "building"
    /\ req' = FirstRequest(opts) /\ requests' = 1 /\ via' = {} /\ attempt' = 0 /\ redirected' = FALSE
    /\ left' = FALSE
    /\ \/ pc' = "sending" /\ UNCHANGED result
       \/ End("error")  \* no valid URL, or no valid credentials
    /\ UNCHANGED <<opts, resp, refreshed, open, granted, sends, effects, again>>

-----------------------------------------------------------------------------
(* accessTransport *)

\* Scheme, hostname and effective port agree (sameOrigin, accessOrigin).
SameOrigin(a, b) == a.host = b.host /\ a.port = b.port

AccessLoginRedirect(r) == r.status = 302 /\ r.location # NoLocation /\ r.location.host = LoginHost

\* Answers a service takes the request with: it has, or may have, acted on it.
Acted == {200, 302, 404, 503}

\* History is counted to one past what a property allows.
Count(n, bound) == IF n > bound THEN n ELSE n + 1

\* An attempt reaches its service, or what answers for it.
Sent ==
    /\ sends' = Count(sends, MaxSends)
    /\ left' = (left \/ ~SameOrigin(Home, req.origin))
    /\ granted' = IF opts.access THEN granted \cup {req.origin} ELSE granted
    /\ req' = [req EXCEPT !.body = IF @ = "full" THEN "spent" ELSE @]

Answered ==
    /\ pc = "sending" /\ (opts.access => SameOrigin(Home, req.origin))
    /\ Sent
    /\ \E r \in Response :
         /\ resp' = r
         /\ effects' = IF req.method = "POST" /\ r.status \in Acted THEN Count(effects, 2) ELSE effects
         /\ \/ /\ opts.access /\ AccessLoginRedirect(r)
               /\ End("error") /\ UNCHANGED open
            \/ /\ ~(opts.access /\ AccessLoginRedirect(r))
               /\ pc' = "answered" /\ open' = open + 1 /\ UNCHANGED result
    /\ UNCHANGED <<opts, requests, via, attempt, redirected, refreshed, again>>

\* No answer: no token, no connection, a timeout or a cancellation.  The service may
\* have acted.
Unanswered ==
    /\ pc = "sending"
    /\ \/ UNCHANGED <<req, left, granted, sends, effects>>
       \/ /\ opts.access => SameOrigin(Home, req.origin)
          /\ Sent
          /\ effects' \in IF req.method = "POST" THEN {effects, Count(effects, 2)} ELSE {effects}
    /\ End("error")
    /\ UNCHANGED <<opts, requests, via, attempt, redirected, resp, refreshed, open, again>>

-----------------------------------------------------------------------------
(* retryTransport.RoundTrip *)

Retries == IF opts.retry = "never" THEN 0 ELSE MaxRetries

\* A retry that does not ask for the method.
AnyRetryable == opts.retry # "never" /\ resp.status = 503

Retryable ==
    /\ opts.retry # "never" /\ resp.status = 503
    /\ opts.retry = "default" => req.method = "GET"

Retry ==
    /\ pc = "answered"
    /\ \/ Retryable /\ attempt < Retries /\ pc' = "waiting" /\ open' = open - 1
       \/ ~(Retryable /\ attempt < Retries) /\ pc' = "returned" /\ UNCHANGED open
    /\ UNCHANGED <<opts, chain, resp, refreshed, result, history>>

\* Waiting without GetBody.
BackoffUnread ==
    /\ pc = "waiting"
    /\ \/ End("error") /\ UNCHANGED <<req, attempt>>
       \/ attempt' = attempt + 1 /\ pc' = "sending" /\ UNCHANGED <<req, result>>
    /\ UNCHANGED <<opts, requests, via, redirected, resp, refreshed, open, history>>

\* The wait before the next attempt, which reads the body anew, or a cancellation.
Backoff ==
    /\ pc = "waiting"
    /\ \/ End("error") /\ UNCHANGED <<req, attempt>>
       \/ /\ attempt' = attempt + 1
          /\ req' = [req EXCEPT !.body = IF @ = "spent" THEN "full" ELSE @]
          /\ pc' = "sending" /\ UNCHANGED result
    /\ UNCHANGED <<opts, requests, via, redirected, resp, refreshed, open, history>>

-----------------------------------------------------------------------------
(* Client.Do and redirectPolicy *)

Redirects == resp.status \in {302, 307} /\ resp.location # NoLocation

\* The requests Client.Do may make of a redirect: with headers of the first request,
\* of which it leaves off some, and with a Referer.  A 302 turns the method to GET and
\* drops the body for the rest of the chain.
NextRequests ==
    LET kept == resp.status = 307
        replays == kept /\ req.body # "none"
    IN {[origin |-> resp.location,
         method |-> IF kept THEN req.method ELSE "GET",
         headers |-> h \cup {"Accept"},
         body |-> IF replays THEN "full" ELSE "none"] :
            h \in SUBSET (FirstRequest(opts).headers \cup {"Referer"})}

Limit == requests >= MaxRequests

LoginAsked == ~opts.access /\ AccessLoginRedirect(resp)

\* PollUntilDone's own check.
CrossHostPolling(target) == opts.polling /\ ~SameOrigin(Home, target)

\* checkAccessRedirect, then the operation's own check.
Forbidden(target) ==
    \/ opts.access /\ ~SameOrigin(Home, target)
    \/ LoginAsked /\ req.origin.port \notin PlainPorts
    \/ CrossHostPolling(target)

\* The last redirect alone.
CrossedNow(target) == ~SameOrigin(Home, target)

Crossed(target) == ~SameOrigin(Home, target) \/ \E o \in via : ~SameOrigin(Home, o)

HeaderAllowed(h, replayed) == h = "Accept" \/ (h = "Content-Type" /\ replayed)

\* What the redirect policy leaves of next.
Scoped(next) ==
    LET replayed == next.body # "none" /\ next.method = opts.method
    IN IF Crossed(next.origin)
       THEN [next EXCEPT !.headers = {h \in @ : HeaderAllowed(h, replayed)}]
       ELSE next

RedirectedTo(target) == opts.guard

Redirect ==
    /\ pc = "returned" /\ Redirects
    /\ ~Limit /\ ~Forbidden(resp.location)
    /\ \E next \in NextRequests : req' = Scoped(next)
    /\ redirected' = (redirected \/ RedirectedTo(resp.location))
    /\ requests' = requests + 1 /\ via' = via \cup {resp.location} /\ attempt' = 0
    /\ open' = open - 1
    /\ pc' = "sending"
    /\ UNCHANGED <<opts, resp, refreshed, result, history>>

\* Client.Do closes the answer and fails.  The login of a CLI that cannot enable Access
\* is refused over http too.
RedirectRefused ==
    /\ pc = "returned" /\ Redirects
    /\ Limit \/ Forbidden(resp.location) \/ LoginAsked
    /\ End("error") /\ open' = open - 1
    /\ UNCHANGED <<opts, chain, resp, refreshed, history>>

DoReturns ==
    /\ pc = "returned" /\ ~Redirects
    /\ pc' = "received"
    /\ UNCHANGED <<opts, chain, resp, refreshed, result, open, history>>

-----------------------------------------------------------------------------
(* doRawFullOnce and doRawFullConsume *)

HTMLPage == opts.guard /\ redirected /\ resp.html

\* The answer is read and closed; reading it may fail.
Receive ==
    /\ pc = "received"
    /\ open' = open - 1
    /\ \/ End("error") /\ UNCHANGED again
       \/ resp.status = 200 /\ ~HTMLPage /\ End("data") /\ UNCHANGED again
       \/ /\ resp.status = 401 /\ opts.refresh /\ ~refreshed
          /\ pc' = "refreshing" /\ again' = (req.method # opts.method) /\ UNCHANGED result
    /\ UNCHANGED <<opts, chain, resp, refreshed, left, granted, sends, effects>>

\* RefreshAuth, after a refused one too.
RefreshKept ==
    /\ pc = "refreshing"
    /\ \/ End("error")
       \/ pc' = "building" /\ UNCHANGED result
    /\ UNCHANGED <<opts, chain, resp, refreshed, open, history>>

Refresh ==
    /\ pc = "refreshing"
    /\ \/ End("error") /\ UNCHANGED refreshed
       \/ refreshed' = TRUE /\ pc' = "building" /\ UNCHANGED result
    /\ UNCHANGED <<opts, chain, resp, open, history>>

Next ==
    \/ Build \/ Answered \/ Unanswered \/ Retry \/ Backoff
    \/ Redirect \/ RedirectRefused \/ DoReturns \/ Receive \/ Refresh

Spec == Init /\ [][Next]_vars

-----------------------------------------------------------------------------
(* Properties *)

\* Once a chain has been at another origin, no request of it, back at the first
\* origin too, carries credentials or a Referer, and a Content-Type only with the
\* body it describes.
HeadersScoped ==
    pc = "sending" /\ (left \/ ~SameOrigin(Home, req.origin)) =>
        /\ req.headers \subseteq {"Accept", "Content-Type"}
        /\ "Content-Type" \in req.headers => req.body # "none" /\ req.method = opts.method

\* The Access token goes to the origin it was issued for only.
TokenStaysHome == granted \subseteq {Home}

\* A retry or a redirect never sends a body that has been read already.
BodyWhole == pc = "sending" => req.body # "spent"

\* By default a service is made to act on an unsafe request once: retries, redirects
\* and the resend after a 401 do not repeat it.  The exception is a redirect to a page
\* that asks for credentials: the resend starts at the unsafe request again.
ActedOnce ==
    opts.method = "POST" /\ opts.retry = "default" => effects <= IF again THEN 2 ELSE 1

\* Every response body is closed by the end of the call, and before the next attempt.
ResponsesClosed == pc \in {"building", "sending", "waiting", "refreshing", "over"} => open = 0

\* An operation that expects JSON does not take a page that a redirect led to for
\* data.
NoPageAsData == result = "data" /\ opts.guard /\ requests > 1 => ~resp.html

\* The attempts of a call are bounded, whatever services answer.
AttemptsBounded == sends <= MaxSends
=============================================================================
