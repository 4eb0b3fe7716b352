------------------------------ MODULE DeviceLogin ------------------------------
(***************************************************************************)
(* "auth login" (internal/auth: login.go, oauth_device.go, validate.go): a *)
(* credential read from the user or granted by a device login, validated   *)
(* against the service and stored, beside a person who approves or denies  *)
(* the device at any time and a service that answers late, wrongly or not  *)
(* at all.  Time counts in units of five seconds, the default interval.    *)
(***************************************************************************)
EXTENDS Integers

CONSTANTS Invocations,      \* the command lines, each with the manifest it meets
          Starts,           \* the interval and lifetime a device code may come with
          Expiries,         \* the expires_in and context values a granted token may come with
          DefaultInterval, DefaultLifetime,  \* when the service names none
          SlowDown,         \* what slow_down adds to the interval
          RequestTimeout,   \* opts.Timeout
          Horizon           \* bounds the clock: no login reaches it

ASSUME DeviceLoginAssumption ==
    /\ {DefaultInterval, SlowDown, RequestTimeout, Horizon} \subseteq Nat \ {0}
    /\ DefaultLifetime \in Nat
    /\ Starts \subseteq [interval : Nat, lifetime : Nat]

VARIABLES call,       \* the invocation
          at,         \* what the command does next
          now, due,   \* the clock, and when the request or the timer it waits for ends
          login,      \* the device login: interval, deadline
          entry,      \* the HostEntry in hand
          reply,      \* the service's answer to the request under way
          grant,      \* the device's grant at the service, and when it lapses
          pace,       \* what the service asked for: the interval, and the earliest time of the next poll
          accepted,   \* the validation request the service answered with success, and its body
          stored,     \* what this login left in the hosts file
          result      \* how it ended

vars == <<call, at, now, due, login, entry, reply, grant, pace, accepted, stored, result>>

-----------------------------------------------------------------------------
(* JSON numbers.  The token response is decoded without UseNumber: a number *)
(* is a float64, and fmt.Sprint writes one of 1000000 or more with an       *)
(* exponent, which strconv.ParseInt does not read.                          *)

Decimal(n) == <<"decimal", n>>
Exponent(n) == <<"exponent", n>>
Sprint(n) == IF n < 1000000 THEN Decimal(n) ELSE Exponent(n)
ParseInt(text) == IF text[1] = "decimal" THEN {text[2]} ELSE {}

\* A field of the response: a number, or absent.
Absent == -1
Text(value) == IF value = Absent THEN <<"empty", 0>> ELSE Sprint(value)
Integer(value) == IF value = Absent THEN {0} ELSE ParseInt(Sprint(value))

-----------------------------------------------------------------------------
(* Answers of the service: whether the status is 2xx, and the body.         *)

Answer(ok, kind, status, error) ==
    [ok |-> ok, kind |-> kind, status |-> status, error |-> error,
     token |-> FALSE, expires |-> Absent, context |-> Absent]
Says(ok, status, error) == Answer(ok, "object", status, error)
NoReply == Answer(FALSE, "none", "", "")
Granted == {[Says(TRUE, "approved", "") EXCEPT !.token = TRUE, !.expires = e.expires, !.context = e.context] :
              e \in Expiries}
Pending == {Says(TRUE, "pending", ""), Says(FALSE, "", "authorization_pending"), Says(TRUE, "", "")}
Slower == {Says(FALSE, "", "slow_down")}
Refusal == {Says(FALSE, "", "access_denied"), Says(TRUE, "denied", "")}
Lapsed == {Says(FALSE, "", "expired_token")}
Mistakes == {Says(FALSE, "", ""), Says(TRUE, "strange", ""),
             Answer(TRUE, "garbage", "", ""), Answer(FALSE, "garbage", "", ""),
             Answer(TRUE, "empty", "", "")}

\* A service may go on answering "pending" for a grant that lapsed.
Answers == IF grant.state = "denied" THEN Refusal
           ELSE IF grant.state = "used" \/ now > grant.until THEN Lapsed \cup Pending
           ELSE IF grant.state = "approved" THEN Granted
           ELSE Pending \cup Slower

-----------------------------------------------------------------------------
NoEntry == [by |-> "nothing", expires |-> 0, context |-> <<"empty", 0>>]

Init ==
    /\ call \in Invocations
    /\ at = "flags"
    /\ now = 0 /\ due = 0
    /\ login = [interval |-> 0, deadline |-> 0]
    /\ entry = NoEntry
    /\ reply = NoReply
    /\ grant = [state |-> "none", until |-> 0]
    /\ pace = [interval |-> 0, next |-> 0]
    /\ accepted = "no"
    /\ stored = NoEntry
    /\ result = "none"

End(how) == /\ at' = "done"
            /\ result' = how

Fail(how) == /\ End(how)
             /\ UNCHANGED <<due, login, entry, reply, grant, pace, accepted, stored>>

Idle == UNCHANGED <<call, now>>

\* The request leaves: its answer is awaited for RequestTimeout.
Send(step) == /\ at' = step
              /\ due' = now + RequestTimeout
              /\ reply' = NoReply

-----------------------------------------------------------------------------
(* RunE up to the credential.                                               *)

AuthType == IF call.device THEN "oauth" ELSE call.authType
FlagsClash == call.device /\ call.typed /\ call.authType # "oauth"

Misused == \/ call.host = ""
           \/ FlagsClash
           \/ AuthType \notin {"", "bearer", "apikey", "basic", "oauth"}
           \/ AuthType = "oauth" /\ (call.withToken \/ ~call.configured)
           \/ AuthType # "oauth" /\ call.secret = ""

\* A basic login needs a user name and takes any password, so "secret" is the name there.
Flags ==
    /\ at = "flags"
    /\ Idle
    /\ \/ Misused /\ Fail("usage")
       \/ /\ ~Misused /\ AuthType # "oauth"
          /\ at' = "validate"
          /\ entry' = [NoEntry EXCEPT !.by = "user"]
          /\ UNCHANGED <<due, login, reply, grant, pace, accepted, stored, result>>
       \/ /\ ~Misused /\ AuthType = "oauth"
          /\ Send("starting")
          /\ UNCHANGED <<login, entry, grant, pace, accepted, stored, result>>

-----------------------------------------------------------------------------
(* The device login.                                                        *)

Or(value, default) == IF value = 0 THEN default ELSE value

\* The service opens a grant and answers with a device code, or something else.
ServeStart ==
    /\ at = "starting" /\ reply = NoReply
    /\ \/ \E s \in Starts :
            /\ reply' = Says(TRUE, "code", "")
            /\ grant' = [state |-> "pending", until |-> now + Or(s.lifetime, DefaultLifetime)]
            /\ pace' = [interval |-> Or(s.interval, DefaultInterval), next |-> now]
            /\ login' = [interval |-> s.interval, deadline |-> s.lifetime]
       \/ /\ reply' \in Mistakes
          /\ UNCHANGED <<grant, pace, login>>
    /\ UNCHANGED <<call, at, now, due, entry, accepted, stored, result>>

\* The code is shown, the browser opened if it can be, and the poll request made.
Begun ==
    /\ at = "starting" /\ reply # NoReply
    /\ Idle
    /\ IF reply.status # "code" THEN Fail("start failed")
       ELSE /\ at' = "poll"
            /\ login' = [interval |-> Or(login.interval, DefaultInterval),
                         deadline |-> now + Or(login.deadline, DefaultLifetime)]
            /\ UNCHANGED <<due, entry, reply, grant, pace, accepted, stored, result>>

\* The head of the loop: nothing is sent after the deadline.
PollEndlessly ==
    /\ at = "poll"
    /\ Idle
    /\ Send("polling")
    /\ UNCHANGED <<login, entry, grant, pace, accepted, stored, result>>
Poll ==
    /\ at = "poll"
    /\ Idle
    /\ \/ now > login.deadline /\ Fail("expired")
       \/ /\ now <= login.deadline
          /\ Send("polling")
          /\ UNCHANGED <<login, entry, grant, pace, accepted, stored, result>>

ServePoll ==
    /\ at = "polling" /\ reply = NoReply
    /\ reply' \in Answers \cup Mistakes
    /\ grant' = [grant EXCEPT !.state = IF reply'.token THEN "used" ELSE @]
    /\ LET interval == pace.interval + (IF reply' \in Slower THEN SlowDown ELSE 0)
       IN pace' = [interval |-> interval, next |-> now + interval]
    /\ UNCHANGED <<call, at, now, due, login, entry, accepted, stored, result>>

\* decodeOAuthDeviceToken: no answer without an integer for expires_in.
Decoded == reply.kind = "object" /\ Integer(reply.expires) # {}
State == IF reply.status # "" THEN reply.status ELSE reply.error

Sleep(interval) ==
    /\ at' = "waiting"
    /\ due' = now + interval
    /\ login' = [login EXCEPT !.interval = interval]
    /\ UNCHANGED <<entry, reply, grant, pace, accepted, stored, result>>

SlowOnce ==
    /\ at' = "waiting"
    /\ due' = now + login.interval + SlowDown
    /\ UNCHANGED <<login, entry, reply, grant, pace, accepted, stored, result>>
SlowFromNow == Sleep(login.interval + SlowDown)

TakeToken ==
    /\ at' = "validate"
    /\ \E seconds \in Integer(reply.expires) :
         entry' = [by |-> "grant", expires |-> seconds, context |-> Text(reply.context)]
    /\ UNCHANGED <<due, login, reply, grant, pace, accepted, stored, result>>

Polled ==
    /\ at = "polling" /\ reply # NoReply
    /\ Idle
    /\ \/ ~Decoded /\ Fail("poll failed")
       \/ Decoded /\ reply.token /\ TakeToken
       \/ /\ Decoded /\ ~reply.token
          /\ \/ State = "slow_down" /\ SlowFromNow
             \/ /\ State \in {"pending", "authorization_pending"} \/ (State = "" /\ reply.ok)
                /\ Sleep(login.interval)
             \/ State \in {"denied", "access_denied"} /\ Fail("denied")
             \/ State \in {"expired", "expired_token"} /\ Fail("expired")
             \/ State = "" /\ ~reply.ok /\ Fail("poll failed")
             \/ State = "strange" /\ Fail("poll failed")

Wake ==
    /\ at = "waiting" /\ now >= due
    /\ at' = "poll"
    /\ UNCHANGED <<call, now, due, login, entry, reply, grant, pace, accepted, stored, result>>

\* The person at the browser, while the code is good.
Decide ==
    /\ grant.state = "pending" /\ now <= grant.until
    /\ \E choice \in {"approved", "denied"} : grant' = [grant EXCEPT !.state = choice]
    /\ UNCHANGED <<call, at, now, due, login, entry, reply, pace, accepted, stored, result>>

-----------------------------------------------------------------------------
(* Validation (validateWithAuth).  The body of a successful answer is       *)
(* empty, not JSON, or an object whose asserted field is there, missing or  *)
(* blank.                                                                   *)

Bodies == {"empty", "text", "full", "missing", "blank"}

NeedsJSON == call.validate.field \/ call.validate.display
ValidWhenAnswered(body) == TRUE
Valid(body) ==
    IF body = "empty" THEN ~call.validate.field /\ ~call.validate.nonEmpty
    ELSE NeedsJSON => /\ body # "text"
                      /\ call.validate.field =>
                            body # "missing" /\ (call.validate.nonEmpty => body # "blank")

NotValidated == call.skip \/ ~call.validate.declared

Validate ==
    /\ at = "validate"
    /\ Idle
    /\ IF NotValidated THEN at' = "store" /\ UNCHANGED <<due, reply>>
                       ELSE Send("validating")
    /\ UNCHANGED <<login, entry, grant, pace, accepted, stored, result>>

ServeValidate ==
    /\ at = "validating" /\ reply = NoReply
    /\ \/ \E body \in Bodies : /\ reply' = Answer(TRUE, body, "", "")
                               /\ accepted' = body
       \/ reply' = Answer(FALSE, "empty", "", "") /\ UNCHANGED accepted
    /\ UNCHANGED <<call, at, now, due, login, entry, grant, pace, stored, result>>

Validated ==
    /\ at = "validating" /\ reply # NoReply
    /\ Idle
    /\ IF reply.ok /\ Valid(reply.kind)
          THEN /\ at' = "store"
               /\ UNCHANGED <<due, login, entry, reply, grant, pace, accepted, stored, result>>
          ELSE Fail("invalid")

-----------------------------------------------------------------------------
(* The update of the hosts file, which HostStore models, and what can end   *)
(* the command wherever it is.                                              *)

Store ==
    /\ at = "store"
    /\ Idle
    /\ \/ /\ stored' = entry
          /\ End("ok")
          /\ UNCHANGED <<due, login, entry, reply, grant, pace, accepted>>
       \/ Fail("not stored")

Requesting == at \in {"starting", "polling", "validating"}

\* Client.Timeout, or a connection that fails before it.
Timeout ==
    /\ Requesting
    /\ \/ reply = NoReply
       \/ now >= due
    /\ Idle
    /\ Fail(at)

Interrupt ==
    /\ at # "done"
    /\ Idle
    /\ Fail("interrupted")

\* Time does not pass what a running command does at once.
Tick ==
    /\ now < Horizon
    /\ (Requesting \/ at = "waiting") /\ now < due
    /\ now' = now + 1
    /\ UNCHANGED <<call, at, due, login, entry, reply, grant, pace, accepted, stored, result>>

Client == Flags \/ Begun \/ Poll \/ Polled \/ Wake \/ Validate \/ Validated \/ Store
Expire == Timeout /\ now >= due
Service == ServeStart \/ ServePoll \/ ServeValidate

Next == Client \/ Service \/ Decide \/ Timeout \/ Interrupt \/ Tick

\* The process runs, its timers fire and the clock advances; the service and the person
\* owe nothing.
Spec == Init /\ [][Next]_vars /\ WF_vars(Client) /\ WF_vars(Expire) /\ WF_vars(Tick)

-----------------------------------------------------------------------------
TypeOK ==
    /\ call \in Invocations
    /\ at \in {"flags", "starting", "poll", "polling", "waiting", "validate", "validating",
               "store", "done"}
    /\ now \in 0..Horizon
    /\ grant.state \in {"none", "pending", "approved", "denied", "used"}
    /\ stored \in {NoEntry, entry}

\* A client never polls sooner after an answer than the interval the service gave plus
\* five seconds for each slow_down so far (RFC 8628; oauth_device.go:164-184, a loop
\* that sleeps in two places).
PacedPolls ==
    [][at = "poll" /\ at' = "polling" => now >= pace.next]_vars

\* What reaches the hosts file is what the user gave or the token of a grant the person
\* approved, and the service accepted it in the way the manifest asserts unless validation
\* was skipped or not declared; a login reported as failed leaves nothing there.
StoresWhatWasGranted ==
    /\ stored # NoEntry =>
         /\ stored.by = IF AuthType = "oauth" THEN "grant" ELSE "user"
         /\ stored.by = "grant" => grant.state = "used"
         /\ \/ NotValidated
            \/ /\ accepted # "no"
               /\ call.validate.nonEmpty => accepted # "empty"
               /\ call.validate.field => accepted \notin {"text", "empty", "missing"}
               /\ call.validate.field /\ call.validate.nonEmpty => accepted # "blank"
    /\ (stored # NoEntry) <=> (result = "ok")

\* A device login that has begun ends, whatever the service and the person do.
LoginEnds == at = "starting" ~> at = "done"
=============================================================================
