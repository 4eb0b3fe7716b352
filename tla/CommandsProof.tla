----------------------------- MODULE CommandsProof -----------------------------
(***************************************************************************)
(* Proofs about commands that run by themselves: auth login for any        *)
(* command lines, manifests, device codes, grants, intervals and timeouts; *)
(* update for any releases and archives; codegen for any projects and      *)
(* whatever they become from one run to the next; init for any starters.   *)
(***************************************************************************)
EXTENDS DeviceLogin, SelfUpdate, AcceptedCommands, ProjectInit, FiniteSetTheorems, SequenceTheorems,
        NaturalsInduction, WellFoundedInduction, TLAPS

-----------------------------------------------------------------------------
(* auth login *)

Times ==
    /\ now \in Nat /\ due \in Nat
    /\ login \in [interval : Nat, deadline : Nat]
    /\ pace \in [interval : Nat, next : Nat]
    /\ grant \in [state : {"none", "pending", "approved", "denied", "used"}, until : Nat]

\* The client's interval and the one the service has asked for go together, and no timer
\* of the client ends before the service wants its next poll.
Paced ==
    /\ at = "starting" /\ reply.status = "code" =>
         pace.next <= now /\ pace.interval = Or(login.interval, DefaultInterval)
    /\ at = "poll" => pace.next <= now /\ pace.interval = login.interval
    /\ at = "polling" /\ reply = NoReply => pace.interval = login.interval
    /\ at = "polling" /\ reply # NoReply =>
         /\ pace.next <= now + pace.interval
         /\ pace.interval = login.interval + (IF State = "slow_down" THEN SlowDown ELSE 0)
    /\ at = "waiting" => pace.next <= due /\ pace.interval = login.interval

\* Where the credential in hand comes from.
Sourced ==
    /\ at \in {"starting", "poll", "polling", "waiting"} => AuthType = "oauth"
    /\ at = "polling" /\ reply.token => grant.state = "used"
    /\ at \in {"validate", "validating", "store"} =>
         /\ entry.by = IF AuthType = "oauth" THEN "grant" ELSE "user"
         /\ entry.by = "grant" => grant.state = "used"

\* What the manifest asserts of the body of a successful validation.
Asserted(body) ==
    /\ body # "no"
    /\ call.validate.nonEmpty => body # "empty"
    /\ call.validate.field => body \notin {"text", "empty", "missing"}
    /\ call.validate.field /\ call.validate.nonEmpty => body # "blank"

Vetted ==
    /\ at = "validating" /\ reply.ok => accepted = reply.kind /\ accepted \in Bodies
    /\ at = "store" => NotValidated \/ Asserted(accepted)

\* Nothing is stored, and nothing reported, before the command ends.
Unended == at # "done" => stored = NoEntry /\ result = "none"

IInv == TypeOK /\ Times /\ Paced /\ Sourced /\ Vetted /\ Unended /\ StoresWhatWasGranted

USE DEF IInv

LEMMA Constants ==
    /\ DefaultInterval \in Nat /\ DefaultLifetime \in Nat /\ SlowDown \in Nat
    /\ RequestTimeout \in Nat /\ Horizon \in Nat
BY DeviceLoginAssumption

LEMMA OrType == \A value, default \in Nat : Or(value, default) \in Nat
BY DEF Or

LEMMA NoReplySays == NoReply.ok = FALSE /\ NoReply.token = FALSE /\ NoReply.status = "" /\ NoReply.error = ""
BY DEF NoReply, Answer

LEMMA InitIInv == Init => IInv
<1> SUFFICES ASSUME Init PROVE IInv
  OBVIOUS
<1>1. TypeOK /\ Times
  BY Constants DEF Init, TypeOK, Times
<1>2. Paced /\ Sourced /\ Vetted
  BY DEF Init, Paced, Sourced, Vetted
<1>3. Unended /\ StoresWhatWasGranted
  BY DEF Init, Unended, StoresWhatWasGranted
<1>4. QED
  BY <1>1, <1>2, <1>3

-----------------------------------------------------------------------------
(* How a command ends without having stored anything *)

LEMMA FailStep ==
    ASSUME IInv, at # "done", UNCHANGED <<call, now>>, NEW how, how # "ok", Fail(how)
    PROVE  IInv'
<1>1. /\ at' = "done" /\ result' = how /\ stored' = NoEntry
      /\ UNCHANGED <<call, now, due, login, entry, reply, grant, pace, accepted, stored>>
  BY DEF Fail, End, Unended
<1>2. TypeOK' /\ Times'
  BY <1>1 DEF TypeOK, Times
<1>3. Paced' /\ Sourced' /\ Vetted' /\ Unended'
  BY <1>1 DEF Paced, Sourced, Vetted, Unended
<1>4. StoresWhatWasGranted'
  BY <1>1 DEF StoresWhatWasGranted
<1>5. QED
  BY <1>2, <1>3, <1>4

-----------------------------------------------------------------------------
(* RunE up to the credential *)

LEMMA FlagsStep == ASSUME IInv, Flags PROVE IInv'
<1> USE DEF Flags, Idle
<1>1. CASE Misused /\ Fail("usage")
  BY <1>1, FailStep
<1>2. CASE /\ AuthType # "oauth" /\ at' = "validate"
           /\ entry' = [NoEntry EXCEPT !.by = "user"]
           /\ UNCHANGED <<due, login, reply, grant, pace, accepted, stored, result>>
  <2>1. TypeOK' /\ Times' /\ Paced' /\ Vetted'
    BY <1>2 DEF TypeOK, Times, Paced, Vetted, Unended
  <2>2. Sourced'
    BY <1>2 DEF Sourced, NoEntry, AuthType
  <2>3. Unended' /\ StoresWhatWasGranted'
    BY <1>2 DEF Unended, StoresWhatWasGranted
  <2>4. QED
    BY <2>1, <2>2, <2>3
<1>3. CASE /\ AuthType = "oauth" /\ Send("starting")
           /\ UNCHANGED <<login, entry, grant, pace, accepted, stored, result>>
  <2>1. TypeOK' /\ Times'
    BY <1>3, Constants DEF TypeOK, Times, Unended, Send
  <2>2. Paced' /\ Sourced' /\ Vetted'
    BY <1>3 DEF Paced, Sourced, Vetted, Send, NoReply, Answer, AuthType
  <2>3. Unended' /\ StoresWhatWasGranted'
    BY <1>3 DEF Unended, StoresWhatWasGranted, Send
  <2>4. QED
    BY <2>1, <2>2, <2>3
<1>4. QED
  BY <1>1, <1>2, <1>3

-----------------------------------------------------------------------------
(* The device login *)

\* An answer that brings neither a code nor a token, and does not slow the client down.
Unmarked(r) == r.token = FALSE /\ r.status \notin {"code", "slow_down"} /\ r.error # "slow_down"

LEMMA UnmarkedAnswer ==
    \A ok, kind, status, error :
        status \notin {"code", "slow_down"} /\ error # "slow_down" => Unmarked(Answer(ok, kind, status, error))
BY DEF Answer, Unmarked

LEMMA UnmarkedAnswers == \A r \in Refusal \cup Lapsed \cup Pending \cup Mistakes : Unmarked(r)
<1>1. \A r \in Refusal : Unmarked(r)
  BY UnmarkedAnswer DEF Refusal, Says
<1>2. \A r \in Lapsed : Unmarked(r)
  BY UnmarkedAnswer DEF Lapsed, Says
<1>3. \A r \in Pending : Unmarked(r)
  BY UnmarkedAnswer DEF Pending, Says
<1>4. \A r \in Mistakes : Unmarked(r)
  BY UnmarkedAnswer DEF Mistakes, Says
<1>5. QED
  BY <1>1, <1>2, <1>3, <1>4

LEMMA CodeAnswer == Says(TRUE, "code", "").status = "code" /\ Says(TRUE, "code", "").token = FALSE
BY DEF Says, Answer

\* The service opens a grant whose code it has named an interval and a lifetime for, or not.
Opened(s, interval, lifetime) ==
    /\ interval = Or(s.interval, DefaultInterval) /\ lifetime = Or(s.lifetime, DefaultLifetime)
    /\ reply' = Says(TRUE, "code", "")
    /\ grant' = [state |-> "pending", until |-> now + lifetime]
    /\ pace' = [interval |-> interval, next |-> now]
    /\ login' = [interval |-> s.interval, deadline |-> s.lifetime]

LEMMA ServeStartStep == ASSUME IInv, ServeStart PROVE IInv'
<1>1. /\ at = "starting"
      /\ UNCHANGED <<call, at, now, due, entry, accepted, stored, result>>
      /\ \/ \E s \in Starts : Opened(s, Or(s.interval, DefaultInterval), Or(s.lifetime, DefaultLifetime))
         \/ reply' \in Mistakes /\ UNCHANGED <<grant, pace, login>>
  BY DEF ServeStart, Opened
<1>2. CASE \E s \in Starts : Opened(s, Or(s.interval, DefaultInterval), Or(s.lifetime, DefaultLifetime))
  <2>1. PICK s \in Starts : Opened(s, Or(s.interval, DefaultInterval), Or(s.lifetime, DefaultLifetime))
    BY <1>2
  <2>2. s.interval \in Nat /\ s.lifetime \in Nat
    BY DeviceLoginAssumption
  <2>3. PICK interval \in Nat, lifetime \in Nat : Opened(s, interval, lifetime)
    BY <2>1, <2>2, Constants, OrType
  <2>4. TypeOK'
    BY <1>1, <2>3 DEF TypeOK, Opened
  <2>5. Times'
    <3>1. now + lifetime \in Nat
      BY DEF Times
    <3>2. grant' = [state |-> "pending", until |-> now + lifetime]
      BY <2>3 DEF Opened
    <3>3. grant' \in [state : {"none", "pending", "approved", "denied", "used"}, until : Nat]
      BY <3>1, <3>2
    <3>4. pace' \in [interval : Nat, next : Nat] /\ login' \in [interval : Nat, deadline : Nat]
      BY <2>2, <2>3 DEF Times, Opened
    <3>5. QED
      BY <1>1, <3>3, <3>4 DEF Times
  <2>6. Paced'
    <3>1. /\ reply'.status = "code" /\ pace'.next = now
          /\ login'.interval = s.interval /\ pace'.interval = Or(s.interval, DefaultInterval)
      BY <2>3, CodeAnswer DEF Opened
    <3>2. QED
      BY <1>1, <3>1 DEF Paced, Times
  <2>7. Sourced' /\ Vetted'
    BY <1>1 DEF Sourced, Vetted, AuthType
  <2>8. Unended' /\ StoresWhatWasGranted'
    BY <1>1 DEF Unended, StoresWhatWasGranted
  <2>9. QED
    BY <2>4, <2>5, <2>6, <2>7, <2>8
<1>3. CASE reply' \in Mistakes /\ UNCHANGED <<grant, pace, login>>
  <2>1. TypeOK' /\ Times'
    BY <1>1, <1>3 DEF TypeOK, Times
  <2>2. Paced' /\ Sourced' /\ Vetted'
    BY <1>1, <1>3, UnmarkedAnswers DEF Paced, Sourced, Vetted, AuthType, Unmarked
  <2>3. Unended' /\ StoresWhatWasGranted'
    BY <1>1, <1>3 DEF Unended, StoresWhatWasGranted
  <2>4. QED
    BY <2>1, <2>2, <2>3
<1>4. QED
  BY <1>1, <1>2, <1>3

LEMMA BegunStep == ASSUME IInv, Begun PROVE IInv'
<1>1. CASE reply.status # "code"
  BY <1>1, FailStep DEF Begun, Idle
<1>2. CASE reply.status = "code"
  <2>1. PICK interval \in Nat, lifetime \in Nat :
          interval = Or(login.interval, DefaultInterval) /\ lifetime = Or(login.deadline, DefaultLifetime)
    BY Constants, OrType DEF Times
  <2>2. /\ at = "starting" /\ at' = "poll"
        /\ login' = [interval |-> interval, deadline |-> now + lifetime]
        /\ UNCHANGED <<call, now, due, entry, reply, grant, pace, accepted, stored, result>>
    BY <1>2, <2>1 DEF Begun, Idle
  <2>3. TypeOK' /\ Times'
    BY <2>2 DEF TypeOK, Times, Unended
  <2>4. Paced' /\ Sourced' /\ Vetted'
    BY <1>2, <2>1, <2>2 DEF Paced, Sourced, Vetted, AuthType
  <2>5. Unended' /\ StoresWhatWasGranted'
    BY <2>2 DEF Unended, StoresWhatWasGranted
  <2>6. QED
    BY <2>3, <2>4, <2>5
<1>3. QED
  BY <1>1, <1>2

LEMMA PollStep == ASSUME IInv, Poll PROVE IInv'
<1> USE DEF Poll, Idle
<1>1. CASE Fail("expired")
  BY <1>1, FailStep
<1>2. CASE Send("polling") /\ UNCHANGED <<login, entry, grant, pace, accepted, stored, result>>
  <2>1. TypeOK' /\ Times'
    BY <1>2, Constants DEF TypeOK, Times, Send, Unended
  <2>2. Paced' /\ Sourced' /\ Vetted'
    BY <1>2 DEF Paced, Sourced, Vetted, Send, AuthType, NoReply, Answer
  <2>3. Unended' /\ StoresWhatWasGranted'
    BY <1>2 DEF Unended, StoresWhatWasGranted, Send
  <2>4. QED
    BY <2>1, <2>2, <2>3
<1>3. QED
  BY <1>1, <1>2

\* An answer to a poll slows the client down exactly if it is the one that asks for it.
LEMMA PollSays ==
    ASSUME reply' \in Answers \cup Mistakes
    PROVE  State' = "slow_down" <=> reply' \in Slower
<1>1. ASSUME NEW r \in Slower PROVE r.status = "" /\ r.error = "slow_down"
  <2>1. r = Says(FALSE, "", "slow_down")
    BY DEF Slower
  <2>2. QED
    BY <2>1 DEF Says, Answer
<1>2. ASSUME reply' \in Refusal \cup Lapsed \cup Pending \cup Mistakes
      PROVE  State' # "slow_down" /\ reply' \notin Slower
  BY <1>1, <1>2, UnmarkedAnswers DEF State, Unmarked
<1>3. ASSUME reply' \in Granted PROVE State' # "slow_down" /\ reply' \notin Slower
  <2>1. PICK e \in Expiries :
          reply' = [Says(TRUE, "approved", "") EXCEPT !.token = TRUE, !.expires = e.expires,
                                                      !.context = e.context]
    BY <1>3 DEF Granted
  <2>2. reply'.status = "approved"
    BY <2>1 DEF Says, Answer
  <2>3. QED
    BY <1>1, <2>2 DEF State
<1>4. ASSUME reply' \in Slower PROVE State' = "slow_down"
  BY <1>1, <1>4 DEF State
<1>5. QED
  BY <1>2, <1>3, <1>4 DEF Answers

LEMMA ServePollStep == ASSUME IInv, ServePoll PROVE IInv'
<1> DEFINE interval == pace.interval + (IF reply' \in Slower THEN SlowDown ELSE 0)
<1>1. /\ at = "polling" /\ reply = NoReply
      /\ reply' \in Answers \cup Mistakes
      /\ grant' = [grant EXCEPT !.state = IF reply'.token THEN "used" ELSE @]
      /\ pace' = [interval |-> interval, next |-> now + interval]
      /\ UNCHANGED <<call, at, now, due, login, entry, accepted, stored, result>>
  BY DEF ServePoll
<1>2. interval \in Nat
  BY Constants DEF Times
<1> HIDE DEF interval
<1>3. TypeOK' /\ Times'
  BY <1>1, <1>2 DEF TypeOK, Times
<1>4. Paced'
  <2>1. State' = "slow_down" <=> reply' \in Slower
    BY <1>1, PollSays
  <2>2. reply' = NoReply => State' # "slow_down"
    BY NoReplySays DEF State
  <2>3. QED
    BY <1>1, <1>2, <2>1, <2>2, Constants DEF Paced, Times, interval
<1>5. Sourced' /\ Vetted'
  BY <1>1 DEF Sourced, Vetted, AuthType, Times
<1>6. Unended' /\ StoresWhatWasGranted'
  BY <1>1 DEF Unended, StoresWhatWasGranted
<1>7. QED
  BY <1>3, <1>4, <1>5, <1>6

LEMMA SleepStep ==
    ASSUME IInv, at = "polling", reply # NoReply, Idle,
           \/ State = "slow_down" /\ SlowFromNow
           \/ State # "slow_down" /\ Sleep(login.interval)
    PROVE  IInv'
<1> DEFINE interval == login.interval + (IF State = "slow_down" THEN SlowDown ELSE 0)
<1>1. /\ at' = "waiting" /\ due' = now + interval
      /\ login' = [login EXCEPT !.interval = interval]
      /\ UNCHANGED <<call, now, entry, reply, grant, pace, accepted, stored, result>>
  BY DEF SlowFromNow, Sleep, Idle, Times
<1>2. interval \in Nat /\ interval = pace.interval
  BY Constants DEF Times, Paced
<1> HIDE DEF interval
<1>3. TypeOK' /\ Times'
  BY <1>1, <1>2 DEF TypeOK, Times, Unended
<1>4. Paced'
  BY <1>1, <1>2 DEF Paced, Times
<1>5. Sourced' /\ Vetted'
  BY <1>1 DEF Sourced, Vetted, AuthType
<1>6. Unended' /\ StoresWhatWasGranted'
  BY <1>1 DEF Unended, StoresWhatWasGranted
<1>7. QED
  BY <1>3, <1>4, <1>5, <1>6

LEMMA TakeTokenStep ==
    ASSUME IInv, at = "polling", reply.token, Idle, TakeToken
    PROVE  IInv'
<1>1. /\ at' = "validate" /\ entry'.by = "grant"
      /\ UNCHANGED <<call, now, due, login, reply, grant, pace, accepted, stored, result>>
  <2>1. PICK seconds : entry' = [by |-> "grant", expires |-> seconds, context |-> Text(reply.context)]
    BY DEF TakeToken
  <2>2. QED
    BY <2>1 DEF TakeToken, Idle
<1>2. TypeOK' /\ Times'
  BY <1>1 DEF TypeOK, Times, Unended
<1>3. Paced' /\ Sourced' /\ Vetted'
  BY <1>1 DEF Paced, Sourced, Vetted, AuthType
<1>4. Unended' /\ StoresWhatWasGranted'
  BY <1>1 DEF Unended, StoresWhatWasGranted
<1>5. QED
  BY <1>2, <1>3, <1>4

LEMMA PolledStep == ASSUME IInv, Polled PROVE IInv'
<1>1. CASE \E how \in {"poll failed", "denied", "expired"} : Fail(how)
  BY <1>1, FailStep DEF Polled, Idle
<1>2. CASE reply.token /\ TakeToken
  BY <1>2, TakeTokenStep DEF Polled
<1>3. CASE State = "slow_down" /\ SlowFromNow
  BY <1>3, SleepStep DEF Polled
<1>4. CASE State # "slow_down" /\ Sleep(login.interval)
  BY <1>4, SleepStep DEF Polled
<1>5. QED
  BY <1>1, <1>2, <1>3, <1>4 DEF Polled

LEMMA WakeStep == ASSUME IInv, Wake PROVE IInv'
<1>1. TypeOK' /\ Times'
  BY DEF Wake, TypeOK, Times, Unended
<1>2. Paced' /\ Sourced' /\ Vetted'
  BY DEF Wake, Paced, Sourced, Vetted, Times, AuthType
<1>3. Unended' /\ StoresWhatWasGranted'
  BY DEF Wake, Unended, StoresWhatWasGranted
<1>4. QED
  BY <1>1, <1>2, <1>3

\* The person decides about a grant that nobody has used.
LEMMA DecideStep == ASSUME IInv, Decide PROVE IInv'
<1>1. PICK choice \in {"approved", "denied"} : grant' = [grant EXCEPT !.state = choice]
  BY DEF Decide
<1>2. /\ grant.state = "pending"
      /\ UNCHANGED <<call, at, now, due, login, entry, reply, pace, accepted, stored, result>>
  BY DEF Decide
<1>3. TypeOK' /\ Times'
  BY <1>1, <1>2 DEF TypeOK, Times
<1>4. Paced' /\ Vetted' /\ Unended'
  BY <1>2, ZenonT(60) DEF Paced, Vetted, Unended, State, NotValidated, Asserted
<1>5. Sourced' /\ StoresWhatWasGranted'
  BY <1>2 DEF Sourced, StoresWhatWasGranted, AuthType, NotValidated
<1>6. QED
  BY <1>3, <1>4, <1>5

-----------------------------------------------------------------------------
(* Validation and storage *)

LEMMA ValidateStep == ASSUME IInv, Validate PROVE IInv'
<1>1. CASE NotValidated /\ at' = "store" /\ UNCHANGED <<due, reply>>
  <2>1. TypeOK' /\ Times'
    BY <1>1 DEF Validate, Idle, TypeOK, Times, Unended
  <2>2. Paced' /\ Sourced' /\ Vetted'
    BY <1>1 DEF Validate, Idle, Paced, Sourced, Vetted, AuthType, NotValidated
  <2>3. Unended' /\ StoresWhatWasGranted'
    BY <1>1 DEF Validate, Idle, Unended, StoresWhatWasGranted
  <2>4. QED
    BY <2>1, <2>2, <2>3
<1>2. CASE Send("validating")
  <2>1. TypeOK' /\ Times'
    BY <1>2, Constants DEF Validate, Idle, Send, TypeOK, Times, Unended
  <2>2. Paced' /\ Sourced' /\ Vetted'
    BY <1>2, NoReplySays DEF Validate, Idle, Send, Paced, Sourced, Vetted, AuthType
  <2>3. Unended' /\ StoresWhatWasGranted'
    BY <1>2 DEF Validate, Idle, Send, Unended, StoresWhatWasGranted
  <2>4. QED
    BY <2>1, <2>2, <2>3
<1>3. QED
  BY <1>1, <1>2 DEF Validate

LEMMA ServeValidateStep == ASSUME IInv, ServeValidate PROVE IInv'
<1>1. /\ at = "validating"
      /\ UNCHANGED <<call, at, now, due, login, entry, grant, pace, stored, result>>
  BY DEF ServeValidate
<1>2. reply'.ok => accepted' = reply'.kind /\ accepted' \in Bodies
  <2>1. ASSUME NEW body \in Bodies, reply' = Answer(TRUE, body, "", ""), accepted' = body
        PROVE  accepted' = reply'.kind /\ accepted' \in Bodies
    BY <2>1 DEF Answer
  <2>2. ASSUME reply' = Answer(FALSE, "empty", "", "") PROVE ~reply'.ok
    BY <2>2 DEF Answer
  <2>3. QED
    BY <2>1, <2>2 DEF ServeValidate
<1>3. TypeOK' /\ Times'
  BY <1>1 DEF TypeOK, Times
<1>4. Paced' /\ Sourced' /\ Vetted'
  BY <1>1, <1>2 DEF Paced, Sourced, Vetted, AuthType
<1>5. Unended' /\ StoresWhatWasGranted'
  BY <1>1 DEF Unended, StoresWhatWasGranted
<1>6. QED
  BY <1>3, <1>4, <1>5

\* A body that the client takes for valid is what the manifest asserts.
LEMMA ValidBody == \A body \in Bodies : Valid(body) => Asserted(body)
BY DEF Bodies, Valid, NeedsJSON, Asserted

LEMMA ValidatedStep == ASSUME IInv, Validated PROVE IInv'
<1>1. CASE Fail("invalid")
  BY <1>1, FailStep DEF Validated, Idle
<1>2. CASE /\ reply.ok /\ Valid(reply.kind) /\ at' = "store"
           /\ UNCHANGED <<due, login, entry, reply, grant, pace, accepted, stored, result>>
  <2>1. TypeOK' /\ Times'
    BY <1>2 DEF Validated, Idle, TypeOK, Times, Unended
  <2>2. Asserted(accepted)
    BY <1>2, ValidBody DEF Validated, Vetted
  <2>3. Paced' /\ Sourced' /\ Vetted'
    BY <1>2, <2>2 DEF Validated, Idle, Paced, Sourced, Vetted, AuthType, Asserted
  <2>4. Unended' /\ StoresWhatWasGranted'
    BY <1>2 DEF Validated, Idle, Unended, StoresWhatWasGranted
  <2>5. QED
    BY <2>1, <2>3, <2>4
<1>3. QED
  BY <1>1, <1>2 DEF Validated

LEMMA StoreStep == ASSUME IInv, Store PROVE IInv'
<1>1. CASE Fail("not stored")
  BY <1>1, FailStep DEF Store, Idle
<1>2. CASE /\ stored' = entry /\ End("ok")
           /\ UNCHANGED <<due, login, entry, reply, grant, pace, accepted>>
  <2>1. TypeOK' /\ Times'
    BY <1>2 DEF Store, Idle, End, TypeOK, Times
  <2>2. Paced' /\ Sourced' /\ Vetted' /\ Unended'
    BY <1>2 DEF Store, Idle, End, Paced, Sourced, Vetted, Unended
  <2>3. StoresWhatWasGranted'
    BY <1>2 DEF Store, Idle, End, Sourced, Vetted, Asserted, StoresWhatWasGranted, AuthType,
                NotValidated, NoEntry
  <2>4. QED
    BY <2>1, <2>2, <2>3
<1>3. QED
  BY <1>1, <1>2 DEF Store

LEMMA TickStep == ASSUME IInv, Tick PROVE IInv'
<1>1. TypeOK' /\ Times'
  BY Constants DEF Tick, TypeOK, Times
<1>2. Paced'
  <2>1. now' >= now /\ now' + pace.interval >= now + pace.interval
    BY DEF Tick, Times
  <2>2. \A t \in Int : t <= now => t <= now'
    BY <1>1, <2>1 DEF Times
  <2>3. pace.next <= now + pace.interval => pace.next <= now' + pace.interval
    BY <1>1, <2>1 DEF Times
  <2>4. UNCHANGED <<at, due, login, reply, pace>> /\ pace.next \in Int /\ State' = State
    BY DEF Tick, Times, State
  <2>5. QED
    BY <2>2, <2>3, <2>4 DEF Paced
<1>3. Sourced' /\ Vetted' /\ Unended' /\ StoresWhatWasGranted'
  BY DEF Tick, Sourced, Vetted, Unended, StoresWhatWasGranted, AuthType, NotValidated, Asserted
<1>4. QED
  BY <1>1, <1>2, <1>3

LEMMA NextIInv == IInv /\ [Next]_vars => IInv'
<1> SUFFICES ASSUME IInv, [Next]_vars PROVE IInv'
  OBVIOUS
<1>1. CASE Client
  BY <1>1, FlagsStep, BegunStep, PollStep, PolledStep, WakeStep, ValidateStep, ValidatedStep, StoreStep
     DEF Client
<1>2. CASE Service
  BY <1>2, ServeStartStep, ServePollStep, ServeValidateStep DEF Service
<1>3. CASE Timeout
  BY <1>3, FailStep DEF Timeout, Requesting, Idle
<1>4. CASE Interrupt
  BY <1>4, FailStep DEF Interrupt, Idle
<1>5. CASE UNCHANGED vars
  <2>1. TypeOK' /\ Times' /\ Paced' /\ Sourced'
    BY <1>5, ZenonT(60) DEF vars, TypeOK, Times, Paced, Sourced, AuthType, State
  <2>2. Vetted' /\ Unended' /\ StoresWhatWasGranted'
    BY <1>5 DEF vars, Vetted, Unended, StoresWhatWasGranted, AuthType, NotValidated, Asserted
  <2>3. QED
    BY <2>1, <2>2
<1>6. QED
  BY <1>1, <1>2, <1>3, <1>4, <1>5, DecideStep, TickStep DEF Next

LEMMA SpecIInv == Spec => []IInv
<1>1. Spec => Init /\ [][Next]_vars
  BY PTL DEF Spec
<1>2. QED
  BY <1>1, InitIInv, NextIInv, PTL

-----------------------------------------------------------------------------
(* Theorems *)

\* The state of a login command has the types that TypeOK gives.
THEOREM TypeCorrect == Spec => []TypeOK
BY SpecIInv, PTL

\* What a login leaves in the hosts file is the user's, or the token of a grant that the
\* person approved, and met what the manifest asserts; a failed login leaves nothing
\* (login.go, oauth_device.go, validate.go).
THEOREM OnlyGrantedStored == Spec => []StoresWhatWasGranted
BY SpecIInv, PTL

\* The client keeps the pace that the service sets, whatever intervals, slow_downs and late
\* answers there are (oauth_device.go:164-184).
THEOREM PaceKept == Spec => PacedPolls
<1>1. IInv /\ [Next]_vars => [at = "poll" /\ at' = "polling" => now >= pace.next]_vars
  <2>1. ASSUME IInv, at = "poll" PROVE now >= pace.next
    BY <2>1 DEF Paced, Times
  <2>2. QED
    BY <2>1
<1>2. Spec => [][Next]_vars
  BY PTL DEF Spec
<1>3. QED
  BY <1>1, <1>2, SpecIInv, PTL DEF PacedPolls

HIDE DEF IInv

-----------------------------------------------------------------------------
(* The update command *)

\* Bytes of the release: the first binary of an asset for this system, by its digest.
FirstOfDigest(bytes) ==
    \E i \in DOMAIN release.assets :
        LET asset == release.assets[i]
        IN /\ asset.ours
           /\ \E k \in DOMAIN asset.digest.members :
                /\ asset.digest.members[k].named /\ asset.digest.members[k].bytes = bytes
                /\ \A j \in 1 .. k - 1 : ~(asset.digest.members[j].named /\ asset.digest.members[j].kind = "file")

\* Where the command has not yet touched the executable, and where it has.
Untouched == {"fetch", "ask", "select", "download", "receive", "extract", "install", "copy",
              "current", "cancelled", "failed"}

Replaced == {"report", "updated"}

\* What it does from the answer of the service to the replacement.
Chosen == {"ask", "select", "download", "receive", "extract", "install", "copy"}

\* A binary to install is of the release, and the archive it is taken from is the asset.
InHand ==
    /\ phase \in Chosen => Before(running, release.tag)
    /\ phase = "extract" => archive \in Archives /\ DigestHolds(archive)
    /\ phase \in {"install", "copy"} =>
         /\ payload \in [bytes : {payload.bytes}, mode : {payload.mode}]
         /\ payload.bytes # "own" /\ FirstOfDigest(payload.bytes)

\* What is on the disk follows from how far the command has come.
OnDisk ==
    /\ phase \in Untouched \cup Replaced \cup {"killed"}
    /\ phase \in Untouched => exe = OwnBinary
    /\ phase \in Replaced => exe # OwnBinary
    /\ phase \in {"fetch", "ask", "select", "download"} \cup (Over \ {"killed"}) => temps = {}

UpdateInv == OnDisk /\ InHand /\ OnlyVerified

LEMMA UpdateInvEnough == UpdateInv => UpdateWhole
BY DEF UpdateInv, OnDisk, UpdateWhole, LeavesNothing, Over, Untouched, Replaced

LEMMA UpdateInitInv == UpdateInit => UpdateInv
<1> SUFFICES ASSUME UpdateInit PROVE UpdateInv
  OBVIOUS
<1>1. OnDisk
  BY DEF UpdateInit, OnDisk, Untouched, Replaced
<1>2. InHand
  BY DEF UpdateInit, InHand, Chosen
<1>3. OnlyVerified
  BY DEF UpdateInit, OnlyVerified
<1>4. QED
  BY <1>1, <1>2, <1>3 DEF UpdateInv

\* The asset of the release is one of its assets, and for this system.
LEMMA AssetOfRelease ==
    \A asset \in Asset : \E i \in DOMAIN release.assets : asset = release.assets[i] /\ asset.ours
BY DEF Asset, FirstOf

\* Nothing changes the executable but its replacement.
LEMMA VerifiedStays ==
    ASSUME OnlyVerified, UNCHANGED <<running, exe>>,
           exe # OwnBinary => UNCHANGED release
    PROVE  OnlyVerified'
<1>1. CASE exe = OwnBinary
  BY <1>1 DEF OnlyVerified, OwnBinary, OwnMode
<1>2. CASE exe # OwnBinary
  BY <1>2 DEF OnlyVerified, OwnBinary, OwnMode
<1>3. QED
  BY <1>1, <1>2

LEMMA FetchInv == ASSUME UpdateInv, FetchRelease PROVE UpdateInv'
<1>1. phase = "fetch" /\ exe = OwnBinary /\ temps = {} /\ UNCHANGED <<running, exe, temps>>
  BY DEF FetchRelease, Goto, UpdateInv, OnDisk, Untouched
<1>2. /\ phase' \in {"ask", "current", "failed"}
      /\ phase' = "ask" => Before(running, release'.tag)
  BY DEF FetchRelease, Goto
<1>3. OnDisk'
  BY <1>1, <1>2 DEF OnDisk, Untouched, Replaced, OwnBinary, OwnMode
<1>4. InHand'
  BY <1>1, <1>2 DEF InHand, Chosen, Before, PartsBefore
<1>5. OnlyVerified'
  BY <1>1, VerifiedStays DEF UpdateInv
<1>6. QED
  BY <1>3, <1>4, <1>5 DEF UpdateInv

\* Steps that only bring the command from one place to another.
LEMMA MoveInv ==
    ASSUME UpdateInv, UNCHANGED <<running, release, archive, payload, exe>>,
           \/ phase = "ask" /\ phase' \in {"select", "cancelled"} /\ temps' = temps
           \/ phase = "select" /\ phase' \in {"download", "failed"} /\ temps' = temps
           \/ phase = "download" /\ phase' = "receive"
           \/ phase = "install" /\ phase' = "copy"
           \/ phase = "report" /\ phase' = "updated" /\ temps' = {}
           \/ phase' = "killed"
    PROVE  UpdateInv'
<1>1. OnDisk'
  BY DEF UpdateInv, OnDisk, Untouched, Replaced, OwnBinary, OwnMode, Over
<1>2. InHand'
  <2>1. phase' \in Chosen => Before(running, release.tag)'
    BY DEF UpdateInv, InHand, Chosen, Before, PartsBefore
  <2>2. phase' # "extract"
    OBVIOUS
  <2>3. phase' \in {"install", "copy"} => phase = "install" /\ UNCHANGED <<release, payload>>
    OBVIOUS
  <2>4. QED
    BY <2>1, <2>2, <2>3 DEF UpdateInv, InHand, FirstOfDigest
<1>3. OnlyVerified'
  BY VerifiedStays DEF UpdateInv
<1>4. QED
  BY <1>1, <1>2, <1>3 DEF UpdateInv

LEMMA DownloadInv == ASSUME UpdateInv, Download PROVE UpdateInv'
<1>1. phase = "receive" /\ exe = OwnBinary /\ UNCHANGED <<running, release, exe>>
  BY DEF Download, UpdateInv, OnDisk, Untouched
<1>2. OnlyVerified'
  BY <1>1, VerifiedStays DEF UpdateInv
<1>3. Before(running, release.tag)'
  BY <1>1 DEF UpdateInv, InHand, Chosen, Before, PartsBefore
<1>4. CASE Cleanup("failed")
  <2>1. OnDisk' /\ InHand'
    BY <1>1, <1>3, <1>4 DEF Cleanup, OnDisk, InHand, Untouched, Replaced, Chosen, OwnBinary, OwnMode
  <2>2. QED
    BY <1>2, <2>1 DEF UpdateInv
<1>5. ASSUME NEW bytes \in Archives, DigestHolds(bytes), archive' = bytes,
             Goto(IF bytes.format = "plain" THEN "install" ELSE "extract"),
             payload' = IF bytes.format = "plain" THEN [bytes |-> bytes.members[1].bytes, mode |-> "private"]
                        ELSE NoBinary
      PROVE  OnDisk' /\ InHand'
  <2>1. phase' = IF bytes.format = "plain" THEN "install" ELSE "extract"
    BY <1>5 DEF Goto
  <2>2. OnDisk'
    BY <1>1, <2>1 DEF OnDisk, Untouched, Replaced, Over, OwnBinary, OwnMode
  <2>3. Asset' = Asset
    BY <1>1 DEF Asset
  <2>4. DigestHolds(archive)'
    BY <1>5, <2>3 DEF DigestHolds
  <2>5. ASSUME bytes.format = "plain"
        PROVE  /\ payload' = [bytes |-> bytes.members[1].bytes, mode |-> "private"]
               /\ payload'.bytes # "own" /\ FirstOfDigest(payload.bytes)'
    <3>1. /\ 1 \in DOMAIN bytes.members /\ bytes.members[1].named
          /\ bytes.members[1].bytes # "own"
      BY <2>5, SelfUpdateAssumption
    <3>2. PICK i \in DOMAIN release.assets : bytes = release.assets[i].digest /\ release.assets[i].ours
      BY <1>5, AssetOfRelease DEF DigestHolds
    <3>3. payload' = [bytes |-> bytes.members[1].bytes, mode |-> "private"]
      BY <1>5, <2>5
    <3>4. FirstOfDigest(payload.bytes)'
      BY <1>1, <3>1, <3>2, <3>3 DEF FirstOfDigest
    <3>5. QED
      BY <3>1, <3>3, <3>4
  <2>6. InHand'
    BY <1>3, <1>5, <2>1, <2>4, <2>5 DEF InHand, Chosen
  <2>7. QED
    BY <2>2, <2>6
<1>6. QED
  BY <1>2, <1>4, <1>5 DEF Download, UpdateInv

LEMMA ExtractInv == ASSUME UpdateInv, Extract PROVE UpdateInv'
<1>1. /\ phase = "extract" /\ exe = OwnBinary /\ UNCHANGED <<running, release, archive, exe>>
      /\ archive \in Archives /\ DigestHolds(archive)
  BY DEF Extract, UpdateInv, OnDisk, InHand, Untouched
<1>2. OnlyVerified'
  BY <1>1, VerifiedStays DEF UpdateInv
<1>3. Before(running, release.tag)'
  BY <1>1 DEF UpdateInv, InHand, Chosen, Before, PartsBefore
<1>4. CASE Cleanup("failed")
  <2>1. OnDisk' /\ InHand'
    BY <1>1, <1>3, <1>4 DEF Cleanup, OnDisk, InHand, Untouched, Replaced, Chosen, OwnBinary, OwnMode
  <2>2. QED
    BY <1>2, <2>1 DEF UpdateInv
<1>5. ASSUME phase' = "install",
             NEW binary \in Binary, payload' = [bytes |-> binary.bytes, mode |-> binary.mode]
      PROVE  OnDisk' /\ InHand'
  <2>1. OnDisk'
    BY <1>1, <1>5 DEF OnDisk, Untouched, Replaced, Over, OwnBinary, OwnMode
  <2>2. PICK k \in DOMAIN archive.members :
           /\ binary = archive.members[k] /\ Ours(archive.members[k])
           /\ \A i \in DOMAIN archive.members : Ours(archive.members[i]) => k <= i
    BY <1>5 DEF Binary, FirstOf
  <2>3. DOMAIN archive.members = 1 .. Len(archive.members) /\ Len(archive.members) \in Nat
    BY <1>1, SelfUpdateAssumption
  <2>4. \A j \in 1 .. k - 1 : ~Ours(archive.members[j])
    BY <2>2, <2>3
  <2>5. \A j \in 1 .. k - 1 : ~(archive.members[j].named /\ archive.members[j].kind = "file")
    BY <2>4 DEF Ours
  <2>6. binary.bytes # "own" /\ archive.members[k].named
    BY <1>1, <2>2, SelfUpdateAssumption DEF Ours
  <2>7. PICK i \in DOMAIN release.assets : archive = release.assets[i].digest /\ release.assets[i].ours
    BY <1>1, AssetOfRelease, SMTT(60) DEF DigestHolds
  <2>8. FirstOfDigest(payload.bytes)'
    BY <1>1, <1>5, <2>2, <2>5, <2>6, <2>7 DEF FirstOfDigest
  <2>9. payload' \in [bytes : {payload'.bytes}, mode : {payload'.mode}] /\ payload'.bytes # "own"
    BY <1>5, <2>6
  <2>10. QED
    BY <1>3, <1>5, <2>1, <2>8, <2>9 DEF InHand
<1>6. QED
  BY <1>2, <1>4, <1>5 DEF Extract, UpdateInv

LEMMA ReplaceInv == ASSUME UpdateInv, Replace PROVE UpdateInv'
<1>1. /\ phase = "copy" /\ exe = OwnBinary /\ UNCHANGED <<running, release, archive, payload>>
      /\ payload \in [bytes : {payload.bytes}, mode : {payload.mode}]
      /\ payload.bytes # "own" /\ FirstOfDigest(payload.bytes) /\ Before(running, release.tag)
  BY DEF Replace, UpdateInv, OnDisk, InHand, Untouched, Chosen
<1>2. CASE Cleanup("failed") /\ UNCHANGED exe
  <2>1. OnDisk' /\ InHand'
    BY <1>1, <1>2 DEF Cleanup, OnDisk, InHand, Untouched, Replaced, Chosen, OwnBinary, OwnMode
  <2>2. OnlyVerified'
    BY <1>1, <1>2, VerifiedStays DEF UpdateInv
  <2>3. QED
    BY <2>1, <2>2 DEF UpdateInv
<1>3. CASE phase' = "report" /\ exe' = [payload EXCEPT !.mode = OwnMode]
  <2>1. exe'.bytes = payload.bytes /\ exe'.mode = OwnMode /\ exe' # OwnBinary
    BY <1>1, <1>3 DEF OwnBinary
  <2>2. OnDisk' /\ InHand'
    BY <1>3, <2>1 DEF OnDisk, InHand, Untouched, Replaced, Chosen, Over, OwnBinary, OwnMode
  <2>3. running.parts # release.tag.parts => PartsBefore(running.parts, release.tag.parts)
    BY <1>1, SMTT(60) DEF Before
  <2>4. OnlyVerified'
    BY <1>1, <2>1, <2>3 DEF OnlyVerified, FirstOfDigest, OwnMode, PartsBefore
  <2>5. QED
    BY <2>2, <2>4 DEF UpdateInv
<1>4. QED
  BY <1>2, <1>3 DEF Replace

LEMMA UpdateNextInv == UpdateInv /\ [UpdateNext]_updateVars => UpdateInv'
<1> SUFFICES ASSUME UpdateInv, [UpdateNext]_updateVars PROVE UpdateInv'
  OBVIOUS
<1>1. CASE FetchRelease
  BY <1>1, FetchInv
<1>2. CASE Confirm
  BY <1>2, MoveInv DEF Confirm, Goto
<1>3. CASE SelectAsset
  BY <1>3, MoveInv DEF SelectAsset, Goto
<1>4. CASE CreateDownload
  BY <1>4, MoveInv DEF CreateDownload
<1>5. CASE Download
  BY <1>5, DownloadInv
<1>6. CASE Extract
  BY <1>6, ExtractInv
<1>7. CASE CreateCopy
  BY <1>7, MoveInv DEF CreateCopy
<1>8. CASE Replace
  BY <1>8, ReplaceInv
<1>9. CASE Report
  BY <1>9, MoveInv DEF Report, Cleanup
<1>10. CASE Kill
  BY <1>10, MoveInv DEF Kill
<1>11. CASE UNCHANGED updateVars
  <2>1. UNCHANGED <<phase, running, release, archive, payload, temps, exe>>
    BY <1>11 DEF updateVars
  <2>2. OnDisk'
    BY <2>1 DEF UpdateInv, OnDisk, OwnBinary, OwnMode
  <2>3. InHand'
    BY <2>1 DEF UpdateInv, InHand, Before, PartsBefore, DigestHolds, Asset, FirstOfDigest
  <2>4. OnlyVerified'
    BY <2>1, VerifiedStays DEF UpdateInv
  <2>5. QED
    BY <2>2, <2>3, <2>4 DEF UpdateInv
<1>12. QED
  BY <1>1, <1>2, <1>3, <1>4, <1>5, <1>6, <1>7, <1>8, <1>9, <1>10, <1>11 DEF UpdateNext

\* Whatever a release holds and wherever the update fails: the executable is the one that
\* ran or the verified binary of a later release, and no temporary file stays unless the
\* update was killed.
THEOREM VerifiedUpdates == UpdateSpec => []UpdateWhole
<1>1. UpdateSpec => []UpdateInv
  BY UpdateInitInv, UpdateNextInv, PTL DEF UpdateSpec
<1>2. QED
  BY <1>1, UpdateInvEnough, PTL

-----------------------------------------------------------------------------
(* The codegen command *)

\* A project that some run may find.
Known(p) == \E q \in Projects : p = q \/ p \in Edits(q)

\* What the steps of a run, from its first write on, leave for the later ones.
AfterMain == {"skill", "clear", "place", "bundle", "tidy", "done"}

AfterModules == {"main"} \cup AfterMain

Accepting == {"modules"} \cup AfterModules

\* The Skill that this run is to leave.
ThisSkill == [run |-> runs, files |-> SkillOf(project.include, Generated)]

Shapes ==
    /\ runs \in Nat
    /\ disk = [modules |-> disk.modules, workflows |-> disk.workflows, main |-> disk.main,
               skill |-> disk.skill, bundle |-> disk.bundle]
    /\ disk.modules \in [Sources -> Int]

\* What the run has read and compiled.
Read ==
    /\ runs # 0 => Known(project)
    /\ pc \in Accepting => Known(project) /\ built = Compiled(project) /\ Accepted(built) /\ SkillOutput(project)

\* What it has written before the Skill.
CodeWritten ==
    /\ pc = "modules" =>
         /\ written \in 0 .. Len(built.modules)
         /\ \A i \in 1 .. written : disk.modules[built.modules[i].source] = runs
    /\ pc \in AfterModules =>
         /\ \A s \in ModulesOf(built) : disk.modules[s] = runs
         /\ disk.workflows = IF project.workflows # <<>> THEN runs ELSE Gone
    /\ pc \in AfterMain => disk.main = MainFile

\* The Skill, from its staging to its bundle: a directory is removed only if it is owned.
SkillWritten ==
    /\ pc \in {"clear", "place"} =>
         /\ temp = ThisSkill /\ PolicyHolds(project.include, Generated)
         /\ pc = "clear" => Owned(disk.skill)
         /\ pc = "place" => disk.skill = NoFiles
    /\ pc \in {"bundle", "tidy", "done"} /\ project.skill =>
         disk.skill = ThisSkill /\ PolicyHolds(project.include, Generated)
    /\ pc \in {"tidy", "done"} =>
         disk.bundle = IF project.bundle THEN [run |-> runs, files |-> Visible(disk.skill.files)] ELSE NoFiles

CodegenInv == Shapes /\ Read /\ CodeWritten /\ SkillWritten

-----------------------------------------------------------------------------
(* The files of a Skill *)

LEMMA DefaultNeverReplaces == \A rel : DefaultAction(rel) # "replace"
<1> SUFFICES ASSUME NEW rel PROVE DefaultAction(rel) # "replace"
  OBVIOUS
<1>1. CASE rel = SkillMD \/ rel.dir \in {"references", "references/modules"}
  BY <1>1, Zenon DEF DefaultAction
<1>2. CASE ~(rel = SkillMD \/ rel.dir \in {"references", "references/modules"})
  BY <1>2, Zenon DEF DefaultAction
<1>3. QED
  BY <1>1, <1>2

LEMMA OwnerReserved == ~Includable(Owner)
BY Zenon DEF Includable

\* Under a policy that holds, nothing takes the place of the owner file, of a file of the
\* include directory, or of a file of codegen that the policy does not name.
LEMMA SkillComplete ==
    ASSUME NEW include, NEW generated, PolicyHolds(include, generated), Owner \in generated
    PROVE  /\ Owner \in DOMAIN SkillOf(include, generated)
           /\ \A rel \in include.present : "include" \in SkillOf(include, generated)[rel]
           /\ \A rel \in generated :
                rel \notin DOMAIN include.actions => "codegen" \in SkillOf(include, generated)[rel]
<1>1. Owner \notin DOMAIN include.actions
  BY OwnerReserved DEF PolicyHolds
<1>2. \A rel \in generated : rel \notin DOMAIN include.actions => ActionOf(include, rel) # "replace"
  BY DefaultNeverReplaces DEF ActionOf
<1>3. QED
  BY <1>1, <1>2 DEF SkillOf, Omitted

LEMMA OwnerGenerated == Owner \in Generated
BY DEF Generated, Rendered

-----------------------------------------------------------------------------
LEMMA KnownProjects ==
    ASSUME NEW p, Known(p)
    PROVE  ModulePerSource(p) /\ \A q \in Edits(p) : Known(q)
BY CodegenAssumption DEF Known

LEMMA AcceptedModules ==
    ASSUME Known(project), built = Compiled(project), Accepted(built)
    PROVE  /\ Len(built.modules) \in Nat /\ DOMAIN built.modules = 1 .. Len(built.modules)
           /\ ModulesOf(built) = SourcesOf(project) /\ SourcesOf(project) \subseteq Sources
BY KnownProjects DEF ModulePerSource

LEMMA CodegenInvEnough == CodegenInv => SuccessIsWhole
<1> SUFFICES ASSUME CodegenInv, pc = "done" PROVE SuccessIsWhole
  BY DEF SuccessIsWhole
<1>1. /\ Known(project) /\ built = Compiled(project) /\ Accepted(built) /\ SkillOutput(project)
  BY DEF CodegenInv, Read, Accepting, AfterModules, AfterMain
<1>2. /\ \A s \in ModulesOf(built) : disk.modules[s] = runs
      /\ disk.workflows = IF project.workflows # <<>> THEN runs ELSE Gone
      /\ disk.main = MainFile
  BY DEF CodegenInv, CodeWritten, AfterModules, AfterMain
<1>3. /\ project.skill => disk.skill = ThisSkill /\ PolicyHolds(project.include, Generated)
      /\ disk.bundle = IF project.bundle THEN [run |-> runs, files |-> Visible(disk.skill.files)] ELSE NoFiles
  BY DEF CodegenInv, SkillWritten
<1>4. /\ disk.main.run = runs /\ disk.main.modules = SourcesOf(project)
      /\ \A s \in disk.main.modules : disk.modules[s] = runs
  BY <1>1, <1>2, AcceptedModules DEF MainFile
<1>5. disk.workflows = IF disk.main.workflows THEN runs ELSE Gone
  <2>1. disk.main.workflows = (project.workflows # <<>>)
    BY <1>2 DEF MainFile
  <2>2. QED
    BY <1>2, <2>1
<1>6. ASSUME project.skill
      PROVE  /\ disk.skill.run = runs /\ Owner \in DOMAIN disk.skill.files
             /\ \A rel \in project.include.present : "include" \in disk.skill.files[rel]
             /\ \A rel \in Generated :
                  rel \notin DOMAIN project.include.actions => "codegen" \in disk.skill.files[rel]
  BY <1>3, <1>6, SkillComplete, OwnerGenerated DEF ThisSkill
<1>7. disk.bundle = IF disk.main.bundle THEN [run |-> runs, files |-> Visible(disk.skill.files)] ELSE NoFiles
  <2>1. project.bundle => project.skill
    BY <1>1 DEF SkillOutput
  <2>2. disk.main.bundle = (project.skill /\ project.bundle)
    BY <1>2 DEF MainFile
  <2>3. QED
    BY <1>3, <2>1, <2>2
<1>8. QED
  BY <1>4, <1>5, <1>6, <1>7 DEF SuccessIsWhole

LEMMA CodegenInitInv == CodegenInit => CodegenInv
<1> SUFFICES ASSUME CodegenInit PROVE CodegenInv
  OBVIOUS
<1>1. Shapes
  BY DEF CodegenInit, Shapes, Gone
<1>2. Read /\ CodeWritten /\ SkillWritten
  BY DEF CodegenInit, Read, CodeWritten, SkillWritten, Accepting, AfterModules, AfterMain
<1>3. QED
  BY <1>1, <1>2 DEF CodegenInv

LEMMA CompileInv == ASSUME CodegenInv, Compile PROVE CodegenInv'
<1>1. PICK p \in IF runs = 0 THEN Projects ELSE Edits(project) :
         /\ runs' = runs + 1 /\ project' = p /\ built' = Compiled(p) /\ written' = 0
         /\ pc' = IF SkillOutput(p) /\ Accepted(built') THEN "modules" ELSE "refused"
  BY DEF Compile
<1>2. disk' = disk
  BY DEF Compile
<1>3. Known(p)
  <2>1. CASE runs = 0
    BY <1>1, <2>1 DEF Known
  <2>2. CASE runs # 0
    BY <1>1, <2>2, KnownProjects DEF CodegenInv, Read
  <2>3. QED
    BY <2>1, <2>2
<1>4. Shapes'
  BY <1>1, <1>2 DEF CodegenInv, Shapes
<1>5. Known(project)'
  BY <1>1, <1>3 DEF Known
<1>6. pc' = "modules" => (built = Compiled(project) /\ Accepted(built) /\ SkillOutput(project))'
  BY <1>1 DEF Accepted, SkillOutput
<1>7. Read'
  BY <1>1, <1>5, <1>6 DEF Read, Accepting, AfterModules, AfterMain
<1>8. CodeWritten'
  <2>1. pc' = "modules" => Len(built'.modules) \in Nat
    BY <1>5, <1>6, AcceptedModules, KnownProjects DEF ModulePerSource
  <2>2. QED
    BY <1>1, <2>1 DEF CodeWritten, AfterModules, AfterMain
<1>9. SkillWritten'
  BY <1>1 DEF SkillWritten
<1>10. QED
  BY <1>4, <1>7, <1>8, <1>9 DEF CodegenInv

\* What the run has read holds while it goes on.
LEMMA ReadStays ==
    ASSUME CodegenInv, UNCHANGED <<runs, project, built>>, pc' \in Accepting => pc \in Accepting
    PROVE  Read'
BY DEF CodegenInv, Read, Known, Accepted, SkillOutput

LEMMA WriteModuleInv == ASSUME CodegenInv, WriteModule PROVE CodegenInv'
<1> DEFINE source == built.modules[written + 1].source
<1>1. /\ pc = "modules" /\ pc' = "modules" /\ written < Len(built.modules) /\ written' = written + 1
      /\ disk' = [disk EXCEPT !.modules[source] = runs]
      /\ UNCHANGED <<runs, project, built>>
  BY DEF WriteModule, Step
<1>2. /\ Known(project) /\ built = Compiled(project) /\ Accepted(built)
      /\ written \in 0 .. Len(built.modules)
      /\ \A i \in 1 .. written : disk.modules[built.modules[i].source] = runs
  BY <1>1 DEF CodegenInv, Read, CodeWritten, Accepting
<1>3. Len(built.modules) \in Nat /\ written + 1 \in DOMAIN built.modules /\ source \in Sources
  <2>1. /\ Len(built.modules) \in Nat /\ DOMAIN built.modules = 1 .. Len(built.modules)
        /\ ModulesOf(built) \subseteq Sources
    BY <1>2, AcceptedModules
  <2>2. written + 1 \in 1 .. Len(built.modules)
    BY <1>1, <1>2, <2>1
  <2>3. QED
    BY <2>1, <2>2 DEF ModulesOf
<1> HIDE DEF source
<1>4. /\ runs \in Nat /\ disk.modules \in [Sources -> Int]
      /\ disk = [modules |-> disk.modules, workflows |-> disk.workflows, main |-> disk.main,
                 skill |-> disk.skill, bundle |-> disk.bundle]
  BY DEF CodegenInv, Shapes
<1>5. disk' = [modules |-> [disk.modules EXCEPT ![source] = runs], workflows |-> disk.workflows, main |-> disk.main,
               skill |-> disk.skill, bundle |-> disk.bundle]
  BY <1>1, <1>4
<1>6. disk'.modules = [disk.modules EXCEPT ![source] = runs]
  BY <1>5
<1>7. Shapes'
  <2>1. disk'.modules \in [Sources -> Int]
    <3>1. runs \in Int /\ disk.modules \in [Sources -> Int]
      BY <1>4
    <3>2. ASSUME NEW f \in [Sources -> Int], NEW n \in Int PROVE [f EXCEPT ![source] = n] \in [Sources -> Int]
      BY <3>2
    <3>3. QED
      BY <1>6, <3>1, <3>2
  <2>2. QED
    BY <1>1, <1>4, <1>5, <2>1 DEF Shapes
<1>8. Read'
  BY <1>1, ReadStays
<1>9. CodeWritten'
  <2>1. written' \in 0 .. Len(built'.modules)
    BY <1>1, <1>2, <1>3
  <2>2. ASSUME NEW i \in 1 .. written' PROVE disk'.modules[built'.modules[i].source] = runs'
    <3>1. CASE i = written + 1
      BY <1>1, <1>3, <1>4, <1>6, <3>1 DEF source
    <3>2. CASE i # written + 1
      <4>1. i \in 1 .. written
        BY <1>1, <1>2, <1>3, <3>2
      <4>2. written + 1 \in DOMAIN built.modules /\ i \in DOMAIN built.modules
        BY <1>2, <1>3, <4>1, AcceptedModules
      <4>3. built.modules[i].source \in Sources
        BY <1>2, <4>2, AcceptedModules DEF ModulesOf
      <4>4. QED
        BY <1>1, <1>2, <1>4, <1>6, <4>1, <4>3
    <3>3. QED
      BY <3>1, <3>2
  <2>3. QED
    BY <1>1, <2>1, <2>2 DEF CodeWritten, AfterModules, AfterMain
<1>10. SkillWritten'
  BY <1>1 DEF SkillWritten
<1>11. QED
  BY <1>7, <1>8, <1>9, <1>10 DEF CodegenInv

\* Writing one thing leaves the others on the disk alone.
LEMMA OneWritten ==
    ASSUME Shapes, NEW v
    PROVE  /\ [disk EXCEPT !.workflows = v] = [modules |-> disk.modules, workflows |-> v, main |-> disk.main,
                                               skill |-> disk.skill, bundle |-> disk.bundle]
           /\ [disk EXCEPT !.main = v] = [modules |-> disk.modules, workflows |-> disk.workflows, main |-> v,
                                          skill |-> disk.skill, bundle |-> disk.bundle]
           /\ [disk EXCEPT !.skill = v] = [modules |-> disk.modules, workflows |-> disk.workflows, main |-> disk.main,
                                           skill |-> v, bundle |-> disk.bundle]
           /\ [disk EXCEPT !.bundle = v] = [modules |-> disk.modules, workflows |-> disk.workflows, main |-> disk.main,
                                            skill |-> disk.skill, bundle |-> v]
<1>1. disk = [modules |-> disk.modules, workflows |-> disk.workflows, main |-> disk.main,
              skill |-> disk.skill, bundle |-> disk.bundle]
  BY DEF Shapes
<1>2. QED
  BY <1>1

LEMMA WriteWorkflowsInv == ASSUME CodegenInv, WriteWorkflows PROVE CodegenInv'
<1> DEFINE v == IF project.workflows # <<>> THEN runs ELSE Gone
<1>1. /\ pc = "modules" /\ pc' = "main" /\ written = Len(built.modules)
      /\ disk' = [disk EXCEPT !.workflows = v]
      /\ UNCHANGED <<runs, project, built, temp>>
  BY DEF WriteWorkflows, Step
<1>2. /\ Known(project) /\ built = Compiled(project) /\ Accepted(built)
      /\ \A i \in 1 .. written : disk.modules[built.modules[i].source] = runs
  BY <1>1 DEF CodegenInv, Read, CodeWritten, Accepting
<1>3. \A s \in ModulesOf(built) : disk.modules[s] = runs
  BY <1>1, <1>2, AcceptedModules DEF ModulesOf
<1> HIDE DEF v
<1>4. disk' = [modules |-> disk.modules, workflows |-> v, main |-> disk.main,
               skill |-> disk.skill, bundle |-> disk.bundle]
  BY <1>1, OneWritten DEF CodegenInv
<1>5. Shapes'
  BY <1>1, <1>4 DEF CodegenInv, Shapes
<1>6. Read'
  BY <1>1, ReadStays DEF Accepting
<1>7. CodeWritten'
  BY <1>1, <1>3, <1>4 DEF CodeWritten, AfterModules, AfterMain, ModulesOf, v
<1>8. SkillWritten'
  BY <1>1 DEF SkillWritten
<1>9. QED
  BY <1>5, <1>6, <1>7, <1>8 DEF CodegenInv

LEMMA WriteMainInv == ASSUME CodegenInv, WriteMain PROVE CodegenInv'
<1>1. /\ pc = "main" /\ pc' = IF project.skill THEN "skill" ELSE "bundle"
      /\ disk' = [disk EXCEPT !.main = MainFile]
      /\ UNCHANGED <<runs, project, built, temp>>
  BY DEF WriteMain, Step
<1>2. disk' = [modules |-> disk.modules, workflows |-> disk.workflows, main |-> MainFile,
               skill |-> disk.skill, bundle |-> disk.bundle]
  BY <1>1, OneWritten DEF CodegenInv
<1>3. MainFile' = MainFile /\ ModulesOf(built)' = ModulesOf(built)
  BY <1>1 DEF MainFile, ModulesOf
<1>4. Shapes'
  BY <1>1, <1>2 DEF CodegenInv, Shapes
<1>5. Read'
  BY <1>1, ReadStays DEF Accepting, AfterModules, AfterMain
<1>6. CodeWritten'
  <2>1. /\ \A s \in ModulesOf(built) : disk.modules[s] = runs
        /\ disk.workflows = IF project.workflows # <<>> THEN runs ELSE Gone
    BY <1>1 DEF CodegenInv, CodeWritten, AfterModules
  <2>2. disk'.modules = disk.modules /\ disk'.workflows = disk.workflows /\ disk'.main = MainFile
    BY <1>2
  <2>3. pc' # "modules"
    BY <1>1
  <2>4. QED
    BY <1>1, <1>3, <2>1, <2>2, <2>3 DEF CodeWritten
<1>7. SkillWritten'
  BY <1>1 DEF SkillWritten
<1>8. QED
  BY <1>4, <1>5, <1>6, <1>7 DEF CodegenInv

\* The code of the run stays as it is while the Skill and the bundle are written.
LEMMA CodeStays ==
    ASSUME CodegenInv, pc \in AfterMain, pc' \notin {"modules", "main"}, UNCHANGED <<runs, project, built>>,
           disk'.modules = disk.modules, disk'.workflows = disk.workflows, disk'.main = disk.main
    PROVE  CodeWritten'
<1>1. /\ \A s \in ModulesOf(built) : disk.modules[s] = runs
      /\ disk.workflows = IF project.workflows # <<>> THEN runs ELSE Gone
      /\ disk.main = MainFile
  BY DEF CodegenInv, CodeWritten, AfterModules
<1>2. MainFile' = MainFile /\ ModulesOf(built)' = ModulesOf(built)
  BY DEF MainFile, ModulesOf
<1>3. QED
  BY <1>1, <1>2 DEF CodeWritten

LEMMA SameSkill ==
    ASSUME UNCHANGED <<runs, project>>
    PROVE  ThisSkill' = ThisSkill /\ Generated' = Generated
BY DEF ThisSkill, Generated

LEMMA StageSkillInv == ASSUME CodegenInv, StageSkill PROVE CodegenInv'
<1>1. /\ pc = "skill" /\ pc' \in {"clear", "refused"} /\ UNCHANGED <<runs, project, built, written, disk>>
      /\ pc' = "clear" => /\ Owned(disk.skill) /\ PolicyHolds(project.include, Generated)
                          /\ temp' = ThisSkill
  BY DEF StageSkill, ThisSkill
<1>2. Shapes'
  BY <1>1 DEF CodegenInv, Shapes
<1>3. Read'
  BY <1>1, ReadStays DEF Accepting, AfterModules, AfterMain
<1>4. CodeWritten'
  BY <1>1, CodeStays DEF AfterMain
<1>5. SkillWritten'
  BY <1>1, SameSkill DEF SkillWritten, Owned
<1>6. QED
  BY <1>2, <1>3, <1>4, <1>5 DEF CodegenInv

LEMMA ClearSkillInv == ASSUME CodegenInv, ClearSkill PROVE CodegenInv'
<1>1. /\ pc = "clear" /\ pc' = "place" /\ UNCHANGED <<runs, project, built, temp>>
      /\ disk' = [modules |-> disk.modules, workflows |-> disk.workflows, main |-> disk.main,
                  skill |-> NoFiles, bundle |-> disk.bundle]
  BY OneWritten DEF ClearSkill, Step, CodegenInv
<1>2. Shapes'
  BY <1>1 DEF CodegenInv, Shapes
<1>3. Read'
  BY <1>1, ReadStays DEF Accepting, AfterModules, AfterMain
<1>4. CodeWritten'
  BY <1>1, CodeStays DEF AfterMain
<1>5. SkillWritten'
  BY <1>1, SameSkill DEF CodegenInv, SkillWritten
<1>6. QED
  BY <1>2, <1>3, <1>4, <1>5 DEF CodegenInv

LEMMA PlaceSkillInv == ASSUME CodegenInv, PlaceSkill PROVE CodegenInv'
<1>1. /\ pc = "place" /\ pc' = "bundle" /\ UNCHANGED <<runs, project, built>>
      /\ disk' = [modules |-> disk.modules, workflows |-> disk.workflows, main |-> disk.main,
                  skill |-> temp, bundle |-> disk.bundle]
  BY OneWritten DEF PlaceSkill, Step, CodegenInv
<1>2. Shapes'
  BY <1>1 DEF CodegenInv, Shapes
<1>3. Read'
  BY <1>1, ReadStays DEF Accepting, AfterModules, AfterMain
<1>4. CodeWritten'
  BY <1>1, CodeStays DEF AfterMain
<1>5. SkillWritten'
  BY <1>1, SameSkill DEF CodegenInv, SkillWritten
<1>6. QED
  BY <1>2, <1>3, <1>4, <1>5 DEF CodegenInv

LEMMA WriteBundleInv == ASSUME CodegenInv, WriteBundle PROVE CodegenInv'
<1> DEFINE v == IF project.bundle THEN [run |-> runs, files |-> Visible(disk.skill.files)] ELSE NoFiles
<1>1. /\ pc = "bundle" /\ pc' \in {"tidy", "done"} /\ UNCHANGED <<runs, project, built, temp>>
      /\ disk' = [disk EXCEPT !.bundle = v]
  BY DEF WriteBundle, Step
<1> HIDE DEF v
<1>2. disk' = [modules |-> disk.modules, workflows |-> disk.workflows, main |-> disk.main,
               skill |-> disk.skill, bundle |-> v]
  BY <1>1, OneWritten DEF CodegenInv
<1>3. Shapes'
  BY <1>1, <1>2 DEF CodegenInv, Shapes
<1>4. Read'
  BY <1>1, ReadStays DEF Accepting, AfterModules, AfterMain
<1>5. CodeWritten'
  BY <1>1, <1>2, CodeStays DEF AfterMain
<1>6. SkillWritten'
  <2>1. disk'.skill = disk.skill /\ disk'.bundle = v
    BY <1>2
  <2>2. QED
    BY <1>1, <2>1, SameSkill DEF CodegenInv, SkillWritten, v
<1>7. QED
  BY <1>3, <1>4, <1>5, <1>6 DEF CodegenInv

LEMMA TidyInv == ASSUME CodegenInv, Tidy PROVE CodegenInv'
<1>1. pc = "tidy" /\ pc' = "done" /\ UNCHANGED <<runs, project, built, temp, disk>>
  BY DEF Tidy, Step
<1>2. Shapes'
  BY <1>1 DEF CodegenInv, Shapes
<1>3. Read'
  BY <1>1, ReadStays DEF Accepting, AfterModules, AfterMain
<1>4. CodeWritten'
  BY <1>1, CodeStays DEF AfterMain
<1>5. SkillWritten'
  BY <1>1, SameSkill DEF CodegenInv, SkillWritten
<1>6. QED
  BY <1>2, <1>3, <1>4, <1>5 DEF CodegenInv

\* An operation that ends half-way leaves the Skill alone unless it removes it, and leaves
\* a disk that the next run can work on.
LEMMA HalfWaySound ==
    ASSUME CodegenInv, NEW tree \in {disk} \cup HalfWay
    PROVE  /\ tree = [modules |-> tree.modules, workflows |-> tree.workflows, main |-> tree.main,
                      skill |-> tree.skill, bundle |-> tree.bundle]
           /\ tree.modules \in [Sources -> Int]
           /\ pc # "clear" => tree.skill = disk.skill
<1>1. /\ disk.modules \in [Sources -> Int]
      /\ disk = [modules |-> disk.modules, workflows |-> disk.workflows, main |-> disk.main,
                 skill |-> disk.skill, bundle |-> disk.bundle]
  BY DEF CodegenInv, Shapes
<1>2. CASE tree = disk
  BY <1>1, <1>2
<1>3. CASE tree \in HalfWay /\ pc = "modules" /\ written < Len(built.modules)
  <2> DEFINE source == built.modules[written + 1].source
  <2>1. tree = [disk EXCEPT !.modules[source] = Torn]
    BY <1>3 DEF HalfWay
  <2> HIDE DEF source
  <2>2. tree = [modules |-> [disk.modules EXCEPT ![source] = Torn], workflows |-> disk.workflows, main |-> disk.main,
                skill |-> disk.skill, bundle |-> disk.bundle]
    BY <1>1, <2>1
  <2>3. tree.modules \in [Sources -> Int]
    <3>1. ASSUME NEW f \in [Sources -> Int], NEW n \in Int PROVE [f EXCEPT ![source] = n] \in [Sources -> Int]
      BY <3>1
    <3>2. Torn \in Int
      BY DEF Torn
    <3>3. QED
      BY <1>1, <2>2, <3>1, <3>2
  <2>4. QED
    BY <2>2, <2>3
<1>4. CASE tree \in HalfWay /\ pc = "modules" /\ written = Len(built.modules)
  <2>1. written \in 0 .. Len(built.modules)
    BY <1>4 DEF CodegenInv, CodeWritten
  <2>2. ~(written < Len(built.modules))
    BY <1>4, <2>1
  <2>3. tree = [disk EXCEPT !.workflows = Torn]
    BY <1>4, <2>2 DEF HalfWay
  <2>4. QED
    BY <1>1, <1>4, <2>3
<1>5. CASE tree \in HalfWay /\ pc = "main"
  <2>1. PICK v : tree = [disk EXCEPT !.main = v]
    <3>1. tree = [disk EXCEPT !.main = [@ EXCEPT !.run = Torn]]
      BY <1>5 DEF HalfWay
    <3>2. tree = [disk EXCEPT !.main = [disk.main EXCEPT !.run = Torn]]
      BY <3>1
    <3>3. QED
      BY <3>2
  <2>2. QED
    BY <1>1, <1>5, <2>1
<1>6. CASE tree \in HalfWay /\ pc = "clear"
  <2>1. PICK rest : tree = [disk EXCEPT !.skill.files = Restrict(@, rest)]
    BY <1>6 DEF HalfWay
  <2>2. tree = [disk EXCEPT !.skill = [disk.skill EXCEPT !.files = Restrict(disk.skill.files, rest)]]
    BY <2>1
  <2>3. QED
    BY <1>1, <1>6, <2>2
<1>7. CASE tree \in HalfWay /\ pc = "bundle"
  <2>1. tree = [disk EXCEPT !.bundle = [run |-> Torn, files |-> <<>>]]
    BY <1>7 DEF HalfWay
  <2>2. QED
    BY <1>1, <1>7, <2>1
<1>8. CASE tree \in HalfWay /\ ~(pc = "modules" /\ (written < Len(built.modules) \/ written = Len(built.modules)))
           /\ pc \notin {"main", "clear", "bundle"}
  <2>1. HalfWay = {}
    BY <1>8 DEF HalfWay
  <2>2. QED
    BY <1>8, <2>1
<1>9. QED
  BY <1>2, <1>3, <1>4, <1>5, <1>6, <1>7, <1>8

LEMMA BreaksOffInv ==
    ASSUME CodegenInv, disk' \in {disk} \cup HalfWay, pc' \in {"failed", "crashed"}, UNCHANGED <<runs, project, built>>
    PROVE  CodegenInv'
<1>1. Shapes'
  BY HalfWaySound DEF CodegenInv, Shapes
<1>2. Read'
  BY ReadStays DEF Accepting, AfterModules, AfterMain
<1>3. CodeWritten' /\ SkillWritten'
  BY DEF CodeWritten, SkillWritten, AfterModules, AfterMain
<1>4. QED
  BY <1>1, <1>2, <1>3 DEF CodegenInv

LEMMA CodegenNextInv == CodegenInv /\ [CodegenNext]_codegenVars => CodegenInv'
<1> SUFFICES ASSUME CodegenInv, [CodegenNext]_codegenVars PROVE CodegenInv'
  OBVIOUS
<1>1. CASE Compile
  BY <1>1, CompileInv
<1>2. CASE WriteModule
  BY <1>2, WriteModuleInv
<1>3. CASE WriteWorkflows
  BY <1>3, WriteWorkflowsInv
<1>4. CASE WriteMain
  BY <1>4, WriteMainInv
<1>5. CASE StageSkill
  BY <1>5, StageSkillInv
<1>6. CASE ClearSkill
  BY <1>6, ClearSkillInv
<1>7. CASE PlaceSkill
  BY <1>7, PlaceSkillInv
<1>8. CASE WriteBundle
  BY <1>8, WriteBundleInv
<1>9. CASE Tidy
  BY <1>9, TidyInv
<1>10. CASE WriteFails
  BY <1>10, BreaksOffInv DEF WriteFails
<1>11. CASE Crash
  BY <1>11, BreaksOffInv DEF Crash
<1>12. CASE UNCHANGED codegenVars
  <2>1. UNCHANGED <<runs, project, built, pc, written, disk, temp, faults>>
    BY <1>12 DEF codegenVars
  <2>2. Shapes'
    BY <2>1 DEF CodegenInv, Shapes
  <2>3. Read'
    BY <2>1, ReadStays
  <2>4. CodeWritten'
    BY <2>1 DEF CodegenInv, CodeWritten, ModulesOf, MainFile
  <2>5. SkillWritten'
    BY <2>1, SameSkill DEF CodegenInv, SkillWritten, Owned
  <2>6. QED
    BY <2>2, <2>3, <2>4, <2>5 DEF CodegenInv
<1>13. QED
  BY <1>1, <1>2, <1>3, <1>4, <1>5, <1>6, <1>7, <1>8, <1>9, <1>10, <1>11, <1>12 DEF CodegenNext

\* A run that ends well leaves all it was to generate, whatever failed before it.
THEOREM RunsAreWhole == CodegenSpec => []SuccessIsWhole
<1>1. CodegenSpec => []CodegenInv
  BY CodegenInitInv, CodegenNextInv, PTL DEF CodegenSpec
<1>2. QED
  BY <1>1, CodegenInvEnough, PTL

\* Steps on the Skill directory are steps on a directory of codegen's own.
LEMMA ForeignStep ==
    ASSUME CodegenInv, [CodegenNext]_codegenVars, disk.skill.run # Gone, Owner \notin DOMAIN disk.skill.files
    PROVE  disk'.skill = disk.skill
<1>1. pc # "clear" /\ pc # "place"
  BY DEF CodegenInv, SkillWritten, Owned, NoFiles
<1>2. disk = [modules |-> disk.modules, workflows |-> disk.workflows, main |-> disk.main,
              skill |-> disk.skill, bundle |-> disk.bundle]
  BY DEF CodegenInv, Shapes
<1>3. CASE Compile \/ StageSkill \/ Tidy
  BY <1>3 DEF Compile, StageSkill, Tidy, Step
<1>4. CASE WriteModule
  <2>1. disk' = [disk EXCEPT !.modules[built.modules[written + 1].source] = runs]
    BY <1>4 DEF WriteModule, Step
  <2>2. QED
    BY <1>2, <2>1
<1>5. CASE WriteWorkflows \/ WriteMain \/ WriteBundle
  <2>1. PICK v : \/ disk' = [disk EXCEPT !.workflows = v]
                 \/ disk' = [disk EXCEPT !.main = v]
                 \/ disk' = [disk EXCEPT !.bundle = v]
    BY <1>5 DEF WriteWorkflows, WriteMain, WriteBundle, Step
  <2>2. QED
    BY <1>2, <2>1
<1>6. CASE ClearSkill \/ PlaceSkill
  BY <1>1, <1>6 DEF ClearSkill, PlaceSkill, Step
<1>7. CASE WriteFails \/ Crash
  BY <1>1, <1>7, HalfWaySound DEF WriteFails, Crash
<1>8. CASE UNCHANGED codegenVars
  BY <1>8 DEF codegenVars
<1>9. QED
  BY <1>3, <1>4, <1>5, <1>6, <1>7, <1>8 DEF CodegenNext

\* A directory that codegen cannot tell to be its own stays as it is, in every run and
\* whatever fails in it.
THEOREM ForeignSkillsKept == CodegenSpec => ForeignKept
<1>1. CodegenSpec => []CodegenInv
  BY CodegenInitInv, CodegenNextInv, PTL DEF CodegenSpec
<1>2. CodegenInv /\ [CodegenNext]_codegenVars =>
        [disk.skill.run # Gone /\ Owner \notin DOMAIN disk.skill.files => disk'.skill = disk.skill]_codegenVars
  BY ForeignStep
<1>3. QED
  BY <1>1, <1>2, PTL DEF CodegenSpec, ForeignKept

-----------------------------------------------------------------------------
(* What codegen accepts: a few facts to count with *)

LEMMA Least ==
    ASSUME NEW T, T \subseteq Nat, T # {}
    PROVE  \E x \in T : \A y \in T : x <= y
<1> DEFINE R == OpToRel(<, Nat)
<1>1. IsWellFoundedOn(R, Nat)
  BY NatLessThanWellFounded
<1>2. \E x \in T : \A y \in T : ~ (<<y, x>> \in R)
  BY <1>1, WFMin
<1>3. PICK x \in T : \A y \in T : ~ (<<y, x>> \in R)
  BY <1>2
<1>4. ASSUME NEW y \in T PROVE x <= y
  <2>1. ~ (<<y, x>> \in R)
    BY <1>3
  <2>2. ~ (y < x)
    BY <2>1 DEF OpToRel
  <2> QED
    BY <2>2
<1> QED
  BY <1>4

\* What holds at 0 and goes on from each position to the next holds up to n.
LEMMA Climb ==
    ASSUME NEW n \in Nat, NEW S, 0 \in S, \A k \in 0 .. n : (k < n /\ k \in S) => k + 1 \in S
    PROVE  \A k \in 0 .. n : k \in S
<1> DEFINE T == {k \in 0 .. n : k \notin S}
<1> SUFFICES ASSUME T # {} PROVE FALSE
  OBVIOUS
<1>0. T \subseteq Nat
  OBVIOUS
<1>1. PICK x \in T : \A y \in T : x <= y
  <2> HIDE DEF T
  <2> QED
    BY <1>0, Least
<1>2. x # 0 /\ x - 1 \in 0 .. n /\ x - 1 \notin T
  BY <1>1
<1>3. x - 1 + 1 \in S
  BY <1>2, <1>1
<1> QED
  BY <1>3, <1>1

-----------------------------------------------------------------------------
(* The names of commands *)

\* What codegen has accepted of each source, and of the workflows.
LEMMA AcceptedApp ==
    ASSUME NEW p, GeneratedApp(p).refused = ""
    PROVE  /\ GeneratedApp(p).modules = [i \in DOMAIN p.sources |-> Module(p, i)]
           /\ \A i \in DOMAIN p.sources : SourceHolds(p, i)
           /\ WorkflowRoots(p.workflows, GeneratedApp(p).modules)
           /\ ValidateModuleNames(p.workflows, GeneratedApp(p).modules)
BY DEF GeneratedApp, ValidateApp

LEMMA ModuleIs ==
    ASSUME NEW p, NEW i
    PROVE  /\ Module(p, i).cli = p.sources[i].display
           /\ Module(p, i).specs = Merged(p.sources[i])
           /\ Module(p, i).flat = Resolved(p, i).flat
BY DEF Module

LEMMA SourcesListed ==
    ASSUME NEW p, ProjectShaped(p)
    PROVE  Len(p.sources) \in Nat /\ DOMAIN p.sources = 1 .. Len(p.sources) /\ DOMAIN p.sources \subseteq Nat
<1>1. p.sources \in Seq(Range(p.sources))
  BY DEF ProjectShaped, IsSequence
<1>2. Len(p.sources) \in Nat /\ DOMAIN p.sources = 1 .. Len(p.sources)
  BY <1>1
<1> QED
  BY <1>2

LEMMA NotBelow == \A j, k \in Nat : j < k => j # k
OBVIOUS

\* A flat module has no other beside it.
LEMMA FlatAlone ==
    ASSUME NEW p, ProjectShaped(p), NEW i \in DOMAIN p.sources, Resolved(p, i).flat
    PROVE  /\ DOMAIN p.sources = {i} /\ i \in Nat
           /\ ~FlatPathConflict(Merged(p.sources[i]))
<1>1. Len(p.sources) = 1 /\ ~FlatPathConflict(Merged(p.sources[i]))
  BY DEF Resolved, ResolveFlat
<1> QED
  BY <1>1, SourcesListed

\* No word of the CLI's own has capitals.
LEMMA OwnReserved ==
    ASSUME NEW name, name \in {Completion} \cup {<<w>> : w \in OwnWords}
    PROVE  name \in Reserved /\ Folded(name) = name
<1>1. PICK w \in ReservedWords : name = <<w>>
  BY DEF Completion, OwnWords, ReservedWords
<1>2. Lower(w) = w
  BY LowerCaseAssumption DEF Lower
<1>3. DOMAIN name = {1} /\ name[1] = w
  BY <1>1
<1>4. Folded(name) = [i \in {1} |-> Lower(w)]
  BY <1>3 DEF Folded
<1>5. Folded(name) = <<w>>
  BY <1>2, <1>4
<1> QED
  BY <1>1, <1>5 DEF Reserved

\* What the shortcuts of a module that is not flat are kept apart from.
LEMMA ShortcutsApart ==
    ASSUME NEW p, NEW i \in DOMAIN p.sources, SourceHolds(p, i)
    PROVE  LET specs == Merged(p.sources[i])
           IN /\ ValidateCommandPaths(specs)
              /\ ShortcutNames(specs) \cap Reserved = {}
              /\ Resolved(p, i).flat => ShortcutNames(specs) \cap GroupRoots(specs) = {}
              /\ ~Resolved(p, i).flat =>
                    ShortcutNames(specs) \cap (ModuleNames(p) \cup EarlierShortcuts(p, i)) = {}
              /\ \A s, t \in Shortcuts(specs) : s.use = t.use => s = t
              /\ \A k \in DOMAIN specs : \A s \in specs[k].shortcuts : ShortcutHolds(specs[k], s)
<1> DEFINE specs == Merged(p.sources[i])
           roots == IF Resolved(p, i).flat THEN GroupRoots(specs) ELSE ModuleNames(p) \cup EarlierShortcuts(p, i)
<1>1. Resolved(p, i).ok /\ ValidateShortcuts(specs, Reserved \cup roots)
  BY DEF SourceHolds
<1>2. ValidateCommandPaths(specs)
  BY <1>1 DEF Resolved, ResolveFlat
<1> QED
  BY <1>1, <1>2 DEF ValidateShortcuts

\* A module mounts beside those before it, unless a flag of its commands is refused.
LEMMA ModuleMounts ==
    ASSUME NEW p, ProjectShaped(p), GeneratedApp(p).refused = "", NEW k \in DOMAIN p.sources
    PROVE  LET modules == GeneratedApp(p).modules
           IN Build(modules[k], RootsWith(modules, {j \in DOMAIN modules : j < k})) # "names"
<1> DEFINE modules == [i \in DOMAIN p.sources |-> Module(p, i)]
           earlier == {j \in DOMAIN p.sources : j < k}
           roots == RootsWith(modules, earlier)
           specs == Merged(p.sources[k])
<1>1. /\ GeneratedApp(p).modules = modules /\ DOMAIN modules = DOMAIN p.sources
      /\ \A i \in DOMAIN p.sources : SourceHolds(p, i)
      /\ ValidateModuleNames(p.workflows, modules)
  BY AcceptedApp
<1>2. \A i \in DOMAIN p.sources : /\ modules[i].cli = p.sources[i].display
                                  /\ modules[i].specs = Merged(p.sources[i])
                                  /\ modules[i].flat = Resolved(p, i).flat
  BY ModuleIs
<1> HIDE DEF modules
<1>0. DOMAIN p.sources \subseteq Nat
  BY SourcesListed
<1>3. ASSUME modules[k].flat PROVE earlier = {} /\ ~FlatPathConflict(specs)
  <2>1. DOMAIN p.sources = {k} /\ k \in Nat /\ ~FlatPathConflict(specs)
    BY <1>2, <1>3, FlatAlone
  <2>2. ~(k < k)
    BY <2>1, NotBelow
  <2> QED
    BY <2>1, <2>2
<1>4. ASSUME ~modules[k].flat, NEW j \in earlier
      PROVE  j \in DOMAIN p.sources /\ j # k /\ ~modules[j].flat
  <2>1. j \in DOMAIN p.sources /\ j # k
    <3>1. j \in DOMAIN p.sources /\ j < k
      OBVIOUS
    <3>2. j \in Nat /\ k \in Nat
      BY <1>0
    <3> QED
      BY <3>1, <3>2, NotBelow
  <2>2. SUFFICES ASSUME modules[j].flat PROVE FALSE
    BY <2>1
  <2>3. DOMAIN p.sources = {j}
    BY <1>2, <2>1, <2>2, FlatAlone
  <2> QED
    BY <2>1, <2>3
<1>5. roots = {Completion} \cup {<<w>> : w \in OwnWords} \cup UNION {ModuleRoots(modules[j]) : j \in earlier}
  BY DEF RootsWith
\* What comes before a module is the CLI's own, or of a module that has a name of its own.
<1>6. ASSUME NEW name \in roots
      PROVE  \/ name \in Reserved
             \/ ~modules[k].flat /\ \E j \in earlier : \/ name = <<modules[j].cli>>
                                                       \/ name \in ShortcutNames(Merged(p.sources[j]))
  <2>1. CASE name \in {Completion} \cup {<<w>> : w \in OwnWords}
    BY <2>1, OwnReserved
  <2>2. CASE \E j \in earlier : name \in ModuleRoots(modules[j])
    <3>1. PICK j \in earlier : name \in ModuleRoots(modules[j])
      BY <2>2
    <3>2. ~modules[k].flat
      BY <1>3, <3>1
    <3>3. ~modules[j].flat /\ j \in DOMAIN p.sources
      BY <1>4, <3>1, <3>2
    <3> QED
      BY <1>2, <3>1, <3>2, <3>3 DEF ModuleRoots, Planned
  <2> QED
    BY <1>5, <2>1, <2>2
<1>7. /\ ValidateCommandPaths(specs)
      /\ ShortcutNames(specs) \cap Reserved = {}
      /\ modules[k].flat => ShortcutNames(specs) \cap GroupRoots(specs) = {}
      /\ ~modules[k].flat => ShortcutNames(specs) \cap (ModuleNames(p) \cup EarlierShortcuts(p, k)) = {}
      /\ \A s, t \in Shortcuts(specs) : s.use = t.use => s = t
      /\ \A i \in DOMAIN specs : \A s \in specs[i].shortcuts : ShortcutHolds(specs[i], s)
  BY <1>1, <1>2, ShortcutsApart
<1>8. ~modules[k].flat => <<modules[k].cli>> \notin roots
  <2> SUFFICES ASSUME ~modules[k].flat, <<modules[k].cli>> \in roots PROVE FALSE
    OBVIOUS
  <2>1. CASE <<modules[k].cli>> \in Reserved
    <3>1. Root(modules[k].cli) \notin Reserved
      BY <1>1 DEF ValidateModuleNames
    <3>2. modules[k].cli \in ReservedWords
      BY <2>1 DEF Reserved
    <3>3. Lower(modules[k].cli) = modules[k].cli
      BY <3>2, LowerCaseAssumption DEF Lower
    <3> QED
      BY <2>1, <3>1, <3>3 DEF Root
  <2>2. ASSUME NEW j \in earlier, <<modules[k].cli>> = <<modules[j].cli>> PROVE FALSE
    <3>1. Root(modules[j].cli) # Root(modules[k].cli)
      BY <1>1, <1>4 DEF ValidateModuleNames
    <3> QED
      BY <2>2, <3>1 DEF Root
  <2>3. ASSUME NEW j \in earlier, <<modules[k].cli>> \in ShortcutNames(Merged(p.sources[j])) PROVE FALSE
    <3>1. j \in DOMAIN p.sources /\ ~modules[j].flat
      BY <1>4
    <3>2. ShortcutNames(Merged(p.sources[j])) \cap ModuleNames(p) = {}
      BY <1>1, <1>2, <3>1, ShortcutsApart
    <3> QED
      BY <1>2, <2>3, <3>2 DEF ModuleNames
  <2> QED
    BY <1>6, <2>1, <2>2, <2>3
<1>9. ~PathTwice(specs)
  BY <1>7 DEF PathTwice, ValidateCommandPaths
<1>10. modules[k].flat => ~TwoGroupsOfAName(specs) /\ GroupRoots(specs) \cap roots = {}
  BY <1>3, <1>6 DEF FlatPathConflict
<1>11. ValidateShortcuts(specs, roots \cup Planned(modules[k]))
  <2>1. ShortcutNames(specs) \cap Planned(modules[k]) = {}
    <3>1. CASE modules[k].flat
      BY <1>2, <1>7, <3>1 DEF Planned
    <3>2. CASE ~modules[k].flat
      <4>1. <<modules[k].cli>> \in ModuleNames(p)
        BY <1>2 DEF ModuleNames
      <4> QED
        BY <1>7, <3>2, <4>1 DEF Planned
    <3> QED
      BY <3>1, <3>2
  <2>2. ASSUME NEW name \in ShortcutNames(specs), name \in roots PROVE FALSE
    <3>1. PICK j \in earlier : /\ ~modules[k].flat
                               /\ \/ name = <<modules[j].cli>>
                                  \/ name \in ShortcutNames(Merged(p.sources[j]))
      BY <1>6, <1>7, <2>2
    <3>2. <<modules[j].cli>> \in ModuleNames(p)
      BY <1>2 DEF ModuleNames
    <3>3. ShortcutNames(Merged(p.sources[j])) \subseteq EarlierShortcuts(p, k)
      BY DEF EarlierShortcuts
    <3> QED
      BY <1>7, <2>2, <3>1, <3>2, <3>3
  <2> QED
    BY <1>7, <2>1, <2>2 DEF ValidateShortcuts
<1>12. modules[k].specs = specs
  BY <1>2
<1>13. Build(modules[k], roots) # "names"
  <2> HIDE DEF roots, specs
  <2> QED
    BY <1>8, <1>9, <1>10, <1>11, <1>12 DEF Build
<1> QED
  BY <1>1, <1>13

\* The workflows find none of their names taken.
LEMMA WorkflowsMount ==
    ASSUME NEW p, GeneratedApp(p).refused = "", NEW i \in DOMAIN p.workflows, NEW name \in p.workflows[i]
    PROVE  LET modules == GeneratedApp(p).modules IN name \notin RootsWith(modules, DOMAIN modules)
<1> DEFINE modules == GeneratedApp(p).modules
<1>1. Folded(name) \notin RootsOfModules(modules)
  BY AcceptedApp DEF WorkflowRoots
<1>2. Folded(name) \notin Reserved
  BY AcceptedApp DEF ValidateModuleNames
<1> HIDE DEF modules
<1>3. name \notin {Completion} \cup {<<w>> : w \in OwnWords}
  BY <1>2, OwnReserved
<1>4. ASSUME NEW j \in DOMAIN modules, name \in ModuleRoots(modules[j]) PROVE FALSE
  BY <1>1, <1>4 DEF RootsOfModules
<1> QED
  BY <1>3, <1>4 DEF RootsWith, modules

\* What codegen accepts mounts, as far as names go.
LEMMA AcceptedAppMounts ==
    ASSUME NEW p, ProjectShaped(p), GeneratedApp(p).refused = ""
    PROVE  Mount(p.workflows, GeneratedApp(p).modules) # "names"
<1> DEFINE modules == GeneratedApp(p).modules
           Failure(k) == Build(modules[k], RootsWith(modules, {j \in DOMAIN modules : j < k}))
           failing == {k \in DOMAIN modules : Failure(k) # ""}
           first == CHOOSE k \in failing : \A l \in failing : k <= l
           roots == RootsWith(modules, DOMAIN modules)
<1>1. DOMAIN modules = DOMAIN p.sources /\ DOMAIN modules \subseteq Nat
  BY AcceptedApp, SourcesListed
<1>2. \A k \in DOMAIN modules : Failure(k) # "names"
  BY <1>1, ModuleMounts
<1>3. BuildWorkflows(p.workflows, roots) = ""
  <2>1. \A i \in DOMAIN p.workflows : p.workflows[i] \cap roots = {}
    BY WorkflowsMount
  <2> HIDE DEF roots
  <2>2. (UNION Range(p.workflows)) \cap roots = {}
    BY <2>1 DEF Range
  <2> QED
    BY <2>2 DEF BuildWorkflows
<1>4. Mount(p.workflows, modules) = IF failing # {} THEN Failure(first) ELSE BuildWorkflows(p.workflows, roots)
  BY DEF Mount
<1> HIDE DEF modules, Failure, roots
<1>5. failing # {} => first \in DOMAIN modules
  <2>1. failing \subseteq Nat
    BY <1>1
  <2>2. failing # {} => \E k \in failing : \A l \in failing : k <= l
    <3> HIDE DEF failing
    <3> QED
      BY <2>1, Least
  <2> QED
    BY <2>2
<1> QED
  BY <1>2, <1>3, <1>4, <1>5 DEF modules

-----------------------------------------------------------------------------
(* The names of flags *)

IsParam(p) ==
    p = [name |-> p.name, in |-> p.in, goType |-> p.goType, required |-> p.required, default |-> p.default,
         file |-> p.file, flag |-> p.flag, aliases |-> p.aliases, part |-> p.part]

LEMMA DashedTwice == ASSUME NEW flag PROVE Dashed(Dashed(flag)) = Dashed(flag)
BY DEF Dashed, WithDashesFor

\* Two parameters whose names meet after normalizeParamFlags had one flag before it, and
\* were left as they were.
LEMMA NormalizedApart ==
    ASSUME NEW params, \A i \in DOMAIN params : IsParam(params[i]) /\ params[i].aliases = {},
           NEW j \in DOMAIN params, NEW k \in DOMAIN params, j # k,
           LET norm == NormalizeParamFlags(params)
           IN ({norm[j].flag} \cup norm[j].aliases) \cap ({norm[k].flag} \cup norm[k].aliases) # {}
    PROVE  /\ params[j].flag = params[k].flag
           /\ NormalizeParamFlags(params)[j] = params[j] /\ NormalizeParamFlags(params)[k] = params[k]
<1> DEFINE norm == NormalizeParamFlags(params)
           Names(i) == {norm[i].flag} \cup norm[i].aliases
           Shared(i) == \E l \in DOMAIN params \ {i} : Dashed(params[l].flag) = Dashed(params[i].flag)
           Same(i) == Dashed(params[i].flag) = params[i].flag \/ Shared(i)
           New(i) == [params[i] EXCEPT !.aliases = {params[i].flag}, !.flag = Dashed(params[i].flag)]
<1>1. ASSUME NEW i \in DOMAIN params
      PROVE  norm[i] = IF Same(i) THEN params[i] ELSE New(i)
  BY DEF NormalizeParamFlags
<1>2. ASSUME NEW i \in DOMAIN params
      PROVE  New(i).flag = Dashed(params[i].flag) /\ New(i).aliases = {params[i].flag}
  BY DEF IsParam
<1> HIDE DEF norm, New
<1>3. ASSUME NEW i \in DOMAIN params, Same(i)
      PROVE  norm[i] = params[i] /\ Names(i) = {params[i].flag}
  BY <1>1, <1>3
<1>4. ASSUME NEW i \in DOMAIN params, ~Same(i)
      PROVE  Names(i) = {params[i].flag, Dashed(params[i].flag)}
  BY <1>1, <1>2, <1>4
<1>5. ASSUME NEW i \in DOMAIN params, NEW name \in Names(i)
      PROVE  Dashed(name) = Dashed(params[i].flag)
  BY <1>3, <1>4, <1>5, DashedTwice
<1>6. PICK name : name \in Names(j) /\ name \in Names(k)
  BY DEF norm
<1>7. Dashed(params[j].flag) = Dashed(params[k].flag)
  BY <1>5, <1>6
<1>8. Same(j) /\ Same(k)
  BY <1>7
<1> QED
  BY <1>3, <1>6, <1>8 DEF norm

LEMMA NumeralsListed ==
    /\ Len(Numerals) \in Nat /\ DOMAIN Numerals = 1 .. Len(Numerals)
    /\ \A m, n \in DOMAIN Numerals : m # n => Numerals[m] # Numerals[n]
<1>1. Numerals \in Seq(Range(Numerals))
  BY NumeralsAssumption
<1> QED
  BY <1>1, NumeralsAssumption

\* Flags with different numbers differ.
LEMMA NumberedDiffer ==
    ASSUME NEW T, NEW prefix, NEW flag \in Seq(T), NEW m \in DOMAIN Numerals, NEW n \in DOMAIN Numerals,
           Numbered(prefix, flag, m) = Numbered(prefix, flag, n)
    PROVE  m = n
<1> DEFINE Token(w) == [word |-> w, by |-> "-"]
           U == T \cup {Token(prefix), Token(Numerals[m]), Token(Numerals[n])}
           base == Word(prefix) \o flag
           Suffix(i) == IF i = 1 THEN <<>> ELSE Word(Numerals[i])
<1>1. Word(prefix) \in Seq(U) /\ flag \in Seq(U)
  BY DEF Word
<1>2. base \in Seq(U) /\ Len(base) \in Nat
  BY <1>1, ConcatProperties
<1>3. Numbered(prefix, flag, m) = base \o Suffix(m) /\ Numbered(prefix, flag, n) = base \o Suffix(n)
  BY DEF Numbered
<1>4. ASSUME NEW i \in {m, n} PROVE Suffix(i) \in Seq(U)
  <2>1. Token(Numerals[i]) \in U
    OBVIOUS
  <2>2. <<Token(Numerals[i])>> \in Seq(U) /\ <<>> \in Seq(U)
    <3> HIDE DEF U, Token
    <3> QED
      BY <2>1
  <2> QED
    BY <2>2 DEF Word
<1>5. Suffix(m) = Suffix(n)
  <2>1. \A s, t, v \in Seq(U) : s \o t = s \o v => t = v
    BY ConcatSimplifications
  <2> HIDE DEF base, Suffix, U
  <2> QED
    BY <1>2, <1>3, <1>4, <2>1
<1>6. CASE m = 1 \/ n = 1
  BY <1>5, <1>6 DEF Word
<1>7. CASE m # 1 /\ n # 1
  <2>1. Word(Numerals[m]) = Word(Numerals[n])
    BY <1>5, <1>7
  <2>2. Word(Numerals[m])[1].word = Numerals[m] /\ Word(Numerals[n])[1].word = Numerals[n]
    BY DEF Word
  <2> QED
    BY <2>1, <2>2, NumeralsListed
<1> QED
  BY <1>6, <1>7

\* Among more numerals than there are flags taken one is free.
LEMMA FreeIsFree ==
    ASSUME NEW T, NEW prefix, NEW flag \in Seq(T), NEW taken, IsFiniteSet(taken), Cardinality(taken) < Len(Numerals)
    PROVE  FreeFlag(prefix, flag, taken) \notin taken
<1> DEFINE free == {n \in DOMAIN Numerals : Numbered(prefix, flag, n) \notin taken}
           first == CHOOSE n \in free : \A m \in free : n <= m
           f == [n \in DOMAIN Numerals |-> Numbered(prefix, flag, n)]
<1>1. free # {}
  <2> SUFFICES ASSUME free = {} PROVE FALSE
    OBVIOUS
  <2>1. f \in [DOMAIN Numerals -> taken]
    OBVIOUS
  <2>2. IsFiniteSet(DOMAIN Numerals) /\ Cardinality(DOMAIN Numerals) = Len(Numerals)
    <3>1. IsFiniteSet(1 .. Len(Numerals)) /\ Cardinality(1 .. Len(Numerals)) = Len(Numerals)
      <4>1. Len(Numerals) \in Nat
        BY NumeralsListed
      <4> DEFINE len == Len(Numerals)
      <4> HIDE DEF len
      <4>2. len \in Nat
        BY <4>1 DEF len
      <4>3. IsFiniteSet(1 .. len) /\ Cardinality(1 .. len) = len
        BY <4>2, FS_Interval
      <4> QED
        BY <4>3 DEF len
    <3> QED
      BY <3>1, NumeralsListed
  <2>3. \E m, n \in DOMAIN Numerals : m # n /\ f[m] = f[n]
    <3> HIDE DEF f
    <3> QED
      BY <2>1, <2>2, FS_PigeonHole
  <2> QED
    BY <2>3, NumberedDiffer
<1>2. free \subseteq Nat
  BY NumeralsListed
<1>3. \E n \in free : \A m \in free : n <= m
  <2> HIDE DEF free
  <2> QED
    BY <1>1, <1>2, Least
<1>4. first \in free
  BY <1>3
<1> QED
  BY <1>4 DEF FreeFlag

Kept(params, giving) == {params[i].flag : i \in DOMAIN params \ giving}

\* The flag of a parameter, from those that others have been given.
Given(prefix, params, giving, flag, i) ==
    IF i \notin giving THEN params[i].flag
    ELSE FreeFlag(prefix, params[i].flag, Kept(params, giving) \cup {flag[j] : j \in {k \in giving : k < i}})

LEMMA GivenFlagsAre ==
    ASSUME NEW prefix, NEW params, NEW n \in Nat, DOMAIN params = 1 .. n, NEW giving, giving \subseteq 1 .. n
    PROVE  \A i \in 1 .. n : GivenFlags(prefix, params, giving)[i]
                               = Given(prefix, params, giving, GivenFlags(prefix, params, giving), i)
<1> DEFINE Stage(f, i) == Given(prefix, params, giving, f, i)
           S == {m \in 0 .. n : \E f : f = [i \in 1 .. m |-> Stage(f, i)]}
<1>1. 0 \in S
  <2> DEFINE g == <<>>
  <2>1. g = [i \in 1 .. 0 |-> Stage(g, i)]
    OBVIOUS
  <2>2. \E f : f = [i \in 1 .. 0 |-> Stage(f, i)]
    <3> HIDE DEF g, Stage
    <3> QED
      BY <2>1
  <2>3. 0 \in 0 .. n
    OBVIOUS
  <2> HIDE DEF g, Stage
  <2> QED
    BY <2>2, <2>3, Zenon
<1>2. ASSUME NEW m \in 0 .. n, m < n, m \in S PROVE m + 1 \in S
  <2>1. PICK f : f = [i \in 1 .. m |-> Stage(f, i)]
    BY <1>2
  <2> DEFINE g == [i \in 1 .. m + 1 |-> IF i = m + 1 THEN Stage(f, m + 1) ELSE f[i]]
  <2>2. ASSUME NEW i \in 1 .. m + 1 PROVE Stage(g, i) = Stage(f, i)
    <3>1. \A j \in {k \in giving : k < i} : g[j] = f[j]
      OBVIOUS
    <3>2. {g[j] : j \in {k \in giving : k < i}} = {f[j] : j \in {k \in giving : k < i}}
      <4> HIDE DEF g
      <4> QED
        BY <3>1
    <3> HIDE DEF g
    <3> QED
      BY <3>2 DEF Given
  <2>3. ASSUME NEW i \in 1 .. m + 1 PROVE g[i] = Stage(f, i)
    <3> HIDE DEF Stage
    <3>1. CASE i = m + 1
      BY <3>1
    <3>2. CASE i \in 1 .. m
      BY <3>2, <2>1
    <3> QED
      BY <3>1, <3>2
  <2>4. g = [i \in 1 .. m + 1 |-> Stage(g, i)]
    <3>1. \A i \in 1 .. m + 1 : g[i] = Stage(g, i)
      <4> HIDE DEF g, Stage
      <4> QED
        BY <2>2, <2>3
    <3> HIDE DEF Stage
    <3> QED
      BY <3>1
  <2>5. \E h : h = [i \in 1 .. m + 1 |-> Stage(h, i)]
    <3> HIDE DEF g, Stage
    <3> QED
      BY <2>4
  <2>6. m + 1 \in 0 .. n
    BY <1>2
  <2> HIDE DEF g, Stage
  <2> QED
    BY <2>5, <2>6
<1>3. n \in S
  <2>1. n \in 0 .. n
    OBVIOUS
  <2>2. \A m \in 0 .. n : (m < n /\ m \in S) => m + 1 \in S
    BY <1>2
  <2> HIDE DEF S
  <2> QED
    BY <1>1, <2>1, <2>2, Climb
<1>4. PICK f : f = [i \in 1 .. n |-> Stage(f, i)]
  BY <1>3
<1>5. GivenFlags(prefix, params, giving) = [i \in 1 .. n |-> Stage(GivenFlags(prefix, params, giving), i)]
  BY <1>4 DEF GivenFlags, Given, Kept
<1> HIDE DEF Stage
<1>6. \A i \in 1 .. n : GivenFlags(prefix, params, giving)[i] = Stage(GivenFlags(prefix, params, giving), i)
  BY <1>5
<1> QED
  BY <1>6 DEF Stage

\* A parameter that gives way shares its flag with no other.
LEMMA GivenFlagsDiffer ==
    ASSUME NEW prefix, NEW params, NEW n \in Nat, DOMAIN params = 1 .. n, n < Len(Numerals),
           NEW giving, giving \subseteq 1 .. n,
           \A i \in giving : IsSequence(params[i].flag),
           NEW i \in giving, NEW j \in 1 .. n, i # j
    PROVE  GivenFlags(prefix, params, giving)[i] # GivenFlags(prefix, params, giving)[j]
<1> DEFINE flag == GivenFlags(prefix, params, giving)
           Taken(k) == Kept(params, giving) \cup {flag[l] : l \in {m \in giving : m < k}}
<1>1. \A k \in 1 .. n : flag[k] = IF k \notin giving THEN params[k].flag
                                  ELSE FreeFlag(prefix, params[k].flag, Taken(k))
  <2>1. \A k \in 1 .. n : flag[k] = Given(prefix, params, giving, flag, k)
    BY GivenFlagsAre, ZenonT(60)
  <2> HIDE DEF flag
  <2> QED
    BY <2>1 DEF Given
<1> HIDE DEF flag
<1>2. ASSUME NEW k \in giving PROVE flag[k] \notin Taken(k)
  <2> DEFINE others == {l \in 1 .. n : l \notin giving \/ l < k}
             f == [l \in others |-> flag[l]]
  <2>1. Taken(k) = {f[l] : l \in others}
    <3>1. Kept(params, giving) = {flag[l] : l \in 1 .. n \ giving}
      BY <1>1 DEF Kept
    <3> QED
      BY <3>1
  <2>2. f \in Surjection(others, Taken(k))
    <3> HIDE DEF Taken, others
    <3> QED
      BY <2>1 DEF Surjection
  <2>3. IsFiniteSet(others) /\ Cardinality(others) <= n
    <3>1. IsFiniteSet(1 .. n) /\ Cardinality(1 .. n) = n
      BY FS_Interval
    <3> QED
      BY <3>1, FS_Subset
  <2>4. IsFiniteSet(Taken(k)) /\ Cardinality(Taken(k)) <= Cardinality(others)
    <3> HIDE DEF Taken, others, f
    <3> QED
      BY <2>2, <2>3, FS_Surjection
  <2>5. Cardinality(Taken(k)) < Len(Numerals)
    <3>1. Cardinality(Taken(k)) \in Nat /\ Cardinality(others) \in Nat /\ Len(Numerals) \in Nat
      BY <2>3, <2>4, FS_CardinalityType, NumeralsListed
    <3> HIDE DEF Taken, others
    <3> QED
      BY <2>3, <2>4, <3>1
  <2>6. params[k].flag \in Seq(Range(params[k].flag))
    BY DEF IsSequence
  <2>7. FreeFlag(prefix, params[k].flag, Taken(k)) \notin Taken(k)
    <3> HIDE DEF Taken
    <3> QED
      BY <2>4, <2>5, <2>6, FreeIsFree
  <2> QED
    BY <1>1, <2>7
<1>3. CASE j \notin giving
  <2>1. flag[j] \in Kept(params, giving)
    BY <1>1, <1>3 DEF Kept
  <2> QED
    BY <1>2, <2>1 DEF flag
<1>4. CASE j \in giving /\ j < i
  <2>1. flag[j] \in Taken(i)
    BY <1>4
  <2> QED
    BY <1>2, <2>1 DEF flag
<1>5. CASE j \in giving /\ i < j
  <2>1. flag[i] \in Taken(j)
    BY <1>5
  <2> QED
    BY <1>2, <1>5, <2>1 DEF flag
<1> QED
  BY <1>3, <1>4, <1>5

\* What stands before the words of a name does not change how many there are.
LEMMA DashesListed ==
    ASSUME NEW marks, NEW name, IsSequence(name) PROVE IsSequence(WithDashesFor(marks, name))
<1> DEFINE flag == WithDashesFor(marks, name)
<1>1. name \in Seq(Range(name))
  BY DEF IsSequence
<1>2. Len(name) \in Nat /\ DOMAIN name = 1 .. Len(name)
  BY <1>1
<1>3. flag \in [1 .. Len(name) -> Range(flag)]
  BY <1>2 DEF WithDashesFor, Range
<1>4. flag \in Seq(Range(flag))
  <2> HIDE DEF flag
  <2> QED
    BY <1>2, <1>3
<1> QED
  BY <1>4 DEF IsSequence

LEMMA FlagListed ==
    ASSUME NEW name, IsSequence(name), NEW in
    PROVE  IsSequence(Kebab(name)) /\ IsSequence(OwnFlag(in, name))
<1>1. IsSequence(Kebab(name))
  BY DashesListed DEF Kebab
<1>2. IsSequence(VariableFlagName(name))
  BY <1>1, DashesListed DEF VariableFlagName
<1> QED
  BY <1>1, <1>2 DEF OwnFlag

\* A finite set as a list: each element has a place.
LEMMA ListedWhole ==
    ASSUME NEW S, IsFiniteSet(S)
    PROVE  /\ Cardinality(S) \in Nat
           /\ SetToSeq(S) \in [1 .. Cardinality(S) -> S]
           /\ \A x \in S : \E i \in 1 .. Cardinality(S) : SetToSeq(S)[i] = x
<1> DEFINE n == Cardinality(S)
           list == SetToSeq(S)
<1>1. n \in Nat /\ ExistsBijection(1 .. n, S)
  BY FS_CardinalityType
<1>2. \E f \in [1 .. n -> S] : IsInjective(f)
  BY <1>1 DEF ExistsBijection, Bijection, Injection
<1>3. list \in [1 .. n -> S] /\ IsInjective(list)
  BY <1>2 DEF SetToSeq
<1>4. list \in Injection(1 .. n, S)
  BY <1>3 DEF Injection
<1>5. Cardinality(1 .. n) = n
  BY <1>1, FS_Interval
<1> HIDE DEF list
<1>6. list \in Surjection(1 .. n, S)
  BY <1>4, <1>5, FS_Injection
<1> QED
  BY <1>1, <1>3, <1>6 DEF Surjection, list

\* The parameters of the parts of a body: each part that a flag can carry has one.
LEMMA PartsShaped ==
    ASSUME NEW o, NEW defs, OperationShaped(o, defs)
    PROVE  LET parts == PartParams(o, defs)
               fields == Fields(o.body.schema, defs)
           IN /\ IsSequence(parts)
              /\ \A i \in DOMAIN parts : /\ IsParam(parts[i]) /\ parts[i].part /\ parts[i].in = "formData"
                                         /\ parts[i].aliases = {} /\ IsSequence(parts[i].flag)
              /\ o.body.media = "multipart" =>
                    \A name \in Writable(fields, defs) \ MultipartBodyParams(o.body, defs).unsupported :
                        \E i \in DOMAIN parts : parts[i].name = name
<1> DEFINE parts == PartParams(o, defs)
           fields == Fields(o.body.schema, defs)
           typed == {n \in Writable(fields, defs) : PartType(fields.props[n], defs) # NoPart}
           names == SetToSeq(typed)
           Param(n) == [name |-> n, in |-> "formData", goType |-> PartType(fields.props[n], defs),
                        required |-> n \in fields.required, default |-> NoText,
                        file |-> FilePart(fields.props[n], defs), flag |-> Kebab(n), aliases |-> {}, part |-> TRUE]
<1>1. CASE o.body.media # "multipart"
  <2>1. parts = <<>>
    BY <1>1 DEF PartParams
  <2>2. <<>> \in Seq(Range(<<>>))
    OBVIOUS
  <2> QED
    BY <1>1, <2>1, <2>2 DEF IsSequence
<1>2. CASE o.body.media = "multipart"
  <2>1. IsFiniteSet(typed) /\ \A n \in typed : IsSequence(n)
    <3>1. typed \subseteq DOMAIN fields.props
      BY DEF Writable
    <3>2. IsFiniteSet(DOMAIN fields.props) /\ \A n \in DOMAIN fields.props : IsSequence(n)
      BY <1>2 DEF OperationShaped
    <3> HIDE DEF typed
    <3> QED
      BY <3>1, <3>2, FS_Subset
  <2>2. /\ Cardinality(typed) \in Nat
        /\ names \in [1 .. Cardinality(typed) -> typed]
        /\ \A x \in typed : \E i \in 1 .. Cardinality(typed) : names[i] = x
    <3> HIDE DEF typed
    <3> QED
      BY <2>1, ListedWhole
  <2>3. parts = [i \in DOMAIN names |-> Param(names[i])]
    BY <1>2 DEF PartParams, MultipartBodyParams
  <2>4. MultipartBodyParams(o.body, defs).unsupported = Writable(fields, defs) \ typed
    BY DEF MultipartBodyParams
  <2>5. DOMAIN parts = 1 .. Cardinality(typed) /\ \A i \in DOMAIN parts : parts[i] = Param(names[i])
    <3> HIDE DEF Param, names, typed
    <3> QED
      BY <2>2, <2>3
  <2>6. IsSequence(parts)
    <3>1. parts \in [1 .. Cardinality(typed) -> Range(parts)]
      <4> HIDE DEF Param, names, typed
      <4> QED
        BY <2>2, <2>3, <2>5 DEF Range
    <3> HIDE DEF parts, typed
    <3> QED
      BY <2>2, <3>1 DEF IsSequence
  <2>7. ASSUME NEW i \in DOMAIN parts
        PROVE  /\ IsParam(parts[i]) /\ parts[i].part /\ parts[i].in = "formData"
               /\ parts[i].aliases = {} /\ IsSequence(parts[i].flag)
    <3>1. names[i] \in typed /\ parts[i] = Param(names[i])
      <4> HIDE DEF Param, names, typed, parts
      <4> QED
        BY <2>2, <2>5
    <3>2. IsSequence(Kebab(names[i]))
      <4> HIDE DEF names, typed
      <4> QED
        BY <2>1, <3>1, FlagListed
    <3> HIDE DEF names, typed, parts
    <3> QED
      BY <3>1, <3>2 DEF IsParam
  <2>8. ASSUME NEW name \in typed PROVE \E i \in DOMAIN parts : parts[i].name = name
    <3>1. PICK i \in 1 .. Cardinality(typed) : names[i] = name
      BY <2>2
    <3> HIDE DEF names, typed, parts
    <3>2. parts[i].name = name
      BY <2>5, <3>1
    <3> QED
      BY <2>5, <3>2
  <2>9. \A name \in Writable(fields, defs) \ (Writable(fields, defs) \ typed) : name \in typed
    OBVIOUS
  <2> HIDE DEF parts, names, typed
  <2>10. \A name \in Writable(fields, defs) \ MultipartBodyParams(o.body, defs).unsupported :
            \E i \in DOMAIN parts : parts[i].name = name
    BY <2>4, <2>8, <2>9, SMTT(60)
  <2> QED
    BY <2>6, <2>7, <2>10 DEF parts
<1> QED
  BY <1>1, <1>2

\* The parameters of an operation with the flags they have by their names.
OwnParams(o) == [i \in DOMAIN o.params |-> FlagParam(o.params[i])]

\* The parameters of an operation and the parts of its body, before their flags are told
\* apart.
LEMMA OperationParams ==
    ASSUME NEW o, NEW defs, OperationShaped(o, defs)
    PROVE  LET ours == OwnParams(o)
               giving == {i \in DOMAIN ours : ours[i].in = "cookie"}
               cookies == Disambiguate("cookie", ours, giving)
               parts == PartParams(o, defs)
               n == Len(o.params)
               m == Len(parts)
           IN /\ n \in Nat /\ m \in Nat /\ n + m < Len(Numerals)
              /\ DOMAIN ours = 1 .. n /\ DOMAIN cookies = 1 .. n /\ DOMAIN parts = 1 .. m
              /\ \A i \in 1 .. n : IsParam(ours[i]) /\ ours[i].name = o.params[i].name
              /\ \A i \in 1 .. n : /\ ours[i].flag = OwnFlag(o.params[i].in, o.params[i].name)
                                   /\ ours[i].in = o.params[i].in /\ IsSequence(ours[i].flag)
                                   /\ ours[i].aliases = {} /\ ~ours[i].part
              /\ DOMAIN (cookies \o parts) = 1 .. n + m
              /\ \A i \in 1 .. n : (cookies \o parts)[i] = cookies[i]
              /\ \A i \in n + 1 .. n + m : (cookies \o parts)[i] = parts[i - n] /\ i - n \in DOMAIN parts
<1> DEFINE ours == OwnParams(o)
           giving == {i \in DOMAIN ours : ours[i].in = "cookie"}
           cookies == Disambiguate("cookie", ours, giving)
           parts == PartParams(o, defs)
           n == Len(o.params)
           m == Len(parts)
<1>1. o.params \in Seq(Range(o.params)) /\ parts \in Seq(Range(parts)) /\ n + m < Len(Numerals)
  BY PartsShaped DEF OperationShaped, IsSequence
<1>2. n \in Nat /\ m \in Nat /\ DOMAIN o.params = 1 .. n /\ DOMAIN parts = 1 .. m
  <2> HIDE DEF parts
  <2> QED
    BY <1>1
<1>3. DOMAIN ours = 1 .. n /\ DOMAIN cookies = 1 .. n
  BY <1>2 DEF Disambiguate, OwnParams
<1>4. ASSUME NEW i \in 1 .. n
      PROVE  /\ IsParam(ours[i]) /\ ours[i].name = o.params[i].name
             /\ ours[i].flag = OwnFlag(o.params[i].in, o.params[i].name) /\ ours[i].in = o.params[i].in
             /\ ours[i].aliases = {} /\ ~ours[i].part
  BY <1>2 DEF OwnParams, FlagParam, Parameter, IsParam
<1>5. ASSUME NEW i \in 1 .. n PROVE IsSequence(ours[i].flag)
  <2>1. IsSequence(o.params[i].name)
    BY <1>2 DEF OperationShaped
  <2> QED
    BY <1>4, <2>1, FlagListed
<1> HIDE DEF ours, giving, parts
<1>6. /\ DOMAIN (cookies \o parts) = 1 .. n + m
      /\ \A i \in 1 .. n + m : (cookies \o parts)[i] = IF i <= n THEN cookies[i] ELSE parts[i - n]
  <2>1. cookies \in Seq(Range(cookies)) /\ Len(cookies) = n
    <3>1. cookies \in [1 .. n -> Range(cookies)]
      BY <1>3 DEF Disambiguate, Range
    <3> HIDE DEF cookies
    <3> QED
      BY <1>2, <3>1
  <2> DEFINE T == Range(cookies) \cup Range(parts)
  <2> HIDE DEF cookies
  <2>2. cookies \in Seq(T) /\ parts \in Seq(T)
    BY <1>1, <2>1
  <2> HIDE DEF T
  <2> DEFINE l == Len(cookies)
  <2>3. /\ cookies \o parts \in Seq(T) /\ Len(cookies \o parts) = l + m
        /\ \A i \in 1 .. l + m : (cookies \o parts)[i] = IF i <= l THEN cookies[i] ELSE parts[i - l]
    BY <2>2, ConcatProperties, Zenon
  <2>4. DOMAIN (cookies \o parts) = 1 .. l + m
    BY <2>3
  <2>5. l = n
    BY <2>1
  <2> HIDE DEF l, m
  <2> QED
    BY <2>3, <2>4, <2>5
<1>7. \A i \in 1 .. n : (cookies \o parts)[i] = cookies[i]
  BY <1>2, <1>6
<1>8. \A i \in n + 1 .. n + m : (cookies \o parts)[i] = parts[i - n] /\ i - n \in DOMAIN parts
  BY <1>2, <1>6
<1> QED
  BY <1>1, <1>2, <1>3, <1>4, <1>5, <1>6, <1>7, <1>8 DEF ours, giving, parts

\* Two parameters of a command whose names meet have one name, and gave way to none.
LEMMA CommandFlagsApart ==
    ASSUME NEW o, NEW defs, OperationShaped(o, defs),
           NEW j \in DOMAIN CommandParams(o, defs), NEW k \in DOMAIN CommandParams(o, defs), j # k,
           LET params == CommandParams(o, defs)
           IN ({params[j].flag} \cup params[j].aliases) \cap ({params[k].flag} \cup params[k].aliases) # {}
    PROVE  LET params == CommandParams(o, defs)
           IN /\ OwnFlag(params[j].in, params[j].name) = OwnFlag(params[k].in, params[k].name)
              /\ params[j].in # "cookie" /\ ~params[j].part
<1> DEFINE ours == OwnParams(o)
           giving == {i \in DOMAIN ours : ours[i].in = "cookie"}
           cookies == Disambiguate("cookie", ours, giving)
           parts == PartParams(o, defs)
           n == Len(o.params)
           m == Len(parts)
           all == cookies \o parts
           last == {i \in DOMAIN all : all[i].part}
           fin == Disambiguate("body", all, last)
           given == GivenFlags("cookie", ours, giving)
           given2 == GivenFlags("body", all, last)
<1>1. /\ n \in Nat /\ m \in Nat /\ n + m < Len(Numerals)
      /\ DOMAIN ours = 1 .. n /\ DOMAIN cookies = 1 .. n /\ DOMAIN parts = 1 .. m
      /\ \A i \in 1 .. n : IsParam(ours[i]) /\ ours[i].name = o.params[i].name
      /\ \A i \in 1 .. n : /\ ours[i].flag = OwnFlag(o.params[i].in, o.params[i].name)
                           /\ ours[i].in = o.params[i].in /\ IsSequence(ours[i].flag)
                           /\ ours[i].aliases = {} /\ ~ours[i].part
      /\ DOMAIN all = 1 .. n + m
      /\ \A i \in 1 .. n : all[i] = cookies[i]
      /\ \A i \in n + 1 .. n + m : all[i] = parts[i - n] /\ i - n \in DOMAIN parts
  BY OperationParams
<1>2. \A i \in DOMAIN parts : /\ IsParam(parts[i]) /\ parts[i].part /\ parts[i].aliases = {}
                              /\ IsSequence(parts[i].flag)
  BY PartsShaped
<1>3. CommandParams(o, defs) = NormalizeParamFlags(fin)
  BY DEF CommandParams, OwnParams
<1>4. \A i \in DOMAIN ours : cookies[i] = [ours[i] EXCEPT !.flag = given[i]]
  BY SMTT(60) DEF Disambiguate
<1>5. DOMAIN fin = DOMAIN all /\ \A i \in DOMAIN all : fin[i] = [all[i] EXCEPT !.flag = given2[i]]
  BY ZenonT(60) DEF Disambiguate
<1>6. giving \subseteq 1 .. n /\ last \subseteq 1 .. n + m
  BY <1>1
<1>7. DOMAIN CommandParams(o, defs) = 1 .. n + m
  BY <1>1, <1>3, <1>5 DEF NormalizeParamFlags
<1> HIDE DEF ours, cookies, parts, n, m, all, fin, given, given2
<1>8. ASSUME NEW i \in 1 .. n
      PROVE  /\ all[i].flag = given[i] /\ all[i].name = o.params[i].name /\ all[i].in = o.params[i].in
             /\ all[i].aliases = {} /\ ~all[i].part /\ IsParam(all[i])
  BY <1>1, <1>4 DEF IsParam
<1>9. ASSUME NEW i \in n + 1 .. n + m
      PROVE  all[i].part /\ all[i].aliases = {} /\ IsParam(all[i]) /\ IsSequence(all[i].flag)
  BY <1>1, <1>2, ZenonT(60)
<1>10. \A i \in 1 .. n + m : i \in 1 .. n \/ i \in n + 1 .. n + m
  BY <1>1
<1>11. ASSUME NEW i \in 1 .. n + m
       PROVE  /\ fin[i].flag = given2[i] /\ fin[i].name = all[i].name /\ fin[i].in = all[i].in
              /\ fin[i].aliases = {} /\ fin[i].part = all[i].part /\ IsParam(fin[i])
  <2>1. IsParam(all[i]) /\ all[i].aliases = {}
    BY <1>8, <1>9, <1>10
  <2> QED
    BY <1>1, <1>5, <2>1 DEF IsParam
<1>12. /\ fin[j].flag = fin[k].flag
       /\ CommandParams(o, defs)[j] = fin[j] /\ CommandParams(o, defs)[k] = fin[k]
  <2>1. \A i \in DOMAIN fin : IsParam(fin[i]) /\ fin[i].aliases = {}
    BY <1>1, <1>5, <1>11
  <2>2. j \in DOMAIN fin /\ k \in DOMAIN fin
    BY <1>1, <1>5, <1>7
  <2> QED
    BY <1>3, <2>1, <2>2, NormalizedApart
<1>13. j \in 1 .. n + m /\ k \in 1 .. n + m /\ given2[j] = given2[k]
  BY <1>7, <1>11, <1>12
\* Neither is a part of the body, so that their flags are those of the parameters.
<1>14. ASSUME NEW i \in last, NEW l \in 1 .. n + m, i # l PROVE given2[i] # given2[l]
  <2>1. \A x \in last : IsSequence(all[x].flag)
    BY <1>6, <1>8, <1>9, <1>10
  <2>2. n + m \in Nat
    BY <1>1
  <2>3. n + m < Len(Numerals) /\ DOMAIN all = 1 .. n + m /\ last \subseteq 1 .. n + m
    BY <1>1, <1>6
  <2> HIDE DEF last
  <2>4. GivenFlags("body", all, last)[i] # GivenFlags("body", all, last)[l]
    BY <2>1, <2>2, <2>3, <1>14, GivenFlagsDiffer
  <2> QED
    BY <2>4 DEF given2
<1>15. j \notin last /\ k \notin last
  BY <1>13, <1>14
<1>16. j \in 1 .. n /\ k \in 1 .. n
  BY <1>1, <1>9, <1>10, <1>13, <1>15
<1>17. ASSUME NEW i \in 1 .. n PROVE given2[i] = all[i].flag
  <2>1. i \notin last /\ i \in 1 .. n + m /\ n + m \in Nat
    BY <1>1, <1>8
  <2>2. DOMAIN all = 1 .. n + m /\ last \subseteq 1 .. n + m
    BY <1>1, <1>6
  <2> HIDE DEF last
  <2>3. GivenFlags("body", all, last)[i] = Given("body", all, last, GivenFlags("body", all, last), i)
    BY <2>1, <2>2, GivenFlagsAre
  <2> QED
    BY <2>1, <2>3 DEF Given, given2
<1>18. given[j] = given[k]
  BY <1>8, <1>13, <1>16, <1>17
\* Neither is a cookie, so that their flags are their names.
<1>19. ASSUME NEW i \in giving, NEW l \in 1 .. n, i # l PROVE given[i] # given[l]
  <2>1. n < Len(Numerals)
    BY <1>1, NumeralsListed
  <2>2. \A x \in giving : IsSequence(ours[x].flag)
    BY <1>1, <1>6
  <2>3. n \in Nat /\ DOMAIN ours = 1 .. n /\ giving \subseteq 1 .. n
    BY <1>1, <1>6
  <2> HIDE DEF giving
  <2>4. GivenFlags("cookie", ours, giving)[i] # GivenFlags("cookie", ours, giving)[l]
    BY <2>1, <2>2, <2>3, <1>19, GivenFlagsDiffer
  <2> QED
    BY <2>4 DEF given
<1>20. j \notin giving /\ k \notin giving
  BY <1>16, <1>18, <1>19
<1>21. ASSUME NEW i \in 1 .. n, i \notin giving PROVE given[i] = OwnFlag(o.params[i].in, o.params[i].name)
  <2>1. n \in Nat /\ DOMAIN ours = 1 .. n /\ giving \subseteq 1 .. n
    BY <1>1, <1>6
  <2>2. ours[i].flag = OwnFlag(o.params[i].in, o.params[i].name)
    BY <1>1
  <2> HIDE DEF giving
  <2>3. GivenFlags("cookie", ours, giving)[i]
            = Given("cookie", ours, giving, GivenFlags("cookie", ours, giving), i)
    BY <2>1, GivenFlagsAre
  <2> QED
    BY <1>21, <2>2, <2>3 DEF Given, given
<1>22. ours[j].in # "cookie"
  BY <1>1, <1>16, <1>20
<1> DEFINE OwnFlagOf(i) == OwnFlag(CommandParams(o, defs)[i].in, CommandParams(o, defs)[i].name)
<1>23. \A i \in {j, k} : OwnFlagOf(i) = given[i]
  <2>1. ASSUME NEW i \in {j, k} PROVE OwnFlagOf(i) = given[i]
    <3>1. i \in 1 .. n /\ i \in 1 .. n + m /\ i \notin giving /\ CommandParams(o, defs)[i] = fin[i]
      BY <1>12, <1>13, <1>16, <1>20
    <3> HIDE DEF giving
    <3>2. fin[i].in = o.params[i].in /\ fin[i].name = o.params[i].name
      BY <1>8, <1>11, <3>1
    <3> QED
      BY <1>21, <3>1, <3>2
  <2> QED
    BY <2>1
<1>24. ~fin[j].part /\ fin[j].in # "cookie"
  BY <1>1, <1>8, <1>11, <1>13, <1>16, <1>22
<1> QED
  BY <1>12, <1>18, <1>23, <1>24

-----------------------------------------------------------------------------
(* The parts of a multipart body that have flags *)

Labelled(p) == "name" \in DOMAIN p /\ "part" \in DOMAIN p

LEMMA ParamsLabelled == ASSUME NEW p, IsParam(p) PROVE Labelled(p)
BY DEF IsParam, Labelled

\* Telling flags apart takes no part of a body away.
LEMMA CommandParamsKeep ==
    ASSUME NEW o, NEW defs, OperationShaped(o, defs)
    PROVE  LET params == CommandParams(o, defs)
               parts == PartParams(o, defs)
           IN /\ \A i \in DOMAIN params : Labelled(params[i])
              /\ \A k \in DOMAIN parts : \E i \in DOMAIN params : params[i].part /\ params[i].name = parts[k].name
<1> DEFINE ours == OwnParams(o)
           giving == {i \in DOMAIN ours : ours[i].in = "cookie"}
           cookies == Disambiguate("cookie", ours, giving)
           parts == PartParams(o, defs)
           n == Len(o.params)
           m == Len(parts)
           all == cookies \o parts
           last == {i \in DOMAIN all : all[i].part}
           fin == Disambiguate("body", all, last)
           params == NormalizeParamFlags(fin)
           given == GivenFlags("cookie", ours, giving)
           given2 == GivenFlags("body", all, last)
           Same(i) == params[i] = fin[i]
           New(i) == [fin[i] EXCEPT !.aliases = {fin[i].flag}, !.flag = Dashed(fin[i].flag)]
<1>1. /\ n \in Nat /\ m \in Nat /\ n + m < Len(Numerals)
      /\ DOMAIN ours = 1 .. n /\ DOMAIN cookies = 1 .. n /\ DOMAIN parts = 1 .. m
      /\ \A i \in 1 .. n : IsParam(ours[i]) /\ ours[i].name = o.params[i].name
      /\ \A i \in 1 .. n : /\ ours[i].flag = OwnFlag(o.params[i].in, o.params[i].name)
                           /\ ours[i].in = o.params[i].in /\ IsSequence(ours[i].flag)
                           /\ ours[i].aliases = {} /\ ~ours[i].part
      /\ DOMAIN all = 1 .. n + m
      /\ \A i \in 1 .. n : all[i] = cookies[i]
      /\ \A i \in n + 1 .. n + m : all[i] = parts[i - n] /\ i - n \in DOMAIN parts
  BY OperationParams
<1>2. \A i \in DOMAIN parts : IsParam(parts[i]) /\ parts[i].part
  BY PartsShaped
<1>3. CommandParams(o, defs) = params
  BY DEF CommandParams, OwnParams
<1>4. \A i \in DOMAIN ours : cookies[i] = [ours[i] EXCEPT !.flag = given[i]]
  BY DEF Disambiguate
<1>5. DOMAIN fin = DOMAIN all /\ \A i \in DOMAIN all : fin[i] = [all[i] EXCEPT !.flag = given2[i]]
  BY ZenonT(60) DEF Disambiguate
<1>6. DOMAIN params = DOMAIN fin /\ \A i \in DOMAIN fin : Same(i) \/ params[i] = New(i)
  BY DEF NormalizeParamFlags
<1> HIDE DEF ours, cookies, parts, n, m, all, fin, params, given, given2
<1>7. \A i \in 1 .. n + m : i \in 1 .. n \/ i \in n + 1 .. n + m
  BY <1>1
<1>8. ASSUME NEW i \in DOMAIN all PROVE IsParam(all[i])
  <2>1. CASE i \in 1 .. n
    BY <1>1, <1>4, <2>1 DEF IsParam
  <2>2. CASE i \in n + 1 .. n + m
    BY <1>1, <1>2, <2>2
  <2> QED
    BY <1>1, <1>7, <2>1, <2>2
<1>9. ASSUME NEW i \in DOMAIN all
      PROVE  IsParam(fin[i]) /\ fin[i].name = all[i].name /\ fin[i].part = all[i].part
  BY <1>5, <1>8 DEF IsParam
<1>10. ASSUME NEW i \in DOMAIN all
       PROVE  Labelled(params[i]) /\ params[i].name = all[i].name /\ params[i].part = all[i].part
  <2>1. Labelled(fin[i])
    BY <1>9, ParamsLabelled
  <2> DEFINE p == fin[i]
  <2> HIDE DEF p
  <2>2. Labelled(p)
    BY <2>1 DEF p
  <2> DEFINE q == [p EXCEPT !.aliases = {p.flag}, !.flag = Dashed(p.flag)]
  <2>3. Labelled(q) /\ q.name = p.name /\ q.part = p.part
    BY <2>2 DEF Labelled
  <2>4. Labelled(New(i)) /\ New(i).name = all[i].name /\ New(i).part = all[i].part
    BY <1>9, <2>3 DEF p
  <2> QED
    BY <1>5, <1>6, <1>9, <2>1, <2>4
<1>11. ASSUME NEW k \in DOMAIN parts
       PROVE  \E i \in DOMAIN params : params[i].part /\ params[i].name = parts[k].name
  <2>1. n + k \in n + 1 .. n + m /\ n + k \in 1 .. n + m /\ n + k - n = k
    BY <1>1
  <2>2. all[n + k] = parts[k] /\ parts[k].part
    BY <1>1, <1>2, <2>1
  <2>3. n + k \in DOMAIN params /\ n + k \in DOMAIN all
    BY <1>1, <1>5, <1>6, <2>1, ZenonT(60)
  <2> QED
    BY <1>10, <2>2, <2>3
<1> QED
  BY <1>3, <1>5, <1>6, <1>10, <1>11 DEF parts

IsCommand(s) ==
    s = [op |-> s.op, group |-> s.group, use |-> s.use, aliases |-> s.aliases, shortcuts |-> s.shortcuts,
         arguments |-> s.arguments, contexts |-> s.contexts, sets |-> s.sets, params |-> s.params,
         body |-> s.body, broken |-> s.broken]

LEMMA NormalizedCommand ==
    ASSUME NEW source, NEW i \in DOMAIN source.operations
    PROVE  /\ DOMAIN Normalize(source) = DOMAIN source.operations
           /\ IsCommand(Normalize(source)[i])
           /\ Normalize(source)[i].body = source.operations[i].body
           /\ Normalize(source)[i].params = CommandParams(source.operations[i], source.defs)
BY DEF Normalize, IsCommand

\* An override that adds no flags for a JSON body leaves a command's parameters, but for
\* their flags, and its body.
LEMMA AppliedCommand ==
    ASSUME NEW spec, IsCommand(spec), \A i \in DOMAIN spec.params : Labelled(spec.params[i]),
           NEW o, ~o.bodyFlags
    PROVE  /\ Apply(spec, o).body = spec.body
           /\ DOMAIN Apply(spec, o).params = DOMAIN spec.params
           /\ \A i \in DOMAIN spec.params : /\ Apply(spec, o).params[i].name = spec.params[i].name
                                            /\ Apply(spec, o).params[i].part = spec.params[i].part
<1> DEFINE params == [i \in DOMAIN spec.params |->
                         IF spec.params[i].name \in DOMAIN o.flags
                         THEN [spec.params[i] EXCEPT !.flag = o.flags[spec.params[i].name]] ELSE spec.params[i]]
<1>1. Apply(spec, o).body = spec.body /\ Apply(spec, o).params = params
  <2> HIDE DEF params
  <2> QED
    BY DEF Apply, IsCommand, params
<1>2. \A i \in DOMAIN spec.params : params[i].name = spec.params[i].name /\ params[i].part = spec.params[i].part
  BY DEF Labelled
<1> QED
  BY <1>1, <1>2

\* A command with a multipart body has the parts of its operation.
LEMMA MergedCommand ==
    ASSUME NEW source, OverlayHolds(source), NEW i \in DOMAIN Merged(source),
           \A k \in DOMAIN source.operations : OperationShaped(source.operations[k], source.defs),
           Merged(source)[i].body.media = "multipart"
    PROVE  /\ i \in DOMAIN source.operations
           /\ Merged(source)[i].body = source.operations[i].body
           /\ LET params == Merged(source)[i].params
                  parts == PartParams(source.operations[i], source.defs)
              IN \A k \in DOMAIN parts : \E j \in DOMAIN params : params[j].part /\ params[j].name = parts[k].name
<1> DEFINE specs == Normalize(source)
           found == Overrides(specs, source.overlay)
           kept == {k \in DOMAIN specs : \A o \in found[k] : ~o.ignore}
           named == DisambiguateUse([k \in kept |-> specs[k]])
           chosen == CHOOSE o \in found[i] : TRUE
           ours == CommandParams(source.operations[i], source.defs)
           params == Merged(source)[i].params
<1>1. DOMAIN Merged(source) = kept
  BY DEF Merged, MergeOverlay
<1>2. i \in DOMAIN source.operations
  <2>1. i \in DOMAIN specs
    BY <1>1
  <2> QED
    BY <2>1 DEF Normalize
<1>3. IsCommand(specs[i]) /\ specs[i].body = source.operations[i].body /\ specs[i].params = ours
  BY <1>2, NormalizedCommand, SMTT(60)
<1>4. \E u : named[i] = [specs[i] EXCEPT !.use = u]
  <2>1. i \in kept
    BY <1>1
  <2> HIDE DEF kept, specs
  <2> QED
    BY <2>1 DEF DisambiguateUse
<1>5. IsCommand(named[i]) /\ named[i].body = source.operations[i].body /\ named[i].params = ours
  <2> HIDE DEF named, specs
  <2> QED
    BY <1>3, <1>4, SMTT(60) DEF IsCommand
<1>6. Merged(source)[i] = IF found[i] = {} THEN named[i] ELSE Apply(named[i], chosen)
  BY <1>1 DEF Merged, MergeOverlay
<1>7. \A o \in found[i] : o.bodyFlags => specs[i].body.media = "json"
  BY <1>1 DEF OverlayHolds, ValidateOverlay, ExpandJSONBodyFlags
<1> HIDE DEF specs, found, kept, named, params, ours
<1>8. OperationShaped(source.operations[i], source.defs)
  BY <1>2
<1> DEFINE parts == PartParams(source.operations[i], source.defs)
<1>9. /\ \A j \in DOMAIN ours : Labelled(ours[j])
      /\ \A k \in DOMAIN parts : \E j \in DOMAIN ours : ours[j].part /\ ours[j].name = parts[k].name
  <2> DEFINE o == source.operations[i]
             defs == source.defs
  <2> HIDE DEF o, defs
  <2>1. OperationShaped(o, defs)
    BY <1>8 DEF o, defs
  <2> QED
    BY <2>1, CommandParamsKeep DEF o, defs, ours
<1> HIDE DEF parts
<1>10. /\ Merged(source)[i].body = source.operations[i].body /\ DOMAIN params = DOMAIN ours
       /\ \A j \in DOMAIN ours : params[j].name = ours[j].name /\ params[j].part = ours[j].part
  <2>1. CASE found[i] = {}
    BY <1>5, <1>6, <2>1 DEF params
  <2>2. CASE found[i] # {}
    <3>1. chosen \in found[i]
      BY <2>2
    <3> HIDE DEF chosen
    <3>2. Merged(source)[i] = Apply(named[i], chosen)
      BY <1>6, <2>2
    <3>3. ~chosen.bodyFlags
      <4> SUFFICES ASSUME chosen.bodyFlags PROVE FALSE
        OBVIOUS
      <4>1. specs[i].body.media = "json"
        BY <1>7, <3>1
      <4>2. Apply(named[i], chosen).body = named[i].body
        BY <1>5 DEF Apply, IsCommand
      <4> QED
        BY <1>3, <1>5, <3>2, <4>1, <4>2
    <3> DEFINE spec == named[i]
    <3> HIDE DEF spec
    <3>4. IsCommand(spec) /\ \A j \in DOMAIN spec.params : Labelled(spec.params[j])
      BY <1>5, <1>9 DEF spec
    <3>5. /\ Apply(spec, chosen).body = spec.body /\ DOMAIN Apply(spec, chosen).params = DOMAIN spec.params
          /\ \A j \in DOMAIN spec.params : /\ Apply(spec, chosen).params[j].name = spec.params[j].name
                                           /\ Apply(spec, chosen).params[j].part = spec.params[j].part
      BY <3>3, <3>4, AppliedCommand
    <3> QED
      BY <1>5, <3>2, <3>5 DEF params, spec
  <2> QED
    BY <2>1, <2>2
<1>11. \A k \in DOMAIN parts : \E j \in DOMAIN params : params[j].part /\ params[j].name = parts[k].name
  BY <1>9, <1>10
<1> QED
  BY <1>2, <1>10, <1>11 DEF params, parts

\* Each part of the body that a client must send has a flag, and a body that must be sent
\* has a form field.
PartsSettable(spec, defs) ==
    LET needed == RequiredNames(spec.body.schema, defs) \cap Writable(Fields(spec.body.schema, defs), defs)
    IN /\ \A n \in needed : \E k \in DOMAIN spec.params : spec.params[k].part /\ spec.params[k].name = n
       /\ spec.body.required => \E k \in DOMAIN spec.params : spec.params[k].in = "formData"

LEMMA AcceptedBodies ==
    ASSUME NEW spec, NEW o, NEW defs, OperationShaped(o, defs), spec.body = o.body, o.body.media = "multipart",
           ValidateMultipartBody(spec.body, spec.params, defs),
           \A k \in DOMAIN PartParams(o, defs) :
              \E j \in DOMAIN spec.params : spec.params[j].part /\ spec.params[j].name = PartParams(o, defs)[k].name
    PROVE  PartsSettable(spec, defs)
<1>1. \A n \in Writable(Fields(o.body.schema, defs), defs) \ MultipartBodyParams(o.body, defs).unsupported :
         \E k \in DOMAIN PartParams(o, defs) : PartParams(o, defs)[k].name = n
  BY PartsShaped
<1>2. /\ RequiredNames(o.body.schema, defs) \cap MultipartBodyParams(o.body, defs).unsupported = {}
      /\ HasForm(spec.params) \/ ~spec.body.required
  BY DEF ValidateMultipartBody
<1>3. ASSUME NEW n \in RequiredNames(o.body.schema, defs) \cap Writable(Fields(o.body.schema, defs), defs)
      PROVE  \E k \in DOMAIN spec.params : spec.params[k].part /\ spec.params[k].name = n
  <2>1. n \notin MultipartBodyParams(o.body, defs).unsupported
    BY <1>2
  <2>2. PICK k \in DOMAIN PartParams(o, defs) : PartParams(o, defs)[k].name = n
    BY <1>1, <2>1
  <2> QED
    BY <2>2
<1> QED
  BY <1>2, <1>3 DEF HasForm, PartsSettable

\* Codegen accepts no command that lacks a flag for a part it needs.
LEMMA AcceptedParts ==
    ASSUME NEW p, ProjectShaped(p), GeneratedApp(p).refused = "",
           NEW m \in DOMAIN GeneratedApp(p).modules, NEW i \in DOMAIN GeneratedApp(p).modules[m].specs,
           GeneratedApp(p).modules[m].specs[i].body.media = "multipart"
    PROVE  PartsSettable(GeneratedApp(p).modules[m].specs[i], GeneratedApp(p).modules[m].defs)
<1> DEFINE source == p.sources[m]
           defs == source.defs
           spec == Merged(source)[i]
           o == source.operations[i]
<1>1. m \in DOMAIN p.sources /\ GeneratedApp(p).modules[m] = Module(p, m)
  BY AcceptedApp
<1>2. Module(p, m).specs = Merged(source) /\ Module(p, m).defs = defs
  BY DEF Module
<1>3. OverlayHolds(source)
  BY <1>1, AcceptedApp DEF SourceHolds
<1>4. ValidateMultipartBody(spec.body, spec.params, defs)
  <2>1. ValidateApp(p, GeneratedApp(p).modules)
    BY DEF GeneratedApp
  <2>2. ValidateMultipartBody(GeneratedApp(p).modules[m].specs[i].body, GeneratedApp(p).modules[m].specs[i].params,
                              GeneratedApp(p).modules[m].defs)
    BY <2>1 DEF ValidateApp
  <2> QED
    BY <1>1, <1>2, <2>2
<1>5. \A k \in DOMAIN source.operations : OperationShaped(source.operations[k], source.defs)
  BY <1>1 DEF ProjectShaped
<1>6. i \in DOMAIN Merged(source) /\ spec.body.media = "multipart"
  BY <1>1, <1>2
<1> HIDE DEF source
<1>7. /\ i \in DOMAIN source.operations /\ spec.body = o.body
      /\ \A k \in DOMAIN PartParams(o, defs) :
            \E j \in DOMAIN spec.params : spec.params[j].part /\ spec.params[j].name = PartParams(o, defs)[k].name
  BY <1>3, <1>5, <1>6, MergedCommand
<1>8. OperationShaped(o, defs)
  BY <1>5, <1>7
<1> HIDE DEF spec, o, defs
<1>9. PartsSettable(spec, defs)
  BY <1>4, <1>6, <1>7, <1>8, AcceptedBodies
<1> QED
  BY <1>1, <1>2, <1>9 DEF spec, defs

-----------------------------------------------------------------------------
(* What codegen has accepted, when it writes *)

LEMMA AcceptedShapes ==
    ASSUME CodegenInv, pc = "modules"
    PROVE  ProjectShaped(project) /\ built = GeneratedApp(project) /\ GeneratedApp(project).refused = ""
BY AcceptedAssumption DEF CodegenInv, Read, Accepting, Known, Accepted

\* Of what codegen accepts, the generated CLI does not refuse the name of a module, group,
\* command, alias, shortcut or workflow when it starts, for any projects and whatever they
\* are edited to.
THEOREM AcceptedCommandsMount == CodegenSpec => []AcceptedMounts
<1>1. CodegenSpec => []CodegenInv
  BY CodegenInitInv, CodegenNextInv, PTL DEF CodegenSpec
<1>2. CodegenInv => AcceptedMounts
  BY AcceptedShapes, AcceptedAppMounts DEF AcceptedMounts
<1>3. QED
  BY <1>1, <1>2, PTL

\* Two parameters of an accepted command share a flag or an alias only if the flags they
\* have by their names are one already, and neither is a cookie or a part of the body, for
\* any operations.  Two names may have one flag: filter.name and filterName of variables.
THEOREM FlagsStayApart == CodegenSpec => []FlagsAddNoClash
<1>1. CodegenSpec => []CodegenInv
  BY CodegenInitInv, CodegenNextInv, PTL DEF CodegenSpec
<1>2. CodegenInv => FlagsAddNoClash
  <2> SUFFICES ASSUME CodegenInv, pc = "modules" PROVE FlagsAddNoClash
    BY DEF FlagsAddNoClash
  <2> DEFINE Params(s, i) == CommandParams(project.sources[s].operations[i], project.sources[s].defs)
             Names(s, i, j) == {Params(s, i)[j].flag} \cup Params(s, i)[j].aliases
  <2>1. ASSUME NEW s \in DOMAIN project.sources, NEW i \in DOMAIN project.sources[s].operations,
               NEW j \in DOMAIN Params(s, i), NEW k \in DOMAIN Params(s, i), j # k,
               Names(s, i, j) \cap Names(s, i, k) # {}
        PROVE  /\ OwnFlag(Params(s, i)[j].in, Params(s, i)[j].name)
                   = OwnFlag(Params(s, i)[k].in, Params(s, i)[k].name)
               /\ Params(s, i)[j].in # "cookie" /\ ~Params(s, i)[j].part
    <3>1. OperationShaped(project.sources[s].operations[i], project.sources[s].defs)
      BY AcceptedShapes DEF ProjectShaped
    <3> DEFINE o == project.sources[s].operations[i]
               defs == project.sources[s].defs
    <3> HIDE DEF o, defs
    <3>2. OperationShaped(o, defs)
      BY <3>1, SMTT(60) DEF o, defs
    <3> QED
      BY <2>1, <3>2, CommandFlagsApart DEF o, defs
  <2>2. ASSUME NEW s \in DOMAIN project.sources, NEW i \in DOMAIN project.sources[s].operations
        PROVE  LET params == CommandParams(project.sources[s].operations[i], project.sources[s].defs)
                   Of(p) == {p.flag} \cup p.aliases
               IN \A j, k \in DOMAIN params :
                    j # k /\ Of(params[j]) \cap Of(params[k]) # {} =>
                        /\ OwnFlag(params[j].in, params[j].name) = OwnFlag(params[k].in, params[k].name)
                        /\ params[j].in # "cookie" /\ ~params[j].part
    BY <2>1
  <2> QED
    BY <2>2, Zenon DEF FlagsAddNoClash
<1>3. QED
  BY <1>1, <1>2, PTL

\* Each part a request must have and a client may write has a flag in an accepted command,
\* and a body that must be sent a form field, for any projects, operations and schemas.
THEOREM RequiredPartsHaveFlags == CodegenSpec => []RequiredPartsSettable
<1>1. CodegenSpec => []CodegenInv
  BY CodegenInitInv, CodegenNextInv, PTL DEF CodegenSpec
<1>2. CodegenInv => RequiredPartsSettable
  <2> SUFFICES ASSUME CodegenInv, pc = "modules" PROVE RequiredPartsSettable
    BY DEF RequiredPartsSettable
  <2>1. ProjectShaped(project) /\ built = GeneratedApp(project) /\ GeneratedApp(project).refused = ""
    BY AcceptedShapes
  <2>2. \A m \in DOMAIN built.modules : \A i \in DOMAIN built.modules[m].specs :
           built.modules[m].specs[i].body.media = "multipart" =>
               PartsSettable(built.modules[m].specs[i], built.modules[m].defs)
    <3> DEFINE p == project
    <3> HIDE DEF p
    <3>1. ProjectShaped(p) /\ built = GeneratedApp(p) /\ GeneratedApp(p).refused = ""
      BY <2>1 DEF p
    <3> QED
      BY <3>1, AcceptedParts
  <2> QED
    BY <2>2, ZenonT(60) DEF RequiredPartsSettable, PartsSettable
<1>3. QED
  BY <1>1, <1>2, PTL

-----------------------------------------------------------------------------
(* The init command *)

Stages ==
    {"start", "clone", "strip", "replace", "rename", "generated", "license", "bootstrap", "cleanup", "git", "move"}
    \cup Settled

\* Where a starter is at hand, where its words are gone, where its generated paths have
\* been removed, and where the license has been written.
Cloned == {"strip", "replace", "rename", "generated", "license", "bootstrap", "cleanup", "git", "move"}

Worded == {"rename", "generated", "license", "bootstrap", "cleanup", "git", "move"}

Licensed == {"bootstrap", "cleanup", "git", "move"}

IsFile(f) == f = [was |-> f.was, words |-> f.words, text |-> f.text]

IsDirectory(d) == d = [kind |-> d.kind, git |-> d.git, files |-> d.files]

\* No file has a word that the replacements before the n-th file of item i have removed.
WordsGoneUpTo(files, i, n) ==
    \A name \in DOMAIN files : \A variable \in files[name].words :
        \A k \in DOMAIN Replacements : \A j \in DOMAIN Replacements[k].files :
            k < i \/ (k = i /\ j < n) =>
                variable # Replacements[k].variable \/ files[name].was # Replacements[k].files[j]

WordsGone(files) ==
    \A name \in DOMAIN files : \A variable \in files[name].words :
        \A k \in DOMAIN Replacements : \A j \in DOMAIN Replacements[k].files :
            variable # Replacements[k].variable \/ files[name].was # Replacements[k].files[j]

\* Paths of a list, up to item i, are gone.
GoneUpTo(list, files, i) == \A k \in DOMAIN list : k < i => list[k] \notin DOMAIN files

\* What is at a generated path was made for the project.
GeneratedFresh(files) ==
    \A name \in DOMAIN files \cap Range(starter.manifest.generated) :
        files[name].was = "bootstrap" \/ name = "LICENSE"

LicenseHolds(files) ==
    /\ "LICENSE" \in DOMAIN files => options.license = "mit" /\ files["LICENSE"].was = "license"
    /\ options.license = "mit" => "LICENSE" \in DOMAIN files \cup Range(starter.manifest.cleanup)

\* What is in the directory follows from how far the command has come.
Tree ==
    /\ stage \in Cloned =>
         /\ starter \in Starters /\ IsDirectory(tmp)
         /\ \A name \in DOMAIN tmp.files : IsFile(tmp.files[name])
    /\ stage \in Cloned \ {"strip"} => \A name \in DOMAIN tmp.files : tmp.files[name].was # "link"
    /\ stage = "strip" => \A name \in DOMAIN tmp.files : tmp.files[name].was \in {name, "link"}
    /\ stage = "replace" =>
         /\ \A name \in DOMAIN tmp.files : tmp.files[name].was = name
         /\ WordsGoneUpTo(tmp.files, item, nth)
    /\ stage \in Worded => WordsGone(tmp.files)
    /\ stage = "generated" => GoneUpTo(starter.manifest.generated, tmp.files, item)
    /\ stage \in {"license"} \cup Licensed => GeneratedFresh(tmp.files)
    /\ stage \in Licensed => LicenseHolds(tmp.files)
    /\ stage = "cleanup" => GoneUpTo(starter.manifest.cleanup, tmp.files, item)
    /\ stage \in {"git", "move"} =>
         DOMAIN tmp.files \cap Range(starter.manifest.cleanup) = {} /\ "manifest" \notin DOMAIN tmp.files
    /\ stage = "move" => tmp.git = "fresh"

\* The places in the lists of the manifest.
Places ==
    /\ item \in Nat \ {0} /\ nth \in Nat \ {0}
    /\ stage \in {"start", "clone", "strip", "license", "bootstrap"} => item = 1
    /\ stage \in {"start", "clone", "strip"} => nth = 1

\* What others see.
Outward ==
    /\ stage \in Stages /\ outside = {}
    /\ stage = "created" <=> target.kind = "project"
    /\ stage \in {"created", "refused"} => tmp = NoDirectory

ProjectInv == Tree /\ Places /\ Outward /\ ProjectWhole

-----------------------------------------------------------------------------
LEMMA ListHas ==
    ASSUME NEW s, IsList(s)
    PROVE  Len(s) \in Nat /\ DOMAIN s = 1 .. Len(s)
BY DEF IsList

LEMMA StarterShape ==
    ASSUME NEW s \in Starters
    PROVE  /\ Len(s.manifest.replacements) \in Nat
           /\ DOMAIN s.manifest.replacements = 1 .. Len(s.manifest.replacements)
           /\ \A i \in DOMAIN s.manifest.replacements :
                /\ Len(s.manifest.replacements[i].files) \in Nat
                /\ DOMAIN s.manifest.replacements[i].files = 1 .. Len(s.manifest.replacements[i].files)
           /\ Len(s.manifest.generated) \in Nat
           /\ DOMAIN s.manifest.generated = 1 .. Len(s.manifest.generated)
           /\ Len(s.manifest.cleanup) \in Nat
           /\ DOMAIN s.manifest.cleanup = 1 .. Len(s.manifest.cleanup)
           /\ \A name \in DOMAIN s.files : IsFile(s.files[name]) /\ s.files[name].was \in {name, "link"}
<1>1. /\ IsList(s.manifest.replacements) /\ IsList(s.manifest.generated) /\ IsList(s.manifest.cleanup)
      /\ \A i \in DOMAIN s.manifest.replacements : IsList(s.manifest.replacements[i].files)
  BY ProjectInitAssumption
<1>2. /\ s.files = [name \in DOMAIN s.files |-> [was |-> s.files[name].was, words |-> s.files[name].words,
                                                 text |-> s.files[name].text]]
      /\ \A name \in DOMAIN s.files : s.files[name].was \in {name, "link"}
  BY ProjectInitAssumption
<1>3. \A name \in DOMAIN s.files : IsFile(s.files[name])
  BY <1>2 DEF IsFile
<1>4. QED
  BY <1>1, <1>2, <1>3, ListHas

\* A tree of files that were there, under the same or other names, and of files that
\* codegen or the license have written, has no more words than before.
LEMMA WordsStayGone ==
    ASSUME NEW files, NEW after, WordsGone(files),
           \A name \in DOMAIN files : IsFile(files[name]) /\ files[name].was # "link",
           \A name \in DOMAIN after : \/ after[name] \in {WrittenBy("license"), WrittenBy("bootstrap")}
                                      \/ \E n \in DOMAIN files : after[name] = files[n]
    PROVE  WordsGone(after) /\ \A name \in DOMAIN after : IsFile(after[name]) /\ after[name].was # "link"
<1>1. ASSUME NEW name \in DOMAIN after
      PROVE  /\ IsFile(after[name]) /\ after[name].was # "link"
             /\ \A variable \in after[name].words :
                  \A k \in DOMAIN Replacements : \A j \in DOMAIN Replacements[k].files :
                    variable # Replacements[k].variable \/ after[name].was # Replacements[k].files[j]
  <2>1. CASE after[name] \in {WrittenBy("license"), WrittenBy("bootstrap")}
    BY <2>1 DEF WrittenBy, IsFile
  <2>2. CASE \E n \in DOMAIN files : after[name] = files[n]
    BY <2>2 DEF WordsGone
  <2>3. QED
    BY <1>1, <2>1, <2>2
<1>2. QED
  BY <1>1 DEF WordsGone

LEMMA ProjectInitInv == InitInit => ProjectInv
<1> SUFFICES ASSUME InitInit PROVE ProjectInv
  OBVIOUS
<1>1. stage = "start" /\ item = 1 /\ nth = 1 /\ outside = {} /\ target.kind \in {"none", "theirs"}
  BY DEF InitInit, NoDirectory
<1>2. Tree /\ Places
  BY <1>1 DEF Tree, Places, Cloned, Worded, Licensed
<1>3. Outward /\ ProjectWhole
  BY <1>1 DEF Outward, ProjectWhole, Stages
<1>4. QED
  BY <1>2, <1>3 DEF ProjectInv

\* Outside stages that end the command nothing shows until the project is moved.
LEMMA OutwardStays ==
    ASSUME ProjectInv, stage \notin Settled, stage' \in Stages \ {"created"}, outside' = outside,
           target' = target \/ target'.kind # "project",
           stage' = "refused" => tmp' = NoDirectory
    PROVE  Outward' /\ ProjectWhole'
<1>1. target.kind # "project"
  BY DEF ProjectInv, Outward, Settled
<1>2. target'.kind # "project"
  BY <1>1
<1>3. Outward'
  BY <1>2 DEF ProjectInv, Outward, Stages
<1>4. ProjectWhole'
  BY <1>2 DEF ProjectWhole
<1>5. QED
  BY <1>3, <1>4

-----------------------------------------------------------------------------
(* Before and between the loops *)

LEMMA StartInv == ASSUME ProjectInv, Start PROVE ProjectInv'
<1>1. /\ stage = "start" /\ stage' = "clone" /\ item' = item /\ nth' = nth /\ outside' = outside /\ target' = target
  BY DEF Start, Continue
<1>2. Tree' /\ Places'
  BY <1>1 DEF ProjectInv, Tree, Places, Cloned, Worded, Licensed
<1>3. QED
  BY <1>1, <1>2, OutwardStays DEF ProjectInv, Settled, Stages

LEMMA CloneInv == ASSUME ProjectInv, Clone PROVE ProjectInv'
<1>1. /\ stage = "clone" /\ stage' = "strip" /\ item' = item /\ nth' = nth /\ outside' = outside /\ target' = target
      /\ starter' \in Starters /\ tmp' = [kind |-> "starter", git |-> "starter's", files |-> starter'.files]
  BY DEF Clone, Continue
<1>2. \A name \in DOMAIN tmp'.files : IsFile(tmp'.files[name]) /\ tmp'.files[name].was \in {name, "link"}
  BY <1>1, StarterShape
<1>3. IsDirectory(tmp')
  BY <1>1 DEF IsDirectory
<1>4. Tree'
  BY <1>1, <1>2, <1>3 DEF Tree, Cloned, Worded, Licensed, IsFile, IsDirectory
<1>5. Places'
  BY <1>1 DEF ProjectInv, Places
<1>6. QED
  BY <1>1, <1>4, <1>5, OutwardStays DEF ProjectInv, Settled, Stages

LEMMA StripInv == ASSUME ProjectInv, Strip PROVE ProjectInv'
<1>1. /\ stage = "strip" /\ stage' = "replace" /\ item' = item /\ nth' = nth /\ outside' = outside /\ target' = target
      /\ starter' = starter /\ tmp' = [tmp EXCEPT !.git = "none"]
      /\ \A name \in DOMAIN tmp.files : tmp.files[name].was # "link"
  BY DEF Strip, Continue
<1>2. /\ starter \in Starters /\ IsDirectory(tmp) /\ item = 1 /\ nth = 1
      /\ \A name \in DOMAIN tmp.files : IsFile(tmp.files[name]) /\ tmp.files[name].was \in {name, "link"}
  BY <1>1 DEF ProjectInv, Tree, Places, Cloned
<1>3. IsDirectory(tmp') /\ tmp'.files = tmp.files
  BY <1>1, <1>2 DEF IsDirectory
<1>4. WordsGoneUpTo(tmp.files, item, nth)'
  <2>1. /\ \A k \in DOMAIN Replacements' : ~(k < 1) /\ k \in Nat
        /\ \A k \in DOMAIN Replacements' : \A j \in DOMAIN Replacements'[k].files : ~(j < 1)
    BY <1>1, <1>2, StarterShape DEF Replacements
  <2>2. item' = 1 /\ nth' = 1
    BY <1>1, <1>2
  <2>3. QED
    BY <2>1, <2>2 DEF WordsGoneUpTo
<1>5. \A name \in DOMAIN tmp'.files : IsFile(tmp'.files[name]) /\ tmp'.files[name].was = name
  BY <1>1, <1>2, <1>3
<1>6. \A name \in DOMAIN tmp'.files : tmp'.files[name].was # "link"
  BY <1>1, <1>3
<1>7. Tree'
  BY <1>1, <1>2, <1>3, <1>4, <1>5, <1>6 DEF Tree, Cloned, Worded, Licensed
<1>8. Places'
  BY <1>1 DEF ProjectInv, Places
<1>9. QED
  BY <1>1, <1>7, <1>8, OutwardStays DEF ProjectInv, Settled, Stages

LEMMA BootstrapInv == ASSUME ProjectInv, Bootstrap PROVE ProjectInv'
<1> DEFINE one == With(tmp.files, "generated", WrittenBy("bootstrap"))
           after == With(one, "cache", WrittenBy("bootstrap"))
<1>1. /\ stage = "bootstrap" /\ stage' = "cleanup" /\ item' = item /\ nth' = nth /\ outside' = outside
      /\ target' = target /\ starter' = starter /\ options' = options
      /\ tmp' = [tmp EXCEPT !.files = after]
  BY DEF Bootstrap, Continue
<1>2. /\ starter \in Starters /\ IsDirectory(tmp) /\ item = 1 /\ nth \in Nat \ {0}
      /\ \A name \in DOMAIN tmp.files : IsFile(tmp.files[name]) /\ tmp.files[name].was # "link"
      /\ WordsGone(tmp.files) /\ GeneratedFresh(tmp.files) /\ LicenseHolds(tmp.files)
  BY <1>1 DEF ProjectInv, Tree, Places, Cloned, Worded, Licensed
<1>3. /\ DOMAIN after = DOMAIN tmp.files \cup {"generated", "cache"}
      /\ \A name \in DOMAIN after : \/ name \in {"generated", "cache"} /\ after[name] = WrittenBy("bootstrap")
                                    \/ name \in DOMAIN tmp.files /\ after[name] = tmp.files[name]
      /\ "LICENSE" \in DOMAIN tmp.files => after["LICENSE"] = tmp.files["LICENSE"]
  <2>1. /\ DOMAIN one = DOMAIN tmp.files \cup {"generated"} /\ one["generated"] = WrittenBy("bootstrap")
        /\ \A n \in DOMAIN tmp.files : n # "generated" => one[n] = tmp.files[n]
    BY DEF With
  <2> HIDE DEF one
  <2>2. /\ DOMAIN after = DOMAIN one \cup {"cache"} /\ after["cache"] = WrittenBy("bootstrap")
        /\ \A n \in DOMAIN one : n # "cache" => after[n] = one[n]
    BY DEF With
  <2> HIDE DEF after
  <2>3. QED
    BY <2>1, <2>2
<1> HIDE DEF after, one
<1>4. IsDirectory(tmp') /\ tmp'.files = after
  BY <1>1, <1>2 DEF IsDirectory
<1>5. WordsGone(after) /\ \A name \in DOMAIN after : IsFile(after[name]) /\ after[name].was # "link"
  <2>1. \A name \in DOMAIN after : \/ after[name] \in {WrittenBy("license"), WrittenBy("bootstrap")}
                                   \/ \E n \in DOMAIN tmp.files : after[name] = tmp.files[n]
    BY <1>3
  <2>2. QED
    BY <1>2, <2>1, WordsStayGone
<1>6. GeneratedFresh(after)
  BY <1>2, <1>3 DEF GeneratedFresh, WrittenBy
<1>7. LicenseHolds(after)
  BY <1>2, <1>3 DEF LicenseHolds
<1>8. GoneUpTo(starter.manifest.cleanup, after, 1)
  BY <1>2, StarterShape DEF GoneUpTo
<1>9. Tree'
  BY <1>1, <1>2, <1>4, <1>5, <1>6, <1>7, <1>8
  DEF Tree, Cloned, Worded, Licensed, WordsGone, GeneratedFresh, LicenseHolds, GoneUpTo, IsFile, IsDirectory, Replacements
<1>10. Places'
  BY <1>1, <1>2 DEF ProjectInv, Places
<1>11. QED
  BY <1>1, <1>9, <1>10, OutwardStays DEF ProjectInv, Settled, Stages

LEMMA WriteLicenseInv == ASSUME ProjectInv, WriteLicense PROVE ProjectInv'
<1> DEFINE after == License(tmp.files)
<1>1. /\ stage = "license" /\ stage' = "bootstrap" /\ item' = item /\ nth' = nth /\ outside' = outside
      /\ target' = target /\ starter' = starter /\ options' = options
      /\ tmp' = [tmp EXCEPT !.files = after]
  BY DEF WriteLicense, Continue
<1>2. /\ starter \in Starters /\ IsDirectory(tmp) /\ item = 1 /\ nth \in Nat \ {0}
      /\ \A name \in DOMAIN tmp.files : IsFile(tmp.files[name]) /\ tmp.files[name].was # "link"
      /\ WordsGone(tmp.files) /\ GeneratedFresh(tmp.files)
  BY <1>1 DEF ProjectInv, Tree, Places, Cloned, Worded, Licensed
<1>3. /\ \A name \in DOMAIN after : \/ name = "LICENSE" /\ after[name] = WrittenBy("license")
                                    \/ name \in DOMAIN tmp.files /\ after[name] = tmp.files[name]
      /\ "LICENSE" \in DOMAIN after <=> options.license = "mit"
      /\ "LICENSE" \in DOMAIN after => after["LICENSE"] = WrittenBy("license")
  <2>1. CASE options.license = "mit"
    <3>1. after = With(tmp.files, "LICENSE", WrittenBy("license"))
      BY <2>1 DEF License
    <3> HIDE DEF after
    <3>2. QED
      BY <2>1, <3>1 DEF With
  <2>2. CASE options.license # "mit"
    <3>1. after = Without(tmp.files, "LICENSE")
      BY <2>2 DEF License
    <3> HIDE DEF after
    <3>2. QED
      BY <2>2, <3>1 DEF Without, Restrict
  <2>3. QED
    BY <2>1, <2>2
<1> HIDE DEF after
<1>4. IsDirectory(tmp') /\ tmp'.files = after
  BY <1>1, <1>2 DEF IsDirectory
<1>5. WordsGone(after) /\ \A name \in DOMAIN after : IsFile(after[name]) /\ after[name].was # "link"
  <2>1. \A name \in DOMAIN after : \/ after[name] \in {WrittenBy("license"), WrittenBy("bootstrap")}
                                   \/ \E n \in DOMAIN tmp.files : after[name] = tmp.files[n]
    BY <1>3
  <2>2. QED
    BY <1>2, <2>1, WordsStayGone
<1>6. GeneratedFresh(after)
  BY <1>2, <1>3 DEF GeneratedFresh
<1>7. LicenseHolds(after)
  BY <1>3 DEF LicenseHolds, WrittenBy
<1>8. Tree'
  BY <1>1, <1>2, <1>4, <1>5, <1>6, <1>7
  DEF Tree, Cloned, Worded, Licensed, WordsGone, GeneratedFresh, LicenseHolds, IsFile, IsDirectory, Replacements
<1>9. Places'
  BY <1>1, <1>2 DEF ProjectInv, Places
<1>10. QED
  BY <1>1, <1>8, <1>9, OutwardStays DEF ProjectInv, Settled, Stages

LEMMA EndLoopInv == ASSUME ProjectInv, EndLoop PROVE ProjectInv'
<1>1. /\ stage \in {"replace", "rename", "generated"} /\ stage' \in {"rename", "generated", "license"}
      /\ item' = 1 /\ nth' = nth /\ outside' = outside /\ target' = target /\ starter' = starter
      /\ options' = options /\ tmp' = tmp
  BY DEF EndLoop, Continue
<1>2. /\ starter \in Starters /\ IsDirectory(tmp) /\ item \in Nat \ {0} /\ nth \in Nat \ {0}
      /\ \A name \in DOMAIN tmp.files : IsFile(tmp.files[name]) /\ tmp.files[name].was # "link"
  BY <1>1 DEF ProjectInv, Tree, Places, Cloned
<1>3. WordsGone(tmp.files)
  <2>1. CASE stage = "replace"
    <3>1. item > Len(Replacements) /\ WordsGoneUpTo(tmp.files, item, nth)
      BY <2>1 DEF EndLoop, Continue, ProjectInv, Tree
    <3>2. \A k \in DOMAIN Replacements : k < item
      BY <1>2, <3>1, StarterShape DEF Replacements
    <3>3. QED
      BY <3>1, <3>2 DEF WordsGone, WordsGoneUpTo
  <2>2. CASE stage # "replace"
    BY <1>1, <2>2 DEF ProjectInv, Tree, Worded
  <2>3. QED
    BY <2>1, <2>2
<1>4. stage' = "generated" => GoneUpTo(starter.manifest.generated, tmp.files, 1)
  BY <1>2, StarterShape DEF GoneUpTo
<1>5. stage' = "license" => GeneratedFresh(tmp.files)
  <2>1. SUFFICES ASSUME stage' = "license" PROVE GeneratedFresh(tmp.files)
    OBVIOUS
  <2>2. stage = "generated" /\ item > Len(starter.manifest.generated)
    BY <2>1 DEF EndLoop, Continue
  <2>3. GoneUpTo(starter.manifest.generated, tmp.files, item)
    BY <2>2 DEF ProjectInv, Tree
  <2>4. \A k \in DOMAIN starter.manifest.generated : starter.manifest.generated[k] \notin DOMAIN tmp.files
    BY <1>2, <2>2, <2>3, StarterShape DEF GoneUpTo
  <2>5. QED
    BY <2>4 DEF GeneratedFresh, Range
<1>6. Tree'
  BY <1>1, <1>2, <1>3, <1>4, <1>5
  DEF Tree, Cloned, Worded, Licensed, WordsGone, GeneratedFresh, GoneUpTo, IsFile, IsDirectory, Replacements
<1>7. Places'
  BY <1>1, <1>2 DEF Places
<1>8. QED
  BY <1>1, <1>6, <1>7, OutwardStays DEF ProjectInv, Settled, Stages

-----------------------------------------------------------------------------
(* In the loops *)

LEMMA ReplaceWordInv == ASSUME ProjectInv, ReplaceWord PROVE ProjectInv'
<1> DEFINE r == Replacements[item]
           name == r.files[nth]
           file == tmp.files[name]
           less == [file EXCEPT !.words = @ \ {r.variable}]
           after == With(tmp.files, name, less)
<1>1. /\ stage = "replace" /\ item <= Len(Replacements) /\ name \in DOMAIN tmp.files
      /\ UNCHANGED <<stage, options, starter, target>>
      /\ IF file.was = "link" THEN outside' = outside \cup {name} /\ UNCHANGED tmp
         ELSE tmp' = [tmp EXCEPT !.files = after] /\ UNCHANGED outside
      /\ IF nth < Len(r.files) THEN nth' = nth + 1 /\ item' = item ELSE nth' = 1 /\ item' = item + 1
  BY DEF ReplaceWord
<1>2. /\ starter \in Starters /\ IsDirectory(tmp) /\ item \in Nat \ {0} /\ nth \in Nat \ {0}
      /\ \A n \in DOMAIN tmp.files : IsFile(tmp.files[n]) /\ tmp.files[n].was = n /\ tmp.files[n].was # "link"
      /\ WordsGoneUpTo(tmp.files, item, nth)
  BY <1>1, SMTT(60) DEF ProjectInv, Tree, Places, Cloned
<1>3. file = [was |-> name, words |-> file.words, text |-> file.text] /\ file.was # "link"
  BY <1>1, <1>2 DEF IsFile
<1> HIDE DEF file
<1>4. tmp' = [tmp EXCEPT !.files = after] /\ UNCHANGED outside
  BY <1>1, <1>3
<1>5. less = [was |-> name, words |-> file.words \ {r.variable}, text |-> file.text]
  BY <1>3
<1> HIDE DEF less
<1>6. /\ DOMAIN after = DOMAIN tmp.files /\ after[name] = less
      /\ \A n \in DOMAIN tmp.files : n # name => after[n] = tmp.files[n]
  BY <1>1 DEF With
<1>7. /\ item \in DOMAIN Replacements /\ Len(r.files) \in Nat /\ DOMAIN r.files = 1 .. Len(r.files)
      /\ \A k \in DOMAIN Replacements : k \in Nat
      /\ \A k \in DOMAIN Replacements : \A j \in DOMAIN Replacements[k].files : j \in Nat \ {0}
  BY <1>1, <1>2, StarterShape, SMTT(60) DEF Replacements
<1>8. \A n \in DOMAIN after : IsFile(after[n]) /\ after[n].was = n /\ after[n].was # "link"
  <2>1. IsFile(less) /\ less.was = name /\ less.was # "link"
    BY <1>3, <1>5 DEF IsFile
  <2> HIDE DEF after, name
  <2>2. QED
    BY <1>2, <1>6, <2>1
<1>9. WordsGoneUpTo(after, item', nth')
  <2>1. ASSUME NEW n \in DOMAIN after, NEW variable \in after[n].words, NEW k \in DOMAIN Replacements,
               NEW j \in DOMAIN Replacements[k].files, k < item' \/ (k = item' /\ j < nth'),
               variable = Replacements[k].variable, after[n].was = Replacements[k].files[j]
        PROVE  FALSE
    <3>1. k < item \/ (k = item /\ j < nth) \/ (k = item /\ j = nth)
      BY <1>1, <1>2, <1>7, <2>1
    <3>2. n \in DOMAIN tmp.files /\ variable \in tmp.files[n].words /\ tmp.files[n].was = after[n].was
      <4>1. less.words \subseteq tmp.files[name].words
        BY <1>5 DEF file
      <4> HIDE DEF after, name
      <4>2. QED
        BY <1>2, <1>6, <1>8, <2>1, <4>1
    <3>3. k = item /\ j = nth
      BY <1>2, <2>1, <3>1, <3>2 DEF WordsGoneUpTo
    <3>4. n = name /\ variable = r.variable
      BY <1>8, <2>1, <3>3
    <3>5. QED
      BY <1>5, <1>6, <2>1, <3>4
  <2> HIDE DEF after, r, name
  <2>2. QED
    BY <2>1 DEF WordsGoneUpTo
<1> HIDE DEF after
<1>10. IsDirectory(tmp') /\ tmp'.files = after
  BY <1>2, <1>4 DEF IsDirectory
<1>11. WordsGoneUpTo(tmp.files, item, nth)'
  BY <1>1, <1>9, <1>10 DEF WordsGoneUpTo, Replacements
<1>12. \A n \in DOMAIN tmp'.files : IsFile(tmp'.files[n]) /\ tmp'.files[n].was = n /\ tmp'.files[n].was # "link"
  BY <1>8, <1>10
<1> HIDE DEF r, name
<1>13. Tree'
  BY <1>1, <1>2, <1>10, <1>11, <1>12 DEF Tree, Cloned, Worded, Licensed
<1>14. Places'
  BY <1>1, <1>2 DEF Places
<1>15. Outward' /\ ProjectWhole'
  BY <1>1, <1>4, OutwardStays DEF Stages, Settled
<1>16. QED
  BY <1>13, <1>14, <1>15, SMTT(60) DEF ProjectInv

LEMMA RenamePathInv == ASSUME ProjectInv, RenamePath PROVE ProjectInv'
<1> DEFINE r == starter.manifest.renames[item]
           after == With(Without(tmp.files, r.path), r.variable, tmp.files[r.path])
<1>1. /\ stage = "rename" /\ r.path \in DOMAIN tmp.files /\ tmp' = [tmp EXCEPT !.files = after]
      /\ item' = item + 1 /\ UNCHANGED <<stage, options, starter, nth, target, outside>>
  BY DEF RenamePath
<1>2. /\ starter \in Starters /\ IsDirectory(tmp) /\ item \in Nat \ {0} /\ nth \in Nat \ {0}
      /\ \A n \in DOMAIN tmp.files : IsFile(tmp.files[n]) /\ tmp.files[n].was # "link"
      /\ WordsGone(tmp.files)
  BY <1>1, SMTT(60) DEF ProjectInv, Tree, Places, Cloned, Worded
<1>3. \A name \in DOMAIN after : \E n \in DOMAIN tmp.files : after[name] = tmp.files[n]
  BY <1>1 DEF With, Without, Restrict
<1> HIDE DEF after, r
<1>4. WordsGone(after) /\ \A name \in DOMAIN after : IsFile(after[name]) /\ after[name].was # "link"
  BY <1>2, <1>3, WordsStayGone
<1>5. IsDirectory(tmp') /\ tmp'.files = after
  BY <1>1, <1>2 DEF IsDirectory
<1>6. WordsGone(tmp.files)'
  BY <1>1, <1>4, <1>5 DEF WordsGone, Replacements
<1>7. Tree'
  BY <1>1, <1>2, <1>4, <1>5, <1>6 DEF Tree, Cloned, Worded, Licensed
<1>8. Places'
  BY <1>1, <1>2 DEF Places
<1>9. Outward' /\ ProjectWhole'
  BY <1>1, OutwardStays DEF Stages, Settled
<1>10. QED
  BY <1>7, <1>8, <1>9 DEF ProjectInv

\* Removing a path removes no other file and changes none.
LEMMA RemovePathKeeps ==
    ASSUME ProjectInv, NEW loop \in {"generated", "cleanup"}, NEW list, RemovePath(loop, list)
    PROVE  /\ tmp'.files = Without(tmp.files, list[item]) /\ IsDirectory(tmp')
           /\ DOMAIN tmp'.files = DOMAIN tmp.files \ {list[item]}
           /\ \A name \in DOMAIN tmp'.files : tmp'.files[name] = tmp.files[name]
           /\ WordsGone(tmp.files)'
           /\ \A name \in DOMAIN tmp'.files : IsFile(tmp'.files[name]) /\ tmp'.files[name].was # "link"
           /\ GoneUpTo(list, tmp.files, item) /\ DOMAIN list \subseteq Nat => GoneUpTo(list, tmp'.files, item')
           /\ Places' /\ Outward' /\ ProjectWhole'
<1> DEFINE after == Without(tmp.files, list[item])
<1>1. /\ stage = loop /\ tmp' = [tmp EXCEPT !.files = after] /\ item' = item + 1
      /\ UNCHANGED <<stage, options, starter, nth, target, outside>>
  BY DEF RemovePath
<1>2. /\ starter \in Starters /\ IsDirectory(tmp) /\ item \in Nat \ {0} /\ nth \in Nat \ {0}
      /\ \A n \in DOMAIN tmp.files : IsFile(tmp.files[n]) /\ tmp.files[n].was # "link"
      /\ WordsGone(tmp.files)
  BY <1>1 DEF ProjectInv, Tree, Places, Cloned, Worded
<1>3. /\ DOMAIN after = DOMAIN tmp.files \ {list[item]}
      /\ \A name \in DOMAIN after : after[name] = tmp.files[name]
  BY DEF Without, Restrict
<1> HIDE DEF after
<1>4. WordsGone(after) /\ \A name \in DOMAIN after : IsFile(after[name]) /\ after[name].was # "link"
  BY <1>2, <1>3, WordsStayGone
<1>5. IsDirectory(tmp') /\ tmp'.files = after
  BY <1>1, <1>2 DEF IsDirectory
<1>6. WordsGone(tmp.files)'
  BY <1>1, <1>4, <1>5 DEF WordsGone, Replacements
<1>7. GoneUpTo(list, tmp.files, item) /\ DOMAIN list \subseteq Nat => GoneUpTo(list, tmp'.files, item')
  BY <1>1, <1>2, <1>3, <1>5 DEF GoneUpTo
<1>8. Places'
  BY <1>1, <1>2 DEF Places
<1>9. Outward' /\ ProjectWhole'
  BY <1>1, OutwardStays DEF Stages, Settled
<1>10. QED
  BY <1>3, <1>4, <1>5, <1>6, <1>7, <1>8, <1>9 DEF after

LEMMA RemoveGeneratedInv == ASSUME ProjectInv, RemoveGenerated PROVE ProjectInv'
<1> DEFINE list == starter.manifest.generated
<1>1. RemovePath("generated", list)
  BY DEF RemoveGenerated
<1>2. stage = "generated" /\ UNCHANGED <<stage, starter>>
  BY <1>1 DEF RemovePath
<1>3. starter \in Starters /\ GoneUpTo(list, tmp.files, item) /\ DOMAIN list \subseteq Nat
  BY <1>2, StarterShape DEF ProjectInv, Tree, Cloned
<1> HIDE DEF list
<1>4. GoneUpTo(list, tmp.files, item)'
  BY <1>1, <1>2, <1>3, RemovePathKeeps DEF GoneUpTo, list
<1>5. Tree'
  BY <1>1, <1>2, <1>3, <1>4, RemovePathKeeps DEF Tree, Cloned, Worded, Licensed, list
<1>6. QED
  BY <1>1, <1>5, RemovePathKeeps DEF ProjectInv

LEMMA CleanUpInv == ASSUME ProjectInv, CleanUp PROVE ProjectInv'
<1> DEFINE list == starter.manifest.cleanup
<1>1. RemovePath("cleanup", list)
  BY DEF CleanUp
<1>2. stage = "cleanup" /\ item <= Len(list) /\ UNCHANGED <<stage, starter, options>>
  BY <1>1 DEF RemovePath
<1>3. /\ starter \in Starters /\ GoneUpTo(list, tmp.files, item) /\ DOMAIN list = 1 .. Len(list) /\ Len(list) \in Nat
      /\ item \in Nat \ {0} /\ GeneratedFresh(tmp.files) /\ LicenseHolds(tmp.files)
  BY <1>2, StarterShape DEF ProjectInv, Tree, Places, Cloned, Licensed
<1>4. item \in DOMAIN list /\ list[item] \in Range(list) /\ DOMAIN list \subseteq Nat
  BY <1>2, <1>3 DEF Range
<1> HIDE DEF list
<1>5. GoneUpTo(list, tmp.files, item)'
  BY <1>1, <1>2, <1>3, <1>4, RemovePathKeeps DEF GoneUpTo, list
<1>6. /\ DOMAIN tmp'.files = DOMAIN tmp.files \ {list[item]}
      /\ \A name \in DOMAIN tmp'.files : tmp'.files[name] = tmp.files[name]
  BY <1>1, RemovePathKeeps
<1>7. GeneratedFresh(tmp.files)'
  BY <1>2, <1>3, <1>6 DEF GeneratedFresh
<1>8. LicenseHolds(tmp.files)'
  BY <1>2, <1>3, <1>4, <1>6 DEF LicenseHolds, list
<1>9. Tree'
  BY <1>1, <1>2, <1>3, <1>5, <1>7, <1>8, RemovePathKeeps DEF Tree, Cloned, Worded, Licensed, list
<1>10. QED
  BY <1>1, <1>9, RemovePathKeeps DEF ProjectInv

LEMMA RemoveManifestInv == ASSUME ProjectInv, RemoveManifest PROVE ProjectInv'
<1> DEFINE after == Without(tmp.files, "manifest")
           list == starter.manifest.cleanup
<1>1. /\ stage = "cleanup" /\ stage' = "git" /\ item > Len(list) /\ tmp' = [tmp EXCEPT !.files = after]
      /\ UNCHANGED <<options, starter, item, nth, target, outside>>
  BY DEF RemoveManifest, Continue
<1>2. /\ starter \in Starters /\ IsDirectory(tmp) /\ item \in Nat \ {0} /\ nth \in Nat \ {0}
      /\ \A n \in DOMAIN tmp.files : IsFile(tmp.files[n]) /\ tmp.files[n].was # "link"
      /\ WordsGone(tmp.files) /\ GeneratedFresh(tmp.files) /\ LicenseHolds(tmp.files)
      /\ GoneUpTo(list, tmp.files, item) /\ DOMAIN list = 1 .. Len(list) /\ Len(list) \in Nat
  BY <1>1, StarterShape DEF ProjectInv, Tree, Places, Cloned, Worded, Licensed
<1>3. /\ DOMAIN after = DOMAIN tmp.files \ {"manifest"}
      /\ \A name \in DOMAIN after : after[name] = tmp.files[name]
  BY DEF Without, Restrict
<1>4. DOMAIN tmp.files \cap Range(list) = {}
  BY <1>1, <1>2 DEF GoneUpTo, Range
<1> HIDE DEF after, list
<1>5. WordsGone(after) /\ \A name \in DOMAIN after : IsFile(after[name]) /\ after[name].was # "link"
  BY <1>2, <1>3, WordsStayGone
<1>6. IsDirectory(tmp') /\ tmp'.files = after
  BY <1>1, <1>2 DEF IsDirectory
<1>7. WordsGone(tmp.files)'
  BY <1>1, <1>5, <1>6 DEF WordsGone, Replacements
<1>8. GeneratedFresh(tmp.files)' /\ LicenseHolds(tmp.files)'
  BY <1>1, <1>2, <1>3, <1>6 DEF GeneratedFresh, LicenseHolds
<1>9. (DOMAIN tmp.files \cap Range(starter.manifest.cleanup) = {} /\ "manifest" \notin DOMAIN tmp.files)'
  BY <1>1, <1>3, <1>4, <1>6 DEF list
<1>10. Tree'
  BY <1>1, <1>2, <1>5, <1>6, <1>7, <1>8, <1>9 DEF Tree, Cloned, Worded, Licensed
<1>11. Places'
  BY <1>1, <1>2 DEF Places
<1>12. Outward' /\ ProjectWhole'
  BY <1>1, OutwardStays DEF Stages, Settled
<1>13. QED
  BY <1>10, <1>11, <1>12 DEF ProjectInv

-----------------------------------------------------------------------------
(* After the loops *)

LEMMA GitInitInv == ASSUME ProjectInv, GitInit PROVE ProjectInv'
<1>1. /\ stage = "git" /\ stage' = "move" /\ tmp' = [tmp EXCEPT !.git = "fresh"]
      /\ UNCHANGED <<options, starter, item, nth, target, outside>>
  BY DEF GitInit, Continue, VerifyRepository
<1>2. /\ starter \in Starters /\ IsDirectory(tmp) /\ item \in Nat \ {0} /\ nth \in Nat \ {0}
      /\ \A n \in DOMAIN tmp.files : IsFile(tmp.files[n]) /\ tmp.files[n].was # "link"
      /\ WordsGone(tmp.files) /\ GeneratedFresh(tmp.files) /\ LicenseHolds(tmp.files)
      /\ DOMAIN tmp.files \cap Range(starter.manifest.cleanup) = {} /\ "manifest" \notin DOMAIN tmp.files
  BY <1>1 DEF ProjectInv, Tree, Places, Cloned, Worded, Licensed
<1>3. IsDirectory(tmp') /\ tmp'.files = tmp.files /\ tmp'.git = "fresh"
  BY <1>1, <1>2 DEF IsDirectory
<1>4. WordsGone(tmp.files)' /\ GeneratedFresh(tmp.files)' /\ LicenseHolds(tmp.files)'
  BY <1>1, <1>2, <1>3 DEF WordsGone, Replacements, GeneratedFresh, LicenseHolds
<1>5. Tree'
  BY <1>1, <1>2, <1>3, <1>4 DEF Tree, Cloned, Worded, Licensed
<1>6. Places'
  BY <1>1, <1>2 DEF Places
<1>7. Outward' /\ ProjectWhole'
  BY <1>1, OutwardStays DEF Stages, Settled
<1>8. QED
  BY <1>5, <1>6, <1>7 DEF ProjectInv

LEMMA MovedProject == ASSUME ProjectInv, Move PROVE ProjectInv'
<1>1. /\ stage = "move" /\ stage' = "created" /\ tmp' = NoDirectory /\ target' = [tmp EXCEPT !.kind = "project"]
      /\ UNCHANGED <<options, starter, item, nth, outside>>
  BY DEF Move, Continue
<1>2. /\ starter \in Starters /\ IsDirectory(tmp) /\ item \in Nat \ {0} /\ nth \in Nat \ {0}
      /\ WordsGone(tmp.files) /\ GeneratedFresh(tmp.files) /\ LicenseHolds(tmp.files) /\ tmp.git = "fresh"
      /\ DOMAIN tmp.files \cap Range(starter.manifest.cleanup) = {} /\ "manifest" \notin DOMAIN tmp.files
      /\ outside = {}
  BY <1>1 DEF ProjectInv, Tree, Places, Cloned, Worded, Licensed, Outward
<1>3. target'.kind = "project" /\ target'.git = "fresh" /\ target'.files = tmp.files
  BY <1>1, <1>2 DEF IsDirectory
<1> DEFINE manifest == starter.manifest
           Listed == UNION {{<<manifest.replacements[i].variable, f>> :
                               f \in Range(manifest.replacements[i].files)} : i \in DOMAIN manifest.replacements}
<1>4. \A name \in DOMAIN tmp.files : \A variable \in tmp.files[name].words :
        <<variable, tmp.files[name].was>> \notin Listed
  <2>1. ASSUME NEW name \in DOMAIN tmp.files, NEW variable \in tmp.files[name].words,
               <<variable, tmp.files[name].was>> \in Listed
        PROVE  FALSE
    <3>1. PICK i \in DOMAIN Replacements :
             <<variable, tmp.files[name].was>> \in {<<Replacements[i].variable, f>> : f \in Range(Replacements[i].files)}
      BY <2>1 DEF Replacements
    <3>2. PICK j \in DOMAIN Replacements[i].files :
             variable = Replacements[i].variable /\ tmp.files[name].was = Replacements[i].files[j]
      BY <3>1 DEF Range
    <3>3. QED
      BY <1>2, <2>1, <3>2 DEF WordsGone
  <2>2. QED
    BY <2>1
<1>5. ProjectWhole'
  <2> HIDE DEF Listed
  <2>1. Listed' = Listed
    BY <1>1 DEF Listed
  <2>2. /\ \A name \in DOMAIN tmp.files \cap Range(manifest.generated) :
             tmp.files[name].was = "bootstrap" \/ name = "LICENSE"
        /\ "LICENSE" \in DOMAIN tmp.files => options.license = "mit" /\ tmp.files["LICENSE"].was = "license"
        /\ options.license = "mit" => "LICENSE" \in DOMAIN tmp.files \cup Range(manifest.cleanup)
    BY <1>2 DEF GeneratedFresh, LicenseHolds
  <2>3. QED
    BY <1>1, <1>2, <1>3, <1>4, <2>1, <2>2 DEF ProjectWhole, Listed
<1>6. Tree' /\ Places'
  BY <1>1, <1>2 DEF Tree, Places, Cloned, Worded, Licensed
<1>7. Outward'
  BY <1>1, <1>2, <1>3 DEF Outward, Stages, Settled
<1>8. QED
  BY <1>5, <1>6, <1>7 DEF ProjectInv

\* An error or a kill, at any stage.
LEMMA EndedInv ==
    ASSUME ProjectInv, Refuse \/ Die
    PROVE  ProjectInv'
<1>1. /\ stage \notin Settled /\ stage' \in {"refused", "dead"}
      /\ stage' = "refused" => tmp' = NoDirectory
      /\ UNCHANGED <<options, starter, item, nth, target, outside>>
  BY DEF Refuse, Die
<1>2. Tree' /\ Places'
  BY <1>1 DEF ProjectInv, Tree, Places, Cloned, Worded, Licensed
<1>3. Outward' /\ ProjectWhole'
  BY <1>1, OutwardStays DEF Stages, Settled
<1>4. QED
  BY <1>2, <1>3 DEF ProjectInv

LEMMA SameTree ==
    ASSUME ProjectInv, UNCHANGED <<stage, options, starter, item, nth, tmp>>
    PROVE  Tree' /\ Places'
<1>1. Places'
  BY DEF ProjectInv, Places
<1>2. Tree'
  BY DEF ProjectInv, Tree, IsFile, IsDirectory, WordsGoneUpTo, WordsGone, GoneUpTo, GeneratedFresh, LicenseHolds, Replacements
<1>3. QED
  BY <1>1, <1>2

LEMMA TakeInv == ASSUME ProjectInv, Take PROVE ProjectInv'
<1>1. /\ stage \notin Settled /\ target'.kind # "project"
      /\ UNCHANGED <<stage, options, starter, item, nth, tmp, outside>>
  BY DEF Take, NoDirectory
<1>2. Outward' /\ ProjectWhole'
  BY <1>1, OutwardStays DEF ProjectInv, Outward, Stages, Settled
<1>3. QED
  BY <1>1, <1>2, SameTree DEF ProjectInv

LEMMA ProjectNextInv == ProjectInv /\ [InitNext]_initVars => ProjectInv'
<1> SUFFICES ASSUME ProjectInv, [InitNext]_initVars PROVE ProjectInv'
  OBVIOUS
<1>1. CASE Start \/ Clone \/ Strip
  BY <1>1, StartInv, CloneInv, StripInv
<1>2. CASE ReplaceWord \/ RenamePath \/ RemoveGenerated \/ EndLoop
  BY <1>2, ReplaceWordInv, RenamePathInv, RemoveGeneratedInv, EndLoopInv
<1>3. CASE WriteLicense \/ Bootstrap \/ CleanUp \/ RemoveManifest
  BY <1>3, WriteLicenseInv, BootstrapInv, CleanUpInv, RemoveManifestInv
<1>4. CASE GitInit \/ Move
  BY <1>4, GitInitInv, MovedProject
<1>5. CASE Refuse \/ Die \/ Take
  BY <1>5, EndedInv, TakeInv
<1>6. CASE UNCHANGED initVars
  <2>1. UNCHANGED <<stage, options, starter, item, nth, tmp, target, outside>>
    BY <1>6 DEF initVars
  <2>2. Outward'
    BY <2>1 DEF ProjectInv, Outward
  <2>3. ProjectWhole'
    BY <2>1 DEF ProjectInv, ProjectWhole
  <2>4. QED
    BY <2>1, <2>2, <2>3, SameTree DEF ProjectInv
<1>7. QED
  BY <1>1, <1>2, <1>3, <1>4, <1>5, <1>6 DEF InitNext

\* Whatever a starter holds and whatever step fails: the target is a whole project of the
\* user's own or as it was, and nothing else is touched.
THEOREM ProjectsAreWhole == InitSpec => []InitWhole
<1>1. InitSpec => []ProjectInv
  BY ProjectInitInv, ProjectNextInv, PTL DEF InitSpec
<1>2. ProjectInv => InitWhole
  BY DEF ProjectInv, Outward, InitWhole, OnlyTheTarget
<1>3. QED
  BY <1>1, <1>2, PTL
=============================================================================
