------------------------- MODULE AccessSessionProof -------------------------
(***************************************************************************)
(* Proofs about AccessSession for any requests, origins and bounds.        *)
(***************************************************************************)
EXTENDS AccessSession, TLAPS

\* The lookup of origin o, from its creation to its end.
LookupSound(o) ==
    /\ lookups[o] = Missing => reader[o] = "none"
    /\ reader[o] = "none" => lookups[o] \in {Missing, Pending} /\ runs[o] = 0
    /\ reader[o] # "none" => runs[o] = 1
    /\ reader[o] \in {"running", "read"} => lookups[o] = Pending
    /\ reader[o] = "over" => lookups[o] # Missing /\ lookups[o].done
    /\ parents[o] = {}
    /\ reader[o] = "read" => found[o] \in {t \in Token : t.origin = o} \cup {Failed}

\* What origin o received is what its lookup brought.
ResultSound(o) ==
    /\ lookups[o] # Missing /\ lookups[o].done =>
         lookups[o].result \in {t \in Token : t.origin = o} \cup {Failed}
    /\ seen[o] # {} => lookups[o] # Missing /\ lookups[o].done /\ seen[o] = {lookups[o].result}

\* The lookup request r has met.
RequestSound(r) ==
    /\ pc[r] # "idle" => calls >= 1
    /\ pc[r] = "creating" => lookups[origin[r]] = Pending /\ reader[origin[r]] = "none"
    /\ pc[r] \in {"waiting", "checking"} => lookups[origin[r]] # Missing
    /\ pc[r] = "checking" => lookups[origin[r]].done
    /\ pc[r] \in {"entering", "creating", "waiting", "checking"} => answer[r] = NoAnswer
    /\ pc[r] = "sending" => answer[r] \in Token
    /\ answer[r] \in Token =>
         /\ lookups[origin[r]] # Missing /\ lookups[origin[r]].done
         /\ answer[r] = lookups[origin[r]].result
    /\ answer[r] = Cancelled => done[r]
    /\ shown[r] \subseteq seen[origin[r]]
    /\ pc[r] # "failing" => shown[r] = {}

\* One request starts the lookup of an origin.
OneCreator ==
    \A r, q \in Requests :
        pc[r] = "creating" /\ pc[q] = "creating" /\ origin[r] = origin[q] => r = q

IInv ==
    /\ TypeOK
    /\ \A o \in Origins : LookupSound(o) /\ ResultSound(o)
    /\ \A r \in Requests : RequestSound(r)
    /\ OneCreator

USE AccessSessionAssumption DEF Errors

LEMMA LookupShape ==
    ASSUME NEW l \in Lookup \cup {Missing}
    PROVE  /\ l = Pending => l # Missing /\ ~l.done
           /\ l # Missing /\ l.done => l.result \in Token \cup Errors
           /\ l # Missing /\ ~l.done => l = Pending
<1>1. Pending.done = FALSE /\ Pending \in [done : BOOLEAN, result : Token \cup Errors \cup {Nothing}]
  BY DEF Pending
<1>2. Pending # Missing
  BY <1>1
<1>3. CASE l \in [done : {TRUE}, result : Token \cup Errors]
  BY <1>1, <1>2, <1>3
<1>4. CASE l \in {Pending, Missing}
  BY <1>1, <1>2, <1>4
<1>5. QED
  BY <1>3, <1>4 DEF Lookup

LEMMA InitIInv == Init => IInv
<1> SUFFICES ASSUME Init PROVE IInv
  OBVIOUS
<1>1. TypeOK
  BY DEF Init, TypeOK
<1>2. \A o \in Origins : LookupSound(o) /\ ResultSound(o)
  BY DEF Init, LookupSound, ResultSound
<1>3. (\A r \in Requests : RequestSound(r)) /\ OneCreator
  BY DEF Init, RequestSound, OneCreator, Token
<1>4. QED
  BY <1>1, <1>2, <1>3 DEF IInv

-----------------------------------------------------------------------------
(* Each step keeps the invariant *)

LEMMA CallStep == ASSUME IInv, NEW r \in Requests, Call(r) PROVE IInv'
<1> USE DEF Call, IInv, lookup
<1>1. TypeOK'
  BY DEF TypeOK
<1>2. \A o \in Origins : (LookupSound(o) /\ ResultSound(o))'
  BY DEF LookupSound, ResultSound
<1>3. ASSUME NEW q \in Requests PROVE RequestSound(q)'
  <2>1. CASE q = r
    BY <2>1 DEF TypeOK, RequestSound
  <2>2. CASE q # r
    BY <2>2 DEF TypeOK, RequestSound
  <2>3. QED
    BY <2>1, <2>2
<1>4. OneCreator'
  BY DEF OneCreator, TypeOK
<1>5. QED
  BY <1>1, <1>2, <1>3, <1>4

\* token returns to request r: no other request and no lookup is touched.
LEMMA ReturnStep ==
    ASSUME IInv, NEW r \in Requests, NEW a \in Token \cup Errors \cup {Expired}, Return(r, a),
           pc[r] # "idle", pc[r] # "failing", UNCHANGED <<lookup, shown>>, RestUnchanged,
           a \in Token => /\ lookups[origin[r]] # Missing /\ lookups[origin[r]].done
                          /\ a = lookups[origin[r]].result,
           a = Cancelled => done[r]
    PROVE  IInv'
<1> USE DEF Return, IInv, lookup, RestUnchanged
<1>1. TypeOK'
  BY DEF TypeOK
<1>2. \A o \in Origins : (LookupSound(o) /\ ResultSound(o))'
  BY DEF LookupSound, ResultSound
<1>3. ASSUME NEW q \in Requests PROVE RequestSound(q)'
  <2>1. CASE q = r
    BY <2>1 DEF TypeOK, RequestSound
  <2>2. CASE q # r
    BY <2>2 DEF TypeOK, RequestSound
  <2>3. QED
    BY <2>1, <2>2
<1>4. OneCreator'
  BY DEF OneCreator, TypeOK
<1>5. QED
  BY <1>1, <1>2, <1>3, <1>4

LEMMA EnterStep == ASSUME IInv, NEW r \in Requests, Enter(r) PROVE IInv'
<1> USE DEF Enter, IInv, RestUnchanged
<1> DEFINE o == origin[r]
<1>1. CASE done[r]
  BY <1>1, ReturnStep DEF lookup
<1>2. CASE ~done[r] /\ lookups[o] # Missing
  <2>1. pc' = [pc EXCEPT ![r] = "waiting"] /\ UNCHANGED <<lookup, answer, shown>>
    BY <1>2 DEF lookup
  <2>2. TypeOK'
    BY <2>1 DEF TypeOK, lookup
  <2>3. \A u \in Origins : (LookupSound(u) /\ ResultSound(u))'
    BY <2>1 DEF LookupSound, ResultSound, lookup
  <2>4. ASSUME NEW q \in Requests PROVE RequestSound(q)'
    <3>1. CASE q = r
      BY <1>2, <2>1, <3>1 DEF TypeOK, RequestSound, lookup
    <3>2. CASE q # r
      BY <2>1, <3>2 DEF TypeOK, RequestSound, lookup
    <3>3. QED
      BY <3>1, <3>2
  <2>5. OneCreator'
    BY <2>1 DEF OneCreator, TypeOK
  <2>6. QED
    BY <2>2, <2>3, <2>4, <2>5
<1>3. CASE ~done[r] /\ lookups[o] = Missing
  <2>1. /\ o \in Origins /\ lookups' = [lookups EXCEPT ![o] = Pending]
        /\ pc' = [pc EXCEPT ![r] = "creating"] /\ UNCHANGED <<reader, found, parents, answer, shown>>
    BY <1>3 DEF TypeOK
  <2>2. Pending \in Lookup /\ Pending # Missing /\ ~Pending.done
    BY LookupShape DEF Lookup, Pending
  <2>3. lookups'[o] = Pending /\ \A u \in Origins \ {o} : lookups'[u] = lookups[u]
    BY <2>1 DEF TypeOK
  <2>4. TypeOK'
    BY <2>1, <2>2 DEF TypeOK
  <2>5. ASSUME NEW u \in Origins PROVE (LookupSound(u) /\ ResultSound(u))'
    <3>1. CASE u = o
      BY <1>3, <2>1, <2>2, <2>3, <3>1 DEF LookupSound, ResultSound
    <3>2. CASE u # o
      BY <2>1, <2>3, <3>2 DEF LookupSound, ResultSound
    <3>3. QED
      BY <3>1, <3>2
  <2>6. ASSUME NEW q \in Requests PROVE RequestSound(q)'
    <3>1. CASE q = r
      BY <1>3, <2>1, <2>2, <2>3, <3>1 DEF TypeOK, RequestSound, LookupSound
    <3>2. CASE q # r
      <4>1. pc'[q] = pc[q] /\ origin[q] \in Origins
        BY <2>1, <3>2 DEF TypeOK
      <4>2. CASE origin[q] = o
        BY <1>3, <2>1, <2>2, <2>3, <4>1, <4>2 DEF RequestSound, LookupSound
      <4>3. CASE origin[q] # o
        BY <2>1, <2>3, <4>1, <4>3 DEF RequestSound
      <4>4. QED
        BY <4>2, <4>3
    <3>3. QED
      BY <3>1, <3>2
  <2>7. OneCreator'
    BY <1>3, <2>1, <2>2 DEF OneCreator, TypeOK, RequestSound
  <2>8. QED
    BY <2>4, <2>5, <2>6, <2>7
<1>4. QED
  BY <1>1, <1>2, <1>3

LEMMA StartStep == ASSUME IInv, NEW r \in Requests, Start(r) PROVE IInv'
<1> USE DEF Start, IInv, LookupParents
<1> DEFINE o == origin[r]
<1>1. /\ o \in Origins /\ reader' = [reader EXCEPT ![o] = "running"] /\ pc' = [pc EXCEPT ![r] = "waiting"]
      /\ runs' = [runs EXCEPT ![o] = @ + 1] /\ parents' = [parents EXCEPT ![o] = {}]
      /\ UNCHANGED <<clock, lookups, found, origin, done, answer, shown, calls, seen>>
  BY DEF TypeOK
<1>2. lookups[o] = Pending /\ reader[o] = "none" /\ runs[o] = 0 /\ calls >= 1 /\ Pending # Missing /\ ~Pending.done
  <2>1. lookups[o] = Pending /\ reader[o] = "none" /\ calls >= 1
    BY DEF RequestSound
  <2>2. runs[o] = 0
    BY <1>1, <2>1 DEF LookupSound
  <2>3. QED
    BY <2>1, <2>2, LookupShape DEF Lookup
<1>3. /\ reader'[o] = "running" /\ runs'[o] = 1 /\ parents'[o] = {}
      /\ \A u \in Origins \ {o} : reader'[u] = reader[u] /\ runs'[u] = runs[u] /\ parents'[u] = parents[u]
  BY <1>1, <1>2 DEF TypeOK
<1>4. TypeOK'
  <2>1. 1 \in 0 .. MaxCalls
    BY <1>2 DEF TypeOK
  <2>2. runs' \in [Origins -> 0 .. MaxCalls]
    BY <1>1, <1>2, <2>1 DEF TypeOK
  <2>3. QED
    BY <1>1, <2>2 DEF TypeOK
<1>5. ASSUME NEW u \in Origins PROVE (LookupSound(u) /\ ResultSound(u))'
  <2>1. CASE u = o
    BY <1>1, <1>2, <1>3, <2>1 DEF LookupSound, ResultSound
  <2>2. CASE u # o
    BY <1>1, <1>3, <2>2 DEF LookupSound, ResultSound
  <2>3. QED
    BY <2>1, <2>2
<1>6. ASSUME NEW q \in Requests PROVE RequestSound(q)'
  <2>1. CASE q = r
    BY <1>1, <1>2, <2>1 DEF TypeOK, RequestSound
  <2>2. CASE q # r
    <3>1. pc[q] = "creating" => origin[q] # o
      BY <2>2 DEF OneCreator, Start
    <3>2. pc'[q] = pc[q] /\ origin[q] \in Origins
      BY <1>1, <2>2 DEF TypeOK
    <3>3. QED
      BY <1>1, <1>3, <3>1, <3>2 DEF RequestSound
  <2>3. QED
    BY <2>1, <2>2
<1>7. OneCreator'
  BY <1>1 DEF OneCreator, TypeOK
<1>8. QED
  BY <1>4, <1>5, <1>6, <1>7

LEMMA ReadStep == ASSUME IInv, NEW o \in Origins, Read(o) PROVE IInv'
<1> USE DEF Read, IInv, RestUnchanged
<1>1. parents[o] = {} /\ reader[o] = "running"
  BY DEF LookupSound
<1>2. PICK t \in {t \in Token : t.origin = o} \cup {Failed} : found' = [found EXCEPT ![o] = t]
  BY <1>1
<1>3. /\ reader' = [reader EXCEPT ![o] = "read"] /\ UNCHANGED <<lookups, parents, pc, answer, shown>>
      /\ UNCHANGED <<clock, origin, done, calls, runs, seen>>
  OBVIOUS
<1>4. TypeOK'
  BY <1>2, <1>3 DEF TypeOK
<1>5. ASSUME NEW u \in Origins PROVE (LookupSound(u) /\ ResultSound(u))'
  <2>1. CASE u = o
    BY <1>1, <1>2, <1>3, <2>1 DEF TypeOK, LookupSound, ResultSound
  <2>2. CASE u # o
    BY <1>2, <1>3, <2>2 DEF TypeOK, LookupSound, ResultSound
  <2>3. QED
    BY <2>1, <2>2
<1>6. ASSUME NEW q \in Requests PROVE RequestSound(q)'
  BY <1>1, <1>3 DEF TypeOK, RequestSound
<1>7. OneCreator'
  BY <1>3 DEF OneCreator
<1>8. QED
  BY <1>4, <1>5, <1>6, <1>7

\* The lookup of a request ends.
LEMMA RequestServed ==
    ASSUME NEW q \in Requests, RequestSound(q), pc[q] # "creating", answer[q] \notin Token,
           UNCHANGED <<pc, answer, shown, calls, origin, done, seen>>,
           lookups'[origin'[q]] # Missing, lookups'[origin'[q]].done
    PROVE  RequestSound(q)'
BY DEF RequestSound

\* A lookup of another origin moves.
LEMMA RequestElsewhere ==
    ASSUME NEW q \in Requests, RequestSound(q), UNCHANGED <<pc, answer, shown, calls, origin, done, seen>>,
           lookups'[origin[q]] = lookups[origin[q]], reader'[origin[q]] = reader[origin[q]]
    PROVE  RequestSound(q)'
BY DEF RequestSound

LEMMA PublishStep == ASSUME IInv, NEW o \in Origins, Publish(o) PROVE IInv'
<1> USE DEF Publish, IInv, RestUnchanged
<1> DEFINE l == [done |-> TRUE, result |-> found[o]]
<1>1. lookups[o] = Pending /\ found[o] \in {t \in Token : t.origin = o} \cup {Failed}
  BY DEF LookupSound
<1>2. l \in Lookup /\ l # Missing /\ l.done /\ Pending # Missing /\ ~Pending.done
  <2>1. l \in [done : {TRUE}, result : Token \cup Errors] /\ l.done
    BY <1>1
  <2>2. l \in [done : BOOLEAN, result : Token \cup Errors \cup {Nothing}]
    BY <2>1
  <2>3. QED
    BY <2>1, <2>2, LookupShape DEF Lookup
<1>3. /\ reader' = [reader EXCEPT ![o] = "over"] /\ lookups' = [lookups EXCEPT ![o] = l]
      /\ UNCHANGED <<found, parents, pc, answer, shown, clock, origin, done, calls, runs, seen>>
  OBVIOUS
<1>4. TypeOK'
  BY <1>2, <1>3 DEF TypeOK
<1>5. /\ lookups'[o] = l /\ reader'[o] = "over"
      /\ \A u \in Origins \ {o} : lookups'[u] = lookups[u] /\ reader'[u] = reader[u]
  BY <1>3 DEF TypeOK
<1>6. ASSUME NEW u \in Origins PROVE (LookupSound(u) /\ ResultSound(u))'
  <2>1. CASE u = o
    <3>1. runs[o] = 1 /\ parents[o] = {} /\ seen[o] = {}
      BY <1>1, <1>2 DEF LookupSound, ResultSound
    <3>2. QED
      BY <1>1, <1>2, <1>3, <1>5, <2>1, <3>1 DEF LookupSound, ResultSound
  <2>2. CASE u # o
    BY <1>3, <1>5, <2>2 DEF LookupSound, ResultSound
  <2>3. QED
    BY <2>1, <2>2
<1>7. ASSUME NEW q \in Requests PROVE RequestSound(q)'
  <2>1. CASE origin[q] = o
    <3>1. pc[q] # "creating" /\ answer[q] \notin Token
      BY <1>1, <1>2, <2>1 DEF RequestSound
    <3>2. /\ lookups'[origin'[q]] # Missing /\ lookups'[origin'[q]].done
          /\ UNCHANGED <<pc, answer, shown, calls, origin, done, seen>>
      BY <1>2, <1>3, <1>5, <2>1
    <3>3. RequestSound(q)
      OBVIOUS
    <3>4. QED
      BY <3>1, <3>2, <3>3, RequestServed
  <2>2. CASE origin[q] # o
    <3>1. lookups'[origin[q]] = lookups[origin[q]] /\ reader'[origin[q]] = reader[origin[q]]
      BY <1>5, <2>2 DEF TypeOK
    <3>2. QED
      BY <1>3, <3>1, RequestElsewhere
  <2>3. QED
    BY <2>1, <2>2
<1>8. OneCreator'
  BY <1>3 DEF OneCreator
<1>9. QED
  BY <1>4, <1>6, <1>7, <1>8

LEMMA WakeStep == ASSUME IInv, NEW r \in Requests, Wake(r) PROVE IInv'
<1> USE DEF Wake, IInv
<1>1. CASE done[r] /\ Return(r, Cancelled)
  BY <1>1, ReturnStep
<1>2. CASE /\ lookups[origin[r]].done
           /\ pc' = [pc EXCEPT ![r] = "checking"] /\ UNCHANGED answer
  <2> USE DEF lookup, RestUnchanged
  <2>1. TypeOK'
    BY <1>2 DEF TypeOK
  <2>2. \A u \in Origins : (LookupSound(u) /\ ResultSound(u))'
    BY DEF LookupSound, ResultSound
  <2>3. ASSUME NEW q \in Requests PROVE RequestSound(q)'
    <3>1. CASE q = r
      BY <1>2, <3>1 DEF TypeOK, RequestSound
    <3>2. CASE q # r
      BY <1>2, <3>2 DEF TypeOK, RequestSound
    <3>3. QED
      BY <3>1, <3>2
  <2>4. OneCreator'
    BY <1>2 DEF OneCreator, TypeOK
  <2>5. QED
    BY <2>1, <2>2, <2>3, <2>4
<1>3. QED
  BY <1>1, <1>2

\* What the checks after the select return.
LEMMA CheckReturns ==
    ASSUME IInv, NEW r \in Requests, Check(r)
    PROVE  /\ lookups[origin[r]] # Missing /\ lookups[origin[r]].done
           /\ lookups[origin[r]].result \in Token \cup {Failed}
           /\ UNCHANGED <<lookup, shown>> /\ RestUnchanged
           /\ \/ done[r] /\ Return(r, Cancelled)
              \/ lookups[origin[r]].result = Failed /\ Return(r, Failed)
              \/ /\ lookups[origin[r]].result \in Token /\ lookups[origin[r]].result.expires <= clock
                 /\ Return(r, Expired)
              \/ lookups[origin[r]].result \in Token /\ Return(r, lookups[origin[r]].result)
<1> USE DEF Check, IInv
<1> DEFINE t == lookups[origin[r]].result
<1>1. lookups[origin[r]] # Missing /\ lookups[origin[r]].done
  BY DEF RequestSound
<1>2. t \in Token \cup {Failed}
  BY <1>1 DEF ResultSound, TypeOK
<1>3. CASE t = Failed
  BY <1>1, <1>2, <1>3
<1>4. CASE t \in Token
  <2>1. t \notin Errors /\ ExpiryOf(t) = t.expires /\ t.expires \in Int /\ clock \in Int
    BY <1>4 DEF ExpiryOf, Token, TypeOK
  <2>2. CASE done[r] /\ Return(r, Cancelled)
    BY <1>1, <1>2, <2>2
  <2>3. CASE ~done[r] /\ t \in Errors /\ Return(r, t)
    BY <2>1, <2>3
  <2>4. CASE ~done[r] /\ t \notin Errors /\ clock >= ExpiryOf(t) /\ Return(r, Expired)
    BY <1>1, <1>2, <1>4, <2>1, <2>4
  <2>5. CASE ~done[r] /\ t \notin Errors /\ clock < ExpiryOf(t) /\ Return(r, t)
    BY <1>1, <1>2, <1>4, <2>5
  <2>6. QED
    BY <2>2, <2>3, <2>4, <2>5
<1>5. QED
  BY <1>2, <1>3, <1>4

LEMMA CheckStep == ASSUME IInv, NEW r \in Requests, Check(r) PROVE IInv'
<1> DEFINE t == lookups[origin[r]].result
<1>1. /\ lookups[origin[r]] # Missing /\ lookups[origin[r]].done /\ t \in Token \cup {Failed}
      /\ UNCHANGED <<lookup, shown>> /\ RestUnchanged /\ pc[r] = "checking"
  BY CheckReturns DEF Check
<1>2. CASE done[r] /\ Return(r, Cancelled)
  BY <1>1, <1>2, ReturnStep
<1>3. CASE t = Failed /\ Return(r, Failed)
  BY <1>1, <1>3, ReturnStep
<1>4. CASE Return(r, Expired)
  BY <1>1, <1>4, ReturnStep
<1>5. CASE t \in Token /\ Return(r, t)
  <2>1. t # Cancelled
    BY <1>5
  <2>2. QED
    BY <1>1, <1>5, <2>1, ReturnStep
<1>6. QED
  BY <1>2, <1>3, <1>4, <1>5, CheckReturns

LEMMA SendStep == ASSUME IInv, NEW r \in Requests, Send(r) PROVE IInv'
<1> USE DEF Send, IInv, lookup
<1> DEFINE o == origin[r]
<1>1. /\ answer[r] \in Token /\ o \in Origins /\ lookups[o] # Missing /\ lookups[o].done
      /\ answer[r] = lookups[o].result /\ seen[o] \subseteq {answer[r]} /\ shown[r] = {}
  BY DEF RequestSound, ResultSound, TypeOK
<1>2. /\ pc' \in [Requests -> {"idle", "entering", "creating", "waiting", "checking", "sending", "failing"}]
      /\ pc'[r] \in {"idle", "failing"} /\ \A q \in Requests \ {r} : pc'[q] = pc[q]
  BY DEF TypeOK
<1>3. /\ seen' \in [Origins -> SUBSET Token] /\ seen[o] \subseteq seen'[o]
      /\ seen'[o] = seen[o] \/ seen'[o] = {answer[r]}
      /\ \A u \in Origins \ {o} : seen'[u] = seen[u]
  BY <1>1 DEF TypeOK
<1>4. /\ shown' \in [Requests -> SUBSET Token] /\ shown'[r] \subseteq seen'[o]
      /\ (pc'[r] # "failing" => shown'[r] = {})
      /\ \A q \in Requests \ {r} : shown'[q] = shown[q]
  BY <1>1, <1>2, <1>3 DEF TypeOK
<1>5. TypeOK'
  BY <1>2, <1>3, <1>4 DEF TypeOK
<1>6. ASSUME NEW u \in Origins PROVE (LookupSound(u) /\ ResultSound(u))'
  <2>1. LookupSound(u)'
    BY DEF LookupSound
  <2>2. ResultSound(u)'
    BY <1>1, <1>3 DEF ResultSound
  <2>3. QED
    BY <2>1, <2>2
<1>7. ASSUME NEW q \in Requests PROVE RequestSound(q)'
  <2>1. CASE q = r
    BY <1>1, <1>2, <1>3, <1>4, <2>1 DEF RequestSound
  <2>2. CASE q # r
    <3>1. seen[origin[q]] \subseteq seen'[origin[q]]
      BY <1>3 DEF TypeOK
    <3>2. QED
      BY <1>2, <1>4, <2>2, <3>1 DEF RequestSound
  <2>3. QED
    BY <2>1, <2>2
<1>8. OneCreator'
  BY <1>2 DEF OneCreator
<1>9. QED
  BY <1>5, <1>6, <1>7, <1>8

LEMMA RedactStep == ASSUME IInv, NEW r \in Requests, Redact(r) PROVE IInv'
<1> USE DEF Redact, IInv, lookup, RestUnchanged
<1> DEFINE o == origin[r]
<1>1. shown'[r] = {}
  <2>1. shown'[r] = shown[r] \ Known /\ o \in Origins
    BY DEF TypeOK
  <2>2. shown[r] \subseteq seen[o] /\ seen[o] \subseteq Token
    BY DEF RequestSound, TypeOK
  <2>3. ASSUME NEW t \in seen[o] PROVE t \in Known
    <3>1. lookups[o] # Missing /\ t = lookups[o].result
      BY <2>1, <2>3 DEF ResultSound
    <3>2. t \notin {Nothing} \cup Errors
      BY <2>2, <2>3
    <3>3. QED
      BY <2>1, <3>1, <3>2 DEF Known
  <2>4. QED
    BY <2>1, <2>2, <2>3
<1>2. TypeOK'
  BY DEF TypeOK
<1>3. \A u \in Origins : (LookupSound(u) /\ ResultSound(u))'
  BY DEF LookupSound, ResultSound
<1>4. ASSUME NEW q \in Requests PROVE RequestSound(q)'
  <2>1. CASE q = r
    BY <1>1, <2>1 DEF TypeOK, RequestSound
  <2>2. CASE q # r
    BY <2>2 DEF TypeOK, RequestSound
  <2>3. QED
    BY <2>1, <2>2
<1>5. OneCreator'
  BY DEF OneCreator, TypeOK
<1>6. QED
  BY <1>2, <1>3, <1>4, <1>5

LEMMA WorldStep == ASSUME IInv, (\E r \in Requests : Cancel(r)) \/ Tick PROVE IInv'
<1> USE DEF IInv, lookup, request
<1>1. UNCHANGED <<lookup, request, calls, runs, seen>> /\ done' \in [Requests -> BOOLEAN]
      /\ \A q \in Requests : done[q] => done'[q]
  BY DEF Cancel, Tick, TypeOK
<1>2. clock' \in 0 .. MaxClock
  BY DEF Cancel, Tick, TypeOK
<1>3. TypeOK'
  BY <1>1, <1>2 DEF TypeOK
<1>4. \A u \in Origins : (LookupSound(u) /\ ResultSound(u))'
  BY <1>1 DEF LookupSound, ResultSound
<1>5. \A q \in Requests : RequestSound(q)'
  BY <1>1 DEF RequestSound
<1>6. OneCreator'
  BY <1>1 DEF OneCreator
<1>7. QED
  BY <1>3, <1>4, <1>5, <1>6

LEMMA NextIInv == IInv /\ [Next]_vars => IInv'
<1> SUFFICES ASSUME IInv, [Next]_vars PROVE IInv'
  OBVIOUS
<1>1. ASSUME NEW r \in Requests, Call(r) \/ Step(r) PROVE IInv'
  BY <1>1, CallStep, EnterStep, StartStep, WakeStep, CheckStep, SendStep, RedactStep DEF Step
<1>2. ASSUME NEW o \in Origins, Reading(o) PROVE IInv'
  BY <1>2, ReadStep, PublishStep DEF Reading
<1>3. CASE UNCHANGED vars
  <2> USE <1>3 DEF vars, lookup, request, IInv
  <2>1. TypeOK'
    BY DEF TypeOK
  <2>2. \A o \in Origins : (LookupSound(o) /\ ResultSound(o))'
    BY DEF LookupSound, ResultSound
  <2>3. (\A r \in Requests : RequestSound(r)') /\ OneCreator'
    BY DEF RequestSound, OneCreator
  <2>4. QED
    BY <2>1, <2>2, <2>3
<1>4. QED
  BY <1>1, <1>2, <1>3, WorldStep DEF Next

LEMMA SpecIInv == Spec => []IInv
<1>1. Init => IInv
  BY InitIInv
<1>2. IInv /\ [Next]_vars => IInv'
  BY NextIInv
<1>3. QED
  BY <1>1, <1>2, PTL DEF Spec

-----------------------------------------------------------------------------
(* What the requests of a command rely on *)

\* Every variable keeps its type; a lookup whose channel is closed has its result.
THEOREM TypeCorrect == Spec => []TypeOK
<1>1. IInv => TypeOK
  BY DEF IInv
<1>2. QED
  BY <1>1, SpecIInv, PTL

\* cloudflared is run once per origin at most.
THEOREM RunsOnce == Spec => []OneRun
<1>1. IInv => OneRun
  BY DEF IInv, OneRun, LookupSound
<1>2. QED
  BY <1>1, SpecIInv, PTL

\* An origin receives one token, its own.
THEOREM OwnTokenOnly == Spec => []OneTokenPerOrigin
<1>1. ASSUME IInv, NEW o \in Origins, NEW s \in seen[o], NEW t \in seen[o] PROVE s = t /\ t.origin = o
  <2>1. /\ lookups[o] # Missing /\ lookups[o].done /\ seen[o] = {lookups[o].result}
        /\ lookups[o].result \in {u \in Token : u.origin = o} \cup {Failed} /\ seen[o] \subseteq Token
    BY <1>1 DEF IInv, ResultSound, TypeOK
  <2>2. QED
    BY <2>1
<1>2. IInv => OneTokenPerOrigin
  BY <1>1 DEF OneTokenPerOrigin
<1>3. QED
  BY <1>2, SpecIInv, PTL

\* A request fails with a context's error only when its own context is done.
THEOREM CancelsItself == Spec => []OwnCancellation
<1>1. IInv => OwnCancellation
  BY DEF IInv, RequestSound, OwnCancellation
<1>2. QED
  BY <1>1, SpecIInv, PTL

\* No error body handed to the caller repeats a token the session has sent.
THEOREM BodiesRedacted == Spec => []NothingShown
<1>1. IInv => NothingShown
  BY DEF IInv, RequestSound, NothingShown
<1>2. QED
  BY <1>1, SpecIInv, PTL

-----------------------------------------------------------------------------
(* Refinement *)

CellOf(o) == IF lookups[o] # Missing /\ lookups[o].done THEN lookups[o].result ELSE Nothing

\* Every step of the session is a step on the cells, or leaves them and the
\* answers alone.
LEMMA StepsOnCells == IInv /\ [Next]_vars => [Cell!Next]_(Cell!vars)
<1> SUFFICES ASSUME IInv, [Next]_vars PROVE [Cell!Next]_(Cell!vars)
  OBVIOUS
<1> USE DEF CellOf
<1>1. ASSUME UNCHANGED lookups PROVE [o \in Origins |-> CellOf(o)]' = [o \in Origins |-> CellOf(o)]
  BY <1>1
<1>2. ASSUME UNCHANGED lookups, UNCHANGED <<clock, origin, done, answer>> PROVE UNCHANGED Cell!vars
  BY <1>1, <1>2 DEF Cell!vars
<1>3. ASSUME NEW r \in Requests, Call(r) PROVE Cell!Next
  <2>1. Cell!Ask(r)
    BY <1>1, <1>3 DEF Call, lookup, Cell!Ask
  <2>2. QED
    BY <2>1 DEF Cell!Next
<1>4. ASSUME NEW r \in Requests, Enter(r) PROVE [Cell!Next]_(Cell!vars)
  <2>1. CASE done[r]
    <3>1. Cell!Reply(r)
      BY <1>1, <1>4, <2>1 DEF Enter, Return, RestUnchanged, IInv, RequestSound, Cell!Reply
    <3>2. QED
      BY <3>1 DEF Cell!Next
  <2>2. CASE ~done[r]
    <3>1. \A o \in Origins : CellOf(o)' = CellOf(o)
      <4>1. Pending \in Lookup /\ Pending # Missing /\ ~Pending.done
        BY LookupShape DEF Lookup
      <4>2. QED
        BY <1>4, <2>2, <4>1 DEF Enter, IInv, TypeOK
    <3>2. UNCHANGED Cell!vars
      BY <1>4, <2>2, <3>1 DEF Enter, RestUnchanged, Cell!vars
    <3>3. QED
      BY <3>2
  <2>3. QED
    BY <2>1, <2>2
<1>5. ASSUME NEW r \in Requests, Start(r) \/ Send(r) \/ Redact(r) PROVE UNCHANGED Cell!vars
  BY <1>2, <1>5 DEF Start, Send, Redact, RestUnchanged, lookup
<1>6. ASSUME NEW r \in Requests, Wake(r) PROVE [Cell!Next]_(Cell!vars)
  <2>1. CASE done[r] /\ Return(r, Cancelled)
    <3>1. Cell!Reply(r)
      BY <1>1, <1>6, <2>1 DEF Wake, Return, RestUnchanged, lookup, IInv, RequestSound, Cell!Reply
    <3>2. QED
      BY <3>1 DEF Cell!Next
  <2>2. CASE UNCHANGED answer
    <3>1. UNCHANGED Cell!vars
      BY <1>2, <1>6, <2>2 DEF Wake, RestUnchanged, lookup
    <3>2. QED
      BY <3>1
  <2>3. QED
    BY <1>6, <2>1, <2>2 DEF Wake
<1>7. ASSUME NEW r \in Requests, Check(r) PROVE Cell!Next
  <2> DEFINE t == lookups[origin[r]].result
  <2>1. /\ lookups[origin[r]] # Missing /\ lookups[origin[r]].done /\ t \in Token \cup {Failed}
        /\ UNCHANGED <<lookups, clock, origin, done>> /\ answer[r] = NoAnswer /\ origin[r] \in Origins
    BY <1>7, CheckReturns DEF Check, RestUnchanged, lookup, IInv, RequestSound, TypeOK
  <2>2. t # Nothing
    BY <2>1
  <2>3. Cell!Token = Token
    BY DEF Cell!Token, Token
  <2>4. \/ done[r] /\ answer' = [answer EXCEPT ![r] = Cancelled]
        \/ answer' = [answer EXCEPT ![r] = t]
        \/ t \in Token /\ t.expires <= clock /\ answer' = [answer EXCEPT ![r] = Expired]
    BY <1>7, CheckReturns DEF Return
  <2>5. Cell!Reply(r)
    BY <1>1, <2>1, <2>2, <2>3, <2>4 DEF Cell!Reply
  <2>6. QED
    BY <2>5 DEF Cell!Next
<1>8. ASSUME NEW r \in Requests, Cancel(r) PROVE Cell!Next
  <2>1. Cell!Cancel(r)
    BY <1>1, <1>8 DEF Cancel, lookup, request, Cell!Cancel
  <2>2. QED
    BY <2>1 DEF Cell!Next
<1>9. ASSUME NEW o \in Origins, Read(o) PROVE UNCHANGED Cell!vars
  BY <1>2, <1>9 DEF Read, RestUnchanged
<1>10. ASSUME NEW o \in Origins, Publish(o) PROVE Cell!Next
  <2>1. lookups[o] = Pending /\ found[o] \in {t \in Token : t.origin = o} \cup {Failed}
    BY <1>10 DEF Publish, IInv, LookupSound
  <2>2. CellOf(o) = Nothing
    BY <2>1, LookupShape DEF Lookup
  <2>3. lookups'[o] = [done |-> TRUE, result |-> found[o]] /\ lookups'[o] # Missing
    <3>1. lookups'[o] = [done |-> TRUE, result |-> found[o]]
      BY <1>10 DEF Publish, IInv, TypeOK
    <3>2. [done |-> TRUE, result |-> found[o]] \in [done : BOOLEAN, result : Token \cup Errors \cup {Nothing}]
      BY <2>1
    <3>3. QED
      BY <3>1, <3>2
  <2>4. CellOf(o)' = found[o] /\ \A u \in Origins \ {o} : CellOf(u)' = CellOf(u)
    BY <1>10, <2>3 DEF Publish, IInv, TypeOK
  <2>5. [u \in Origins |-> CellOf(u)]' = [[u \in Origins |-> CellOf(u)] EXCEPT ![o] = found[o]]
    BY <2>4
  <2>6. Cell!Token = Token
    BY DEF Cell!Token, Token
  <2>7. Cell!Fill(o)
    BY <1>10, <2>1, <2>2, <2>5, <2>6 DEF Publish, RestUnchanged, Cell!Fill
  <2>8. QED
    BY <2>7 DEF Cell!Next
<1>11. ASSUME Tick PROVE Cell!Next
  <2>1. Cell!Tick
    BY <1>1, <1>11 DEF Tick, lookup, request, Cell!Tick
  <2>2. QED
    BY <2>1 DEF Cell!Next
<1>12. CASE UNCHANGED vars
  BY <1>2, <1>12 DEF vars, lookup, request
<1>13. QED
  BY <1>3, <1>4, <1>5, <1>6, <1>7, <1>8, <1>9, <1>10, <1>11, <1>12 DEF Next, Step, Reading

\* Requests that share a session behave as if each origin had one cell that is
\* filled once, with a token of its own or a failure.
THEOREM SessionIsCells == Spec => ImplementsCell
<1>1. Init => Cell!Init
  BY DEF Init, Cell!Init
<1>2. IInv /\ [Next]_vars => [Cell!Next]_(Cell!vars)
  BY StepsOnCells
<1>3. QED
  BY <1>1, <1>2, SpecIInv, PTL DEF Spec, ImplementsCell, Cell!Spec
=============================================================================
