------------------------- MODULE TokenRefreshProof -------------------------
(***************************************************************************)
(* Proofs about TokenRefresh for any processes, services and bounds.       *)
(***************************************************************************)
EXTENDS TokenRefresh, TLAPS

\* The refresh token that goes with access token n.
MateOf(n) == IF n = NoToken THEN NoToken ELSE mate[n]

\* An entry read from hosts.yml: its access token has been stored, and its refresh
\* token is the one that goes with it.
Sound(e) ==
    e # Absent => /\ e.access \in stored \cup {NoToken}
                  /\ e.refresh = MateOf(e.access)
                  /\ e.refresh # NoToken => e.type = "bearer"

\* Process p holds a grant it has not stored.
Grant(p) == pc[p] = "answered" /\ reply[p] \in Reply

EntriesSound == Sound(store) /\ \A p \in Procs : Sound(auth[p]) /\ Sound(held[p])

Issued ==
    /\ stored \subseteq 1 .. issued
    /\ \A n \in Tokens : n <= issued => mate[n] <= issued

\* A grant is new, and belongs to the login of the token it was exchanged for.
GrantsNew ==
    /\ \A p \in Procs : Grant(p) =>
         /\ reply[p].access <= issued /\ reply[p].access \notin stored
         /\ mate[reply[p].access] = IF reply[p].refresh # NoToken THEN reply[p].refresh
                                    ELSE held[p].refresh
         /\ family[reply[p].access] = family[held[p].access]
    /\ \A p, q \in Procs : Grant(p) /\ Grant(q) /\ reply[p].access = reply[q].access => p = q

\* A process that refreshes has a refresh token, and after a 401 it is that of the
\* rejected request.
Refreshing ==
    \A p \in Procs :
        /\ pc[p] \in {"posting", "answered"} =>
             /\ CanRefresh(held[p])
             /\ after[p] => CanRefresh(auth[p]) /\ held[p].access = auth[p].access
        /\ pc[p] \in {"reloading", "resending"} => CanRefresh(auth[p])

\* A running command has a request to make.
Requesting == \A p \in Procs : pc[p] # "idle" => sent[p] < MaxRequests

IInv ==
    /\ TypeOK /\ EntriesSound /\ Issued /\ GrantsNew
    /\ Refreshing /\ Requesting /\ ResendsAnotherToken

USE TokenRefreshAssumption DEF NoToken, Tokens, IInv

LEMMA InitIInv == Init => IInv
<1> SUFFICES ASSUME Init PROVE IInv
  OBVIOUS
<1>1. store \in Entry
  BY DEF Init, Entry
<1>2. TypeOK
  BY <1>1 DEF Init, TypeOK, Points
<1>3. EntriesSound /\ Issued
  BY DEF Init, EntriesSound, Issued, Sound, MateOf
<1>4. GrantsNew /\ Refreshing /\ Requesting /\ ResendsAnotherToken
  BY DEF Init, GrantsNew, Grant, Refreshing, Requesting, ResendsAnotherToken
<1>5. QED
  BY <1>2, <1>3, <1>4

-----------------------------------------------------------------------------
(* Steps of one process that leave hosts.yml and the service alone *)

\* What IInv says of process p alone.
RefreshingAt(p) ==
    /\ pc[p] \in {"posting", "answered"} =>
         /\ CanRefresh(held[p])
         /\ after[p] => CanRefresh(auth[p]) /\ held[p].access = auth[p].access
    /\ pc[p] \in {"reloading", "resending"} => CanRefresh(auth[p])
    /\ pc[p] = "resending" => TokenOf(held[p]) # TokenOf(auth[p])
    /\ pc[p] # "idle" => sent[p] < MaxRequests

SameFor(q) ==
    /\ pc'[q] = pc[q] /\ auth'[q] = auth[q] /\ held'[q] = held[q]
    /\ after'[q] = after[q] /\ reply'[q] = reply[q] /\ sent'[q] = sent[q]

LEMMA OthersKeep ==
    ASSUME IInv, NEW p \in Procs, \A q \in Procs \ {p} : SameFor(q), RefreshingAt(p)'
    PROVE  Refreshing' /\ Requesting' /\ ResendsAnotherToken'
<1>1. ASSUME NEW q \in Procs PROVE RefreshingAt(q)'
  <2>1. CASE q = p
    BY <2>1
  <2>2. CASE q # p
    BY <2>2 DEF Refreshing, Requesting, ResendsAnotherToken, RefreshingAt, SameFor, CanRefresh, TokenOf
  <2>3. QED
    BY <2>1, <2>2
<1>2. QED
  BY <1>1 DEF Refreshing, Requesting, ResendsAnotherToken, RefreshingAt

LEMMA LocalStep ==
    ASSUME IInv, NEW p \in Procs, TypeOK',
           UNCHANGED <<store, service, stored>>,
           \A q \in Procs \ {p} : SameFor(q), RefreshingAt(p)',
           pc'[p] # "answered",
           auth'[p] \in {Absent, store, auth[p], held[p]},
           held'[p] \in {Absent, store, auth[p], held[p]}
    PROVE  IInv'
<1>1. EntriesSound'
  <2>1. ASSUME NEW e, Sound(e) PROVE Sound(e)'
    BY <2>1 DEF Sound, MateOf, service
  <2>2. Sound(store)'
    BY <2>1 DEF EntriesSound, Sound, MateOf, service
  <2>3. \A q \in Procs : Sound(auth'[q]) /\ Sound(held'[q])
    BY DEF EntriesSound, Sound, SameFor
  <2>4. QED
    BY <2>2, <2>3 DEF EntriesSound, Sound, MateOf, service
<1>2. Issued'
  BY DEF Issued, service
<1>3. ASSUME NEW q \in Procs, Grant(q)' PROVE q # p /\ Grant(q)
  BY <1>3 DEF Grant, SameFor
<1>4. GrantsNew'
  BY <1>3 DEF GrantsNew, Grant, SameFor, service
<1>5. Refreshing' /\ Requesting' /\ ResendsAnotherToken'
  BY OthersKeep
<1>6. QED
  BY <1>1, <1>2, <1>4, <1>5

ProcType ==
    /\ pc \in [Procs -> Points]
    /\ auth \in [Procs -> Entry \cup {Absent}] /\ held \in [Procs -> Entry \cup {Absent}]
    /\ outcome \in [Procs -> {"none", "ok", "failed", "rejected", "killed"}]

OthersStay(p) == \A q \in Procs \ {p} : pc'[q] = pc[q] /\ auth'[q] = auth[q] /\ held'[q] = held[q]

LEMMA EndMoves ==
    ASSUME TypeOK, NEW p \in Procs, NEW how \in {"ok", "failed", "rejected", "killed"}, End(p, how)
    PROVE  /\ ProcType' /\ OthersStay(p)
           /\ pc'[p] = "idle" /\ auth'[p] = Absent /\ held'[p] = Absent
BY DEF TypeOK, End, ProcType, OthersStay, Points

LEMMA RefreshedMoves ==
    ASSUME TypeOK, NEW p \in Procs, NEW e \in Entry \cup {Absent}, Refreshed(p, e)
    PROVE  /\ ProcType' /\ OthersStay(p)
           /\ after[p] => pc'[p] = "resending" /\ held'[p] = e /\ auth'[p] = auth[p]
           /\ ~after[p] => pc'[p] = "ready" /\ auth'[p] = e /\ held'[p] = held[p]
<1>1. CASE after[p]
  BY <1>1, ZenonT(60) DEF TypeOK, Refreshed, ProcType, OthersStay, Points
<1>2. CASE ~after[p]
  BY <1>2, ZenonT(60) DEF TypeOK, Refreshed, ProcType, OthersStay, Points
<1>3. QED
  BY <1>1, <1>2

LEMMA RefreshFailsMoves ==
    ASSUME TypeOK, NEW p \in Procs, RefreshFails(p)
    PROVE  /\ ProcType' /\ OthersStay(p)
           /\ \/ pc'[p] = "idle" /\ auth'[p] = Absent /\ held'[p] = Absent
              \/ ~after[p] /\ pc'[p] = "ready" /\ auth'[p] = held[p] /\ held'[p] = held[p]
<1>1. CASE lenient[p] /\ ~after[p]
  <2>1. Refreshed(p, held[p]) /\ held[p] \in Entry \cup {Absent}
    BY <1>1 DEF RefreshFails, TypeOK
  <2>2. QED
    BY <1>1, <2>1, RefreshedMoves
<1>2. CASE ~(lenient[p] /\ ~after[p])
  BY <1>2, EndMoves DEF RefreshFails
<1>3. QED
  BY <1>1, <1>2

LEMMA NoteType ==
    ASSUME TypeOK, NEW who, Note(who) PROVE excused' \in [Procs -> BOOLEAN]
<1>1. ASSUME NEW q \in Procs PROVE (excused[q] \/ (q \in who /\ pc[q] # "idle")) \in BOOLEAN
  OBVIOUS
<1>2. QED
  BY <1>1 DEF Note

LEMMA LoadStep == ASSUME IInv, NEW p \in Procs, Load(p) PROVE IInv'
<1> USE DEF Load
<1>1. TypeOK'
  <2>1. (~CanRefresh(store)) \in BOOLEAN
    BY DEF CanRefresh
  <2>2. excused' \in [Procs -> BOOLEAN]
    BY <2>1 DEF TypeOK
  <2>3. pc' \in [Procs -> Points] /\ auth' \in [Procs -> Entry \cup {Absent}]
    <3>1. CASE CanRefresh(store) /\ Expiring(store)
      BY <3>1 DEF TypeOK, Points
    <3>2. CASE ~(CanRefresh(store) /\ Expiring(store))
      <4>1. pc' = [pc EXCEPT ![p] = "ready"] /\ auth' = [auth EXCEPT ![p] = store]
        BY <3>2, Zenon
      <4>2. QED
        BY <4>1 DEF TypeOK, Points
    <3>3. QED
      BY <3>1, <3>2
  <2>4. QED
    BY <2>2, <2>3 DEF TypeOK, service
<1>2. \A q \in Procs \ {p} : SameFor(q)
  BY DEF SameFor, TypeOK
<1>3. RefreshingAt(p)' /\ pc'[p] # "answered"
  BY DEF RefreshingAt, CanRefresh, TypeOK
<1>4. auth'[p] \in {store, auth[p]} /\ held'[p] = store
  BY DEF TypeOK
<1>5. QED
  BY <1>1, <1>2, <1>3, <1>4, LocalStep

LEMMA RecheckStep == ASSUME IInv, NEW p \in Procs, Recheck(p) PROVE IInv'
<1> USE DEF Recheck
<1>1. excused' \in [Procs -> BOOLEAN]
  BY NoteType
<1>2. CASE reply[p] = Failed /\ Renewed(p)
  <2>1. Refreshed(p, store) /\ store \in Entry \cup {Absent} /\ store # Absent
    BY <1>2 DEF Renewed, TypeOK
  <2>2. ProcType' /\ OthersStay(p)
    BY <2>1, RefreshedMoves
  <2>3. TypeOK'
    BY <1>1, <2>2 DEF TypeOK, ProcType, UnusedUpdate, service
  <2>4. \A q \in Procs \ {p} : SameFor(q)
    BY <2>2 DEF OthersStay, SameFor, UnusedUpdate, service
  <2>5. after[p] => TokenOf(store) # TokenOf(auth[p])
    BY <1>2 DEF Renewed, SameTokens, TokenOf, CanRefresh, Refreshing, EntriesSound, Sound, MateOf
  <2>6. RefreshingAt(p)' /\ pc'[p] # "answered"
    <3>1. CASE after[p]
      <4>1. pc'[p] = "resending" /\ held'[p] = store /\ auth'[p] = auth[p]
        BY <2>1, <3>1, RefreshedMoves
      <4>2. CanRefresh(auth[p]) /\ TokenOf(store) # TokenOf(auth[p])
        BY <3>1, <2>5 DEF Refreshing
      <4>3. QED
        BY <4>1, <4>2 DEF RefreshingAt, CanRefresh, TokenOf, Requesting, UnusedUpdate
    <3>2. CASE ~after[p]
      <4>1. pc'[p] = "ready"
        BY <2>1, <3>2, RefreshedMoves
      <4>2. QED
        BY <4>1 DEF RefreshingAt, Requesting, UnusedUpdate
    <3>3. QED
      BY <3>1, <3>2
  <2>7. auth'[p] \in {store, auth[p]} /\ held'[p] \in {store, held[p]}
    BY <2>1, RefreshedMoves
  <2>8. QED
    BY <2>3, <2>4, <2>6, <2>7, LocalStep DEF UnusedUpdate
<1>3. CASE ~(reply[p] = Failed /\ Renewed(p))
  <2>1. RefreshFails(p)
    BY <1>3
  <2>2. ProcType' /\ OthersStay(p)
    BY <2>1, RefreshFailsMoves
  <2>3. TypeOK'
    BY <1>1, <2>2 DEF TypeOK, ProcType, UnusedUpdate, service
  <2>4. \A q \in Procs \ {p} : SameFor(q)
    BY <2>2 DEF OthersStay, SameFor, UnusedUpdate, service
  <2>5. pc'[p] \in {"idle", "ready"} /\ auth'[p] \in {Absent, held[p]} /\ held'[p] \in {Absent, held[p]}
    BY <2>1, RefreshFailsMoves
  <2>6. RefreshingAt(p)' /\ pc'[p] # "answered"
    BY <2>5 DEF RefreshingAt, Requesting, UnusedUpdate
  <2>7. QED
    BY <2>3, <2>4, <2>5, <2>6, LocalStep DEF UnusedUpdate
<1>4. QED
  BY <1>2, <1>3

LEMMA KillStep == ASSUME IInv, NEW p \in Procs, Kill(p) PROVE IInv'
<1> USE DEF Kill
<1>1. ProcType' /\ OthersStay(p) /\ pc'[p] = "idle" /\ auth'[p] = Absent /\ held'[p] = Absent
  BY EndMoves
<1>2. TypeOK'
  BY <1>1, SMTT(60) DEF TypeOK, ProcType, UnusedUpdate, service, history, Fault
<1>3. \A q \in Procs \ {p} : SameFor(q)
  BY <1>1 DEF OthersStay, SameFor, UnusedUpdate
<1>4. RefreshingAt(p)' /\ pc'[p] # "answered"
  BY <1>1 DEF RefreshingAt
<1>5. QED
  BY <1>1, <1>2, <1>3, <1>4, LocalStep DEF UnusedUpdate, history

LEMMA AnsweredMoves ==
    ASSUME TypeOK, NEW p \in Procs, sent[p] < MaxRequests, Answered(p)
    PROVE  /\ ProcType' /\ OthersStay(p) /\ sent' \in [Procs -> 0 .. MaxRequests]
           /\ pc'[p] \in {"ready", "idle"} /\ (pc'[p] = "ready" => sent'[p] < MaxRequests)
           /\ \A q \in Procs \ {p} : sent'[q] = sent[q]
           /\ auth'[p] \in {Absent, auth[p]} /\ held'[p] \in {Absent, held[p]}
<1> sent' = [sent EXCEPT ![p] = @ + 1]
  BY DEF Answered
<1>1. CASE End(p, "ok")
  <2>1. ProcType' /\ OthersStay(p) /\ pc'[p] = "idle" /\ auth'[p] = Absent /\ held'[p] = Absent
    BY <1>1, EndMoves
  <2>2. sent' \in [Procs -> 0 .. MaxRequests] /\ \A q \in Procs \ {p} : sent'[q] = sent[q]
    BY DEF TypeOK
  <2>3. QED
    BY <2>1, <2>2
<1>2. CASE sent[p] + 1 < MaxRequests /\ pc' = [pc EXCEPT ![p] = "ready"] /\ UNCHANGED <<auth, held, outcome>>
  <2>1. sent' \in [Procs -> 0 .. MaxRequests] /\ \A q \in Procs \ {p} : sent'[q] = sent[q]
    BY <1>2 DEF TypeOK
  <2>2. sent'[p] < MaxRequests
    BY <1>2 DEF TypeOK
  <2>3. ProcType' /\ OthersStay(p) /\ pc'[p] = "ready"
    BY <1>2 DEF TypeOK, ProcType, OthersStay, Points
  <2>4. QED
    BY <1>2, <2>1, <2>2, <2>3
<1>3. QED
  BY <1>1, <1>2 DEF Answered

\* The steps of doRawFullConsume.
LEMMA RequestStep ==
    ASSUME IInv, NEW p \in Procs, Request(p) \/ Reload(p) \/ Resend(p) PROVE IInv'
<1> DEFINE Frame == /\ ProcType' /\ OthersStay(p) /\ sent' \in [Procs -> 0 .. MaxRequests]
                    /\ \A q \in Procs \ {p} : sent'[q] = sent[q]
                    /\ after' \in [Procs -> BOOLEAN] /\ \A q \in Procs \ {p} : after'[q] = after[q]
           Local == /\ RefreshingAt(p)' /\ pc'[p] # "answered"
                    /\ auth'[p] \in {Absent, auth[p]} /\ held'[p] \in {Absent, store, held[p]}
<1>1. pc[p] # "idle" /\ sent[p] < MaxRequests
  BY DEF Request, Reload, Resend, Requesting
<1>2. ASSUME Answered(p), UNCHANGED after PROVE Frame /\ Local
  <2>1. Frame
    BY <1>1, <1>2, AnsweredMoves DEF TypeOK
  <2>2. Local
    BY <1>1, <1>2, AnsweredMoves DEF RefreshingAt
  <2>3. QED
    BY <2>1, <2>2
<1>3. ASSUME NEW how \in {"failed", "rejected"}, End(p, how), UNCHANGED <<sent, after>> PROVE Frame /\ Local
  <2>1. ProcType' /\ OthersStay(p) /\ pc'[p] = "idle" /\ auth'[p] = Absent /\ held'[p] = Absent
    BY <1>3, EndMoves
  <2>2. Frame
    BY <1>3, <2>1 DEF TypeOK
  <2>3. Local
    BY <2>1 DEF RefreshingAt
  <2>4. QED
    BY <2>2, <2>3
<1>4. ASSUME Request(p) PROVE Frame /\ Local
  <2>1. ASSUME ~Accepted(auth[p]), CanRefresh(auth[p]), pc' = [pc EXCEPT ![p] = "reloading"],
               UNCHANGED <<auth, held, sent, outcome, after>>
        PROVE  Frame /\ Local
    <3>1. Frame
      BY <2>1 DEF TypeOK, ProcType, OthersStay, Points
    <3>2. Local
      BY <1>1, <2>1 DEF TypeOK, RefreshingAt, CanRefresh
    <3>3. QED
      BY <3>1, <3>2
  <2>2. QED
    BY <1>2, <1>3, <1>4, <2>1 DEF Request
<1>5. ASSUME Reload(p) PROVE Frame /\ Local
  <2> USE <1>5 DEF Reload
  <2>1. ASSUME End(p, "failed"), UNCHANGED after PROVE Frame /\ Local
    BY <1>3, <2>1
  <2>2. ASSUME store # Absent, store.access \notin {NoToken, auth[p].access},
               held' = [held EXCEPT ![p] = store], pc' = [pc EXCEPT ![p] = "resending"],
               UNCHANGED <<auth, after, outcome>>
        PROVE  Frame /\ Local
    <3>1. Frame
      BY <2>2 DEF TypeOK, ProcType, OthersStay, Points
    <3>2. CanRefresh(auth[p])
      BY DEF Refreshing
    <3>3. Local
      BY <1>1, <2>2, <3>2 DEF TypeOK, RefreshingAt, CanRefresh, TokenOf
    <3>4. QED
      BY <3>1, <3>3
  <2>3. ASSUME store # Absent, store.access \in {NoToken, auth[p].access}, CanRefresh(store),
               held' = [held EXCEPT ![p] = store], after' = [after EXCEPT ![p] = TRUE],
               pc' = [pc EXCEPT ![p] = "posting"], UNCHANGED <<auth, outcome>>
        PROVE  Frame /\ Local
    <3>1. Frame
      BY <2>3 DEF TypeOK, ProcType, OthersStay, Points
    <3>2. CanRefresh(auth[p])
      BY DEF Refreshing
    <3>3. store.access # NoToken
      BY <2>3 DEF EntriesSound, Sound, MateOf, CanRefresh
    <3>4. Local
      BY <1>1, <2>3, <3>2, <3>3 DEF TypeOK, RefreshingAt, CanRefresh, TokenOf
    <3>5. QED
      BY <3>1, <3>4
  <2>4. QED
    BY <2>1, <2>2, <2>3
<1>6. ASSUME Resend(p) PROVE Frame /\ Local
  BY <1>2, <1>3, <1>6 DEF Resend
<1>7. Frame /\ Local /\ RestUnchanged
  BY <1>4, <1>5, <1>6 DEF Request, Reload, Resend
<1>8. TypeOK'
  BY <1>7 DEF TypeOK, ProcType, RestUnchanged, service, history
<1>9. \A q \in Procs \ {p} : SameFor(q)
  BY <1>7 DEF OthersStay, SameFor, RestUnchanged
<1>10. QED
  BY <1>7, <1>8, <1>9, LocalStep DEF RestUnchanged, history

-----------------------------------------------------------------------------
(* Storing a grant *)

LEMMA WriteStep ==
    ASSUME IInv, NEW p \in Procs, TypeOK', Grant(p),
           store # Absent, SameTokens(store, held[p]), Write(Renewal(reply[p], store)),
           UNCHANGED <<service, reply, after, sent>>, OthersStay(p),
           pc'[p] \in {"idle", "ready", "resending"},
           pc'[p] = "resending" => after[p] /\ auth'[p] = auth[p] /\ held'[p] = store',
           auth'[p] \in {Absent, store', auth[p], held[p]},
           held'[p] \in {Absent, store', auth[p], held[p]}
    PROVE  IInv'
<1> DEFINE n == reply[p].access
<1>1. /\ store' = Renewal(reply[p], store) /\ store' # Absent
      /\ store'.access = n /\ store'.type = "bearer"
      /\ store'.refresh = IF reply[p].refresh # NoToken THEN reply[p].refresh ELSE store.refresh
  BY SMTT(60) DEF Write, Renewal, TypeOK, Grant, TokenRefreshAssumption, Entry, Reply
<1>2. n \in Tokens /\ n <= issued /\ n \notin stored /\ stored' = stored \cup {n}
  BY <1>1 DEF GrantsNew, Grant, Write, Reply
<1>3. Sound(store)'
  BY <1>1, <1>2 DEF Sound, MateOf, GrantsNew, SameTokens, service
<1>4. ASSUME NEW e, Sound(e) PROVE Sound(e)'
  BY <1>2, <1>4 DEF Sound, MateOf, service
<1>5. EntriesSound'
  <2>1. \A q \in Procs : Sound(auth[q])' /\ Sound(held[q])'
    BY <1>3, <1>4 DEF EntriesSound, OthersStay, Sound
  <2>2. QED
    BY <1>3, <2>1 DEF EntriesSound
<1>6. Issued'
  BY <1>2, SMTT(60) DEF Issued, service, TypeOK
<1>7. ASSUME NEW q \in Procs, Grant(q)' PROVE q # p /\ Grant(q) /\ reply[q].access # n
  <2>1. q # p /\ Grant(q)
    BY <1>7 DEF Grant, OthersStay
  <2>2. QED
    BY <2>1 DEF GrantsNew
<1>8. GrantsNew'
  BY <1>2, <1>7 DEF GrantsNew, Grant, OthersStay, service
<1>9. RefreshingAt(p)'
  <2>1. after[p] => CanRefresh(auth[p])
    BY DEF Refreshing, Grant
  <2>2. after[p] => auth[p].access # n
    BY <2>1, <1>2 DEF EntriesSound, Sound, CanRefresh, MateOf
  <2>3. QED
    BY <1>1, <2>1, <2>2 DEF RefreshingAt, CanRefresh, TokenOf, Requesting, Grant
<1>10. \A q \in Procs \ {p} : SameFor(q)
  BY DEF SameFor, OthersStay
<1>11. Refreshing' /\ Requesting' /\ ResendsAnotherToken'
  BY <1>9, <1>10, OthersKeep
<1>12. QED
  BY <1>5, <1>6, <1>8, <1>11

LEMMA StoreStep == ASSUME IInv, NEW p \in Procs, Store(p) \/ StoreFails(p) PROVE IInv'
<1>1. /\ Grant(p) /\ UnusedUpdate /\ faults' \in Nat /\ excused' \in [Procs -> BOOLEAN]
      /\ CanRefresh(held[p]) /\ (after[p] => CanRefresh(auth[p]) /\ held[p].access = auth[p].access)
      /\ sent[p] < MaxRequests
  BY DEF Store, StoreFails, Fault, Grant, TypeOK, Refreshing, Requesting
<1>2. ASSUME ProcType', store' \in Entry \cup {Absent}, stored' \subseteq Tokens PROVE TypeOK'
  BY <1>1, <1>2 DEF TypeOK, ProcType, UnusedUpdate, service
<1>3. ASSUME OthersStay(p) PROVE \A q \in Procs \ {p} : SameFor(q)
  BY <1>1, <1>3 DEF OthersStay, SameFor, UnusedUpdate
<1>4. SameTokens(store, held[p]) /\ store # Absent => Renewal(reply[p], store) \in Entry
  BY <1>1 DEF Renewal, Grant, TypeOK, Entry, Reply
<1>5. ASSUME Write(Renewal(reply[p], store)), SameTokens(store, held[p]), store # Absent
      PROVE  store' \in Entry /\ stored' \subseteq Tokens
  BY <1>1, <1>4, <1>5 DEF Write, TypeOK, Entry
<1>6. ASSUME RefreshFails(p), UNCHANGED <<store, stored>> PROVE IInv'
  <2>1. /\ ProcType' /\ OthersStay(p) /\ pc'[p] \in {"idle", "ready"}
        /\ auth'[p] \in {Absent, held[p]} /\ held'[p] \in {Absent, held[p]}
    BY <1>6, RefreshFailsMoves
  <2>2. TypeOK'
    BY <1>2, <1>6, <2>1 DEF TypeOK
  <2>3. RefreshingAt(p)'
    BY <1>1, <2>1 DEF RefreshingAt, UnusedUpdate
  <2>4. QED
    BY <1>1, <1>3, <1>6, <2>1, <2>2, <2>3, LocalStep DEF UnusedUpdate
<1>7. ASSUME RefreshFails(p), store # Absent, SameTokens(store, held[p]), Write(Renewal(reply[p], store))
      PROVE  IInv'
  <2>1. /\ ProcType' /\ OthersStay(p) /\ pc'[p] \in {"idle", "ready"}
        /\ auth'[p] \in {Absent, held[p]} /\ held'[p] \in {Absent, held[p]}
    BY <1>7, RefreshFailsMoves
  <2>2. TypeOK'
    BY <1>2, <1>5, <1>7, <2>1
  <2>3. QED
    BY <1>1, <1>7, <2>1, <2>2, WriteStep DEF UnusedUpdate
<1>8. ASSUME Refreshed(p, store), store # Absent, ~SameTokens(store, held[p]), UNCHANGED <<store, stored>>
      PROVE  IInv'
  <2>1. /\ ProcType' /\ OthersStay(p)
        /\ after[p] => pc'[p] = "resending" /\ held'[p] = store /\ auth'[p] = auth[p]
        /\ ~after[p] => pc'[p] = "ready" /\ auth'[p] = store /\ held'[p] = held[p]
    BY <1>8, RefreshedMoves DEF TypeOK
  <2>2. TypeOK'
    BY <1>2, <1>8, <2>1 DEF TypeOK
  <2>3. after[p] => TokenOf(store) # TokenOf(auth[p])
    BY <1>1, <1>8 DEF SameTokens, TokenOf, CanRefresh, EntriesSound, Sound, MateOf
  <2>4. RefreshingAt(p)' /\ pc'[p] # "answered"
    BY <1>1, <1>8, <2>1, <2>3 DEF RefreshingAt, CanRefresh, TokenOf, UnusedUpdate
  <2>5. auth'[p] \in {store, auth[p]} /\ held'[p] \in {store, held[p]}
    BY <2>1 DEF TypeOK
  <2>6. QED
    BY <1>1, <1>3, <1>8, <2>1, <2>2, <2>4, <2>5, LocalStep DEF UnusedUpdate
<1>9. ASSUME Refreshed(p, Renewal(reply[p], store)), store # Absent, SameTokens(store, held[p]),
             Write(Renewal(reply[p], store))
      PROVE  IInv'
  <2>1. Renewal(reply[p], store) \in Entry /\ store' = Renewal(reply[p], store)
    BY <1>4, <1>9 DEF Write
  <2>2. /\ ProcType' /\ OthersStay(p)
        /\ after[p] => pc'[p] = "resending" /\ held'[p] = store' /\ auth'[p] = auth[p]
        /\ ~after[p] => pc'[p] = "ready" /\ auth'[p] = store' /\ held'[p] = held[p]
    BY <1>9, <2>1, RefreshedMoves
  <2>3. TypeOK'
    BY <1>2, <1>5, <1>9, <2>2
  <2>4. after[p] \in BOOLEAN
    BY DEF TypeOK
  <2>5. pc'[p] \in {"ready", "resending"} /\ (pc'[p] = "resending" => after[p])
    BY <2>2, <2>4
  <2>6. auth'[p] \in {store', auth[p]} /\ held'[p] \in {store', held[p]}
    BY <2>2, <2>4
  <2>7. QED
    BY <1>1, <1>9, <2>2, <2>3, <2>5, <2>6, WriteStep DEF UnusedUpdate
<1>10. CASE Store(p)
  BY <1>6, <1>8, <1>9, <1>10 DEF Store
<1>11. CASE StoreFails(p)
  BY <1>6, <1>7, <1>11 DEF StoreFails
<1>12. QED
  BY <1>10, <1>11

-----------------------------------------------------------------------------
(* The exchange *)

LEMMA SoundToken ==
    ASSUME IInv, NEW e, Sound(e), e # Absent, e.access # NoToken
    PROVE  e.access \in Tokens /\ e.access <= issued
<1> DEFINE n == e.access
<1> HIDE DEF IInv
<1>1. n \in stored
  BY DEF Sound
<1>2. stored \subseteq Tokens /\ issued \in Nat
  BY DEF TypeOK, IInv
<1>3. stored \subseteq 1 .. issued
  BY DEF Issued, IInv
<1> HIDE DEF n
<1>4. n \in Tokens /\ n <= issued
  BY <1>1, <1>2, <1>3
<1>5. QED
  BY <1>4 DEF n

LEMMA IssueType ==
    ASSUME TypeOK, NEW n, n = issued + 1, NEW l \in Nat, NEW r \in Tokens \cup {NoToken}, Issue(n, l, r)
    PROVE  /\ n \in Tokens /\ issued' \in Nat /\ issued' <= MaxTokens /\ 1 .. issued \subseteq 1 .. issued'
           /\ n \in 1 .. issued'
           /\ valid' \subseteq 1 .. issued' /\ fresh' \subseteq 1 .. issued'
           /\ mate' \in [Tokens -> Tokens \cup {NoToken}] /\ family' \in [Tokens -> Nat]
           /\ \A k \in Tokens : k <= issued => mate'[k] = mate[k] /\ family'[k] = family[k]
           /\ mate'[n] = r /\ family'[n] = l
<1>1. n \in Tokens /\ issued' = n /\ 1 .. issued \subseteq 1 .. issued' /\ n \in 1 .. issued'
  BY DEF Issue, TypeOK
<1>2. valid' \subseteq 1 .. issued' /\ fresh' \subseteq 1 .. issued'
  BY <1>1 DEF Issue, TypeOK
<1>3. /\ mate' \in [Tokens -> Tokens \cup {NoToken}] /\ family' \in [Tokens -> Nat]
      /\ mate'[n] = r /\ family'[n] = l
      /\ \A k \in Tokens : k # n => mate'[k] = mate[k] /\ family'[k] = family[k]
  BY <1>1 DEF Issue, TypeOK
<1>4. QED
  BY <1>1, <1>2, <1>3 DEF Issue, TypeOK

\* Issuing a token disturbs nothing that was there.
LEMMA IssueKeeps ==
    ASSUME IInv, NEW n, n = issued + 1, NEW l \in Nat, NEW r \in Tokens \cup {NoToken}, Issue(n, l, r),
           r <= n
    PROVE  /\ \A e : e \in Entry \cup {Absent} /\ Sound(e) => (e # Absent => e.refresh = MateOf(e.access)')
           /\ \A k \in Tokens : k <= issued' => mate'[k] <= issued'
<1>1. \A k \in Tokens : k <= issued => mate'[k] = mate[k]
  BY IssueType
<1>2. issued' = n /\ n \in Tokens /\ mate'[n] = r /\ issued \in Nat
  BY IssueType DEF Issue, TypeOK
<1>3. ASSUME NEW e \in Entry, Sound(e), e # Absent PROVE e.refresh = MateOf(e.access)'
  <2>1. CASE e.access = NoToken
    BY <1>3, <2>1 DEF Sound, MateOf
  <2>2. CASE e.access # NoToken
    <3>1. e.access \in Tokens /\ e.access <= issued
      BY <1>3, <2>2, SoundToken
    <3>2. QED
      BY <1>1, <1>3, <2>2, <3>1 DEF Sound, MateOf
  <2>3. QED
    BY <2>1, <2>2
<1>4. ASSUME NEW k \in Tokens, k <= issued' PROVE mate'[k] <= issued'
  <2>1. CASE k = n
    BY <1>2, <2>1
  <2>2. CASE k # n
    <3>1. k <= issued /\ mate[k] <= issued /\ mate'[k] = mate[k]
      BY <1>1, <1>2, <1>4, <2>2 DEF Issued
    <3>2. mate[k] \in Nat
      BY SMTT(60) DEF TypeOK
    <3>3. QED
      BY <1>2, <3>1, <3>2
  <2>3. QED
    BY <2>1, <2>2
<1>5. QED
  BY <1>3, <1>4
\* Process p posts its refresh token, which the service exchanges.
LEMMA ExchangeStep ==
    ASSUME IInv, NEW p \in Procs, TypeOK', NEW rotates \in BOOLEAN, Exchange(p, rotates), NEW r, Answer(p, r),
           \/ r \in {Failed, Garbled}
           \/ r = [access |-> issued + 1, refresh |-> IF rotates THEN issued + 1 ELSE NoToken]
    PROVE  IInv'
<1> DEFINE n == issued + 1
           old == held[p].refresh
           new == IF rotates THEN n ELSE old
           l == family[held[p].access]
<1>1. CanRefresh(held[p]) /\ held[p] \in Entry /\ Sound(held[p])
  BY DEF Exchange, Refreshing, EntriesSound, CanRefresh, TypeOK
<1>2. held[p].access \in Tokens /\ held[p].access <= issued
  <2>1. held[p] # Absent /\ held[p].access # NoToken
    BY <1>1 DEF CanRefresh, Sound, MateOf
  <2>2. QED
    BY <1>1, <2>1, SoundToken
<1>3. old \in Tokens /\ old <= issued /\ l \in Nat
  BY <1>1, <1>2 DEF CanRefresh, Sound, MateOf, Issued, TypeOK, Entry
<1>4. Issue(n, l, new) /\ issued \in Nat /\ new \in Nat /\ new <= n
  <2>1. Issue(n, l, new)
    BY DEF Exchange
  <2>2. issued \in Nat
    BY DEF TypeOK
  <2>3. old \in Nat /\ old <= n
    BY <1>3, <2>2 DEF Tokens
  <2>4. QED
    BY <2>1, <2>2, <2>3
<1>5. n \in Tokens /\ issued' = n
  BY <1>4 DEF Issue
<1>6. new \in Tokens \cup {NoToken}
  BY <1>3, <1>5
<1>7. /\ mate'[n] = new /\ family'[n] = l
      /\ \A k \in Tokens : k <= issued => mate'[k] = mate[k] /\ family'[k] = family[k]
  BY <1>3, <1>4, <1>6, IssueType, SMTT(60)
<1>8. /\ \A e : e \in Entry \cup {Absent} /\ Sound(e) => (e # Absent => e.refresh = MateOf(e.access)')
      /\ \A k \in Tokens : k <= issued' => mate'[k] <= issued'
  BY <1>3, <1>4, <1>6, IssueKeeps
<1>9. EntriesSound'
  BY <1>8 DEF EntriesSound, Sound, MateOf, Answer, TypeOK
<1>10. Issued'
  BY <1>5, <1>8 DEF Issued, Answer, TypeOK
<1>11. /\ pc'[p] = "answered" /\ reply'[p] = r /\ held' = held /\ stored' = stored
       /\ \A q \in Procs \ {p} : SameFor(q)
  BY DEF Answer, TypeOK, SameFor
<1>12. ASSUME Grant(p)'
       PROVE  reply'[p].access = n /\ reply'[p].refresh = IF rotates THEN n ELSE NoToken
  BY <1>11, <1>12 DEF Grant
<1>13. n \notin stored
  BY <1>4 DEF Issued
<1>14. ASSUME NEW q \in Procs, q # p, Grant(q)'
       PROVE  /\ Grant(q) /\ reply'[q] = reply[q] /\ reply[q].access \in Tokens /\ reply[q].access <= issued
              /\ held[q].access \in Tokens /\ held[q].access <= issued
  <2>1. Grant(q) /\ reply'[q] = reply[q]
    BY <1>11, <1>14 DEF Grant, SameFor
  <2>2. reply[q].access \in Tokens /\ reply[q].access <= issued
    BY <2>1 DEF Grant, GrantsNew, Reply
  <2>3. CanRefresh(held[q]) /\ Sound(held[q]) /\ held[q] \in Entry \cup {Absent}
    BY <2>1 DEF Grant, Refreshing, EntriesSound, TypeOK
  <2>4. held[q].access \in Tokens /\ held[q].access <= issued
    <3>1. held[q] # Absent /\ held[q].access # NoToken
      BY <2>3 DEF CanRefresh, Sound, MateOf
    <3>2. QED
      BY <2>3, <3>1, SoundToken
  <2>5. QED
    BY <2>1, <2>2, <2>4
<1>15. GrantsNew'
  <2>1. ASSUME NEW q \in Procs, Grant(q)'
        PROVE  /\ reply'[q].access <= issued' /\ reply'[q].access \notin stored'
               /\ mate'[reply'[q].access] = IF reply'[q].refresh # NoToken THEN reply'[q].refresh
                                            ELSE held'[q].refresh
               /\ family'[reply'[q].access] = family'[held'[q].access]
    <3>1. CASE q = p
      BY <1>2, <1>4, <1>5, <1>7, <1>11, <1>12, <1>13, <2>1, <3>1
    <3>2. CASE q # p
      <4>1. /\ reply[q].access \notin stored
            /\ mate[reply[q].access] = IF reply[q].refresh # NoToken THEN reply[q].refresh
                                       ELSE held[q].refresh
            /\ family[reply[q].access] = family[held[q].access]
        BY <1>14, <2>1, <3>2 DEF GrantsNew
      <4>2. QED
        BY <1>4, <1>5, <1>7, <1>11, <1>14, <2>1, <3>2, <4>1
    <3>3. QED
      BY <3>1, <3>2
  <2>2. ASSUME NEW q \in Procs, NEW u \in Procs, Grant(q)', Grant(u)', reply'[q].access = reply'[u].access
        PROVE  q = u
    <3>1. CASE q = p /\ u # p
      BY <1>4, <1>12, <1>14, <2>2, <3>1
    <3>2. CASE q # p /\ u = p
      BY <1>4, <1>12, <1>14, <2>2, <3>2
    <3>3. CASE q # p /\ u # p
      BY <1>14, <2>2, <3>3 DEF GrantsNew
    <3>4. QED
      BY <3>1, <3>2, <3>3
  <2>3. QED
    BY <2>1, <2>2 DEF GrantsNew
<1>16. RefreshingAt(p)'
  BY <1>11 DEF RefreshingAt, Answer, Refreshing, Requesting, CanRefresh, TokenOf
<1>17. QED
  BY <1>9, <1>10, <1>11, <1>15, <1>16, OthersKeep
\* An answer to process p that leaves the service as it is.
LEMMA AnswerStep ==
    ASSUME IInv, NEW p \in Procs, NEW r \in {Failed, Garbled}, Answer(p, r), UNCHANGED service,
           faults' \in Nat, excused' \in [Procs -> BOOLEAN]
    PROVE  IInv'
<1>1. TypeOK'
  BY DEF TypeOK, Answer, service, Points
<1>2. /\ pc'[p] = "answered" /\ reply'[p] = r /\ \A q \in Procs \ {p} : SameFor(q)
  BY DEF Answer, TypeOK, SameFor
<1>3. ~Grant(p)'
  BY <1>2 DEF Grant
<1>4. \A q \in Procs : Grant(q)' => q # p /\ Grant(q) /\ reply'[q] = reply[q]
  BY <1>2, <1>3 DEF Grant, SameFor
<1>5. GrantsNew'
  BY <1>4 DEF GrantsNew, Answer, service
<1>6. EntriesSound' /\ Issued'
  BY DEF EntriesSound, Issued, Sound, MateOf, Answer, service
<1>7. RefreshingAt(p)'
  BY <1>2 DEF RefreshingAt, Answer, Refreshing, Requesting, CanRefresh, TokenOf
<1>8. QED
  BY <1>1, <1>2, <1>5, <1>6, <1>7, OthersKeep

LEMMA ExchangeType ==
    ASSUME IInv, NEW p \in Procs, NEW rotates \in BOOLEAN, Exchange(p, rotates),
           NEW r \in Reply \cup {Failed, Garbled}, Answer(p, r),
           faults' \in Nat, UNCHANGED excused
    PROVE  TypeOK'
<1> DEFINE n == issued + 1
           old == held[p].refresh
           new == IF rotates THEN n ELSE old
           l == family[held[p].access]
<1>1. CanRefresh(held[p]) /\ held[p] \in Entry /\ Sound(held[p])
  BY DEF Exchange, Refreshing, EntriesSound, CanRefresh, TypeOK
<1>2. held[p].access \in Tokens
  <2>1. held[p] # Absent /\ held[p].access # NoToken
    BY <1>1 DEF CanRefresh, Sound, MateOf
  <2>2. QED
    BY <1>1, <2>1, SoundToken
<1>3. Issue(n, l, new) /\ l \in Nat /\ n \in Tokens /\ new \in Tokens \cup {NoToken}
  BY <1>1, <1>2 DEF Exchange, Issue, TypeOK, Entry
<1>4. /\ issued' \in Nat /\ issued' <= MaxTokens /\ 1 .. issued \subseteq 1 .. issued' /\ n \in 1 .. issued'
      /\ valid' \subseteq 1 .. issued' /\ fresh' \subseteq 1 .. issued'
      /\ mate' \in [Tokens -> Tokens \cup {NoToken}] /\ family' \in [Tokens -> Nat]
  BY <1>3, IssueType
<1>5. live' \subseteq 1 .. issued'
  <2>1. live' \subseteq live \cup {n} /\ live \subseteq 1 .. issued
    BY DEF Exchange, TypeOK
  <2>2. QED
    BY <1>4, <2>1
<1>6. pc' \in [Procs -> Points] /\ reply' \in [Procs -> Reply \cup {Failed, Garbled}]
  BY DEF Answer, TypeOK, Points
<1>7. QED
  BY <1>4, <1>5, <1>6 DEF TypeOK, Answer

LEMMA GrantedStep == ASSUME IInv, NEW p \in Procs, Granted(p) PROVE IInv'
<1>1. PICK rotates \in Rotations :
        /\ Exchange(p, rotates) /\ UNCHANGED <<faults, excused>>
        /\ Answer(p, [access |-> issued + 1, refresh |-> IF rotates THEN issued + 1 ELSE NoToken])
  BY DEF Granted
<1> DEFINE r == [access |-> issued + 1, refresh |-> IF rotates THEN issued + 1 ELSE NoToken]
<1>2. rotates \in BOOLEAN /\ issued + 1 \in Tokens
  BY <1>1 DEF Exchange, Issue, TypeOK
<1>3. r \in Reply
  BY <1>2 DEF Reply
<1>4. faults' \in Nat
  BY <1>1 DEF TypeOK
<1>5. TypeOK'
  BY <1>1, <1>2, <1>3, <1>4, ExchangeType
<1>6. QED
  BY <1>1, <1>2, <1>5, ExchangeStep

LEMMA RefusedStep == ASSUME IInv, NEW p \in Procs, Refused(p) PROVE IInv'
<1>1. excused' \in [Procs -> BOOLEAN] /\ faults' \in Nat
  BY NoteType DEF Refused, TypeOK
<1>2. QED
  BY <1>1, AnswerStep DEF Refused

LEMMA LostStep == ASSUME IInv, NEW p \in Procs, Lost(p) PROVE IInv'
<1>1. PICK r \in {Failed, Garbled} : Answer(p, r)
  BY DEF Lost
<1>2. faults' \in Nat /\ UNCHANGED excused /\ excused' \in [Procs -> BOOLEAN]
  BY DEF Lost, Fault, TypeOK
<1>3. CASE UNCHANGED service
  BY <1>1, <1>2, <1>3, AnswerStep
<1>4. CASE \E rotates \in Rotations : Exchange(p, rotates)
  <2>1. PICK rotates \in Rotations : Exchange(p, rotates)
    BY <1>4
  <2>2. rotates \in BOOLEAN
    OBVIOUS
  <2>3. TypeOK'
    BY <1>1, <1>2, <2>1, <2>2, ExchangeType
  <2>4. QED
    BY <1>1, <2>1, <2>2, <2>3, ExchangeStep
<1>5. QED
  BY <1>3, <1>4 DEF Lost

-----------------------------------------------------------------------------
(* Other commands and time *)

\* A login stores token n with its own refresh token, and no entry has either yet.
LEMMA LoginStep == ASSUME IInv, Login PROVE IInv'
<1>1. excused' \in [Procs -> BOOLEAN] /\ logins' \in Nat /\ faults' \in Nat /\ OthersUnchanged
  BY NoteType, SMTT(60) DEF Login, TypeOK
<1>2. Refreshing' /\ Requesting' /\ ResendsAnotherToken'
  BY <1>1 DEF OthersUnchanged, Refreshing, Requesting, ResendsAnotherToken, CanRefresh, TokenOf
<1>3. ASSUME Write([type |-> "apikey", access |-> NoToken, refresh |-> NoToken]), UNCHANGED service
      PROVE  IInv'
  <2>1. store' = [type |-> "apikey", access |-> NoToken, refresh |-> NoToken] /\ stored' = stored
    BY <1>3 DEF Write
  <2>2. TypeOK'
    BY <1>1, <1>3, <2>1 DEF TypeOK, OthersUnchanged, service, Entry
  <2>3. EntriesSound'
    BY <1>1, <1>3, <2>1 DEF EntriesSound, Sound, MateOf, OthersUnchanged, service
  <2>4. Issued' /\ GrantsNew'
    BY <1>1, <1>3, <2>1 DEF Issued, GrantsNew, Grant, OthersUnchanged, service
  <2>5. QED
    BY <1>2, <2>2, <2>3, <2>4
<1>4. ASSUME NEW r \in {issued + 1, NoToken}, Issue(issued + 1, logins + 1, r),
             live' = live \cup ({r} \ {NoToken}),
             Write([type |-> "bearer", access |-> issued + 1, refresh |-> r])
      PROVE  IInv'
  <2> DEFINE n == issued + 1
             e == [type |-> "bearer", access |-> n, refresh |-> r]
  <2>1. n \in Tokens /\ issued' = n /\ issued \in Nat /\ logins + 1 \in Nat /\ r <= n
    BY <1>4 DEF Issue, TypeOK
  <2>2. r \in Tokens \cup {NoToken}
    BY <2>1
  <2>3. /\ issued' \in Nat /\ issued' <= MaxTokens /\ 1 .. issued \subseteq 1 .. issued' /\ n \in 1 .. issued'
        /\ valid' \subseteq 1 .. issued' /\ fresh' \subseteq 1 .. issued'
        /\ mate' \in [Tokens -> Tokens \cup {NoToken}] /\ family' \in [Tokens -> Nat]
        /\ mate'[n] = r
        /\ \A k \in Tokens : k <= issued => mate'[k] = mate[k] /\ family'[k] = family[k]
    BY <1>4, <2>1, <2>2, IssueType, SMTT(60)
  <2>4. /\ \A d : d \in Entry \cup {Absent} /\ Sound(d) => (d # Absent => d.refresh = MateOf(d.access)')
        /\ \A k \in Tokens : k <= issued' => mate'[k] <= issued'
    BY <1>4, <2>1, <2>2, IssueKeeps
  <2>5. e \in Entry /\ store' = e /\ stored' = stored \cup {n}
    BY <1>4, <2>1, <2>2 DEF Write, Entry
  <2>6. live' \subseteq 1 .. issued'
    BY <1>4, <2>3, SMTT(60) DEF TypeOK
  <2>7. TypeOK'
    BY <1>1, <2>1, <2>3, <2>5, <2>6 DEF TypeOK, OthersUnchanged
  <2>8. Sound(store)'
    BY <2>1, <2>3, <2>5 DEF Sound, MateOf
  <2>9. EntriesSound'
    BY <1>1, <2>4, <2>5, <2>8 DEF EntriesSound, Sound, MateOf, OthersUnchanged, TypeOK
  <2>10. Issued'
    BY <2>1, <2>3, <2>4, <2>5 DEF Issued
  <2>11. GrantsNew'
    <3>1. ASSUME NEW q \in Procs, Grant(q)'
          PROVE  /\ Grant(q) /\ reply'[q] = reply[q] /\ held'[q] = held[q]
                 /\ reply[q].access \in Tokens /\ reply[q].access <= issued
                 /\ held[q].access \in Tokens /\ held[q].access <= issued
      <4>1. Grant(q) /\ reply'[q] = reply[q] /\ held'[q] = held[q]
        BY <1>1, <3>1 DEF Grant, OthersUnchanged
      <4>2. reply[q].access \in Tokens /\ reply[q].access <= issued
        BY <4>1 DEF Grant, GrantsNew, Reply
      <4>3. CanRefresh(held[q]) /\ Sound(held[q])
        BY <4>1 DEF Grant, Refreshing, EntriesSound
      <4>4. held[q] # Absent /\ held[q].access # NoToken
        BY <4>3 DEF CanRefresh, Sound, MateOf
      <4>5. QED
        BY <4>1, <4>2, <4>3, <4>4, SoundToken
    <3>2. \A q \in Procs : Grant(q)' => reply[q].access # n
      BY <2>1, <3>1
    <3>3. ASSUME NEW q \in Procs, Grant(q)'
          PROVE  /\ reply'[q].access <= issued' /\ reply'[q].access \notin stored'
                 /\ mate'[reply'[q].access] = IF reply'[q].refresh # NoToken THEN reply'[q].refresh
                                              ELSE held'[q].refresh
                 /\ family'[reply'[q].access] = family'[held'[q].access]
      <4>1. /\ reply[q].access \notin stored
            /\ mate[reply[q].access] = IF reply[q].refresh # NoToken THEN reply[q].refresh
                                       ELSE held[q].refresh
            /\ family[reply[q].access] = family[held[q].access]
        BY <3>1, <3>3 DEF GrantsNew
      <4>2. /\ reply'[q] = reply[q] /\ held'[q] = held[q]
            /\ mate'[reply[q].access] = mate[reply[q].access]
            /\ family'[reply[q].access] = family[reply[q].access]
            /\ family'[held[q].access] = family[held[q].access]
        BY <2>3, <3>1, <3>3
      <4>3. reply[q].access <= issued' /\ reply[q].access \notin stored'
        BY <2>1, <2>5, <3>1, <3>2, <3>3, <4>1
      <4>4. QED
        BY <4>1, <4>2, <4>3
    <3>4. ASSUME NEW q \in Procs, NEW u \in Procs, Grant(q)', Grant(u)', reply'[q].access = reply'[u].access
          PROVE  q = u
      BY <3>1, <3>4 DEF GrantsNew
    <3>5. QED
      BY <3>3, <3>4 DEF GrantsNew
  <2>12. QED
    BY <1>2, <2>7, <2>9, <2>10, <2>11
<1>5. QED
  BY <1>3, <1>4 DEF Login

LEMMA OtherStep == ASSUME IInv, Logout \/ Age \/ Expire PROVE IInv'
<1>1. OthersUnchanged /\ store' \in {store, Absent} /\ UNCHANGED <<issued, live, mate, family, stored>>
  BY DEF Logout, Age, Expire, service, history
<1>2. excused' \in [Procs -> BOOLEAN] /\ logins' \in Nat /\ faults' \in Nat
  <2>1. CASE Logout
    BY <2>1, NoteType, SMTT(60) DEF Logout, TypeOK
  <2>2. CASE Age \/ Expire
    BY <2>2 DEF Age, Expire, TypeOK, history
  <2>3. QED
    BY <2>1, <2>2
<1>3. valid' \subseteq valid /\ fresh' \subseteq fresh
  BY DEF Logout, Age, Expire, service
<1>4. TypeOK'
  BY <1>1, <1>2, <1>3 DEF TypeOK, OthersUnchanged
<1>5. EntriesSound' /\ Issued'
  BY <1>1 DEF EntriesSound, Sound, MateOf, Issued, OthersUnchanged
<1>6. GrantsNew'
  BY <1>1 DEF GrantsNew, Grant, OthersUnchanged
<1>7. Refreshing' /\ Requesting' /\ ResendsAnotherToken'
  BY <1>1 DEF OthersUnchanged, Refreshing, Requesting, ResendsAnotherToken, CanRefresh, TokenOf
<1>8. QED
  BY <1>4, <1>5, <1>6, <1>7

LEMMA NextIInv == IInv /\ [Next]_vars => IInv'
<1> SUFFICES ASSUME IInv, [Next]_vars PROVE IInv'
  OBVIOUS
<1>1. ASSUME NEW p \in Procs, Load(p) \/ Progress(p) \/ Lost(p) \/ StoreFails(p) \/ Kill(p)
      PROVE  IInv'
  BY <1>1, LoadStep, GrantedStep, RefusedStep, RecheckStep, StoreStep, RequestStep, LostStep, KillStep
     DEF Progress
<1>2. CASE Login \/ Logout \/ Age \/ Expire
  BY <1>2, LoginStep, OtherStep
<1>3. CASE UNCHANGED vars
  BY <1>3, SMTT(60) DEF vars, service, history, TypeOK, EntriesSound, Sound, MateOf, Issued, GrantsNew, Grant,
              Refreshing, Requesting, ResendsAnotherToken, CanRefresh, TokenOf
<1>4. QED
  BY <1>1, <1>2, <1>3 DEF Next

LEMMA SpecIInv == Spec => []IInv
<1>1. Init => IInv
  BY InitIInv
<1>2. IInv /\ [Next]_vars => IInv'
  BY NextIInv
<1>3. QED
  BY <1>1, <1>2, PTL DEF Spec

-----------------------------------------------------------------------------
(* What a user of the module relies on *)

\* Every variable keeps its type, for any number of processes, tokens and faults.
THEOREM TypeCorrect == Spec => []TypeOK
<1>1. IInv => TypeOK
  BY DEF IInv
<1>2. QED
  BY <1>1, SpecIInv, PTL

\* The refresh token in hosts.yml always goes with the access token next to it,
\* whether the service rotates refresh tokens or not (the fallback in the closure
\* of refreshHostAuth).
THEOREM PairKept == Spec => []PairCoherent
<1>1. IInv => PairCoherent
  BY DEF EntriesSound, Sound, MateOf, PairCoherent, TokenOf
<1>2. QED
  BY <1>1, SpecIInv, PTL

\* No request carries a token that hosts.yml has not held.
THEOREM OnlyStoredTokens == Spec => []SendsStoredTokens
<1>1. IInv => SendsStoredTokens
  BY DEF EntriesSound, Sound, SendsStoredTokens, TokenOf
<1>2. QED
  BY <1>1, SpecIInv, PTL

\* A request answered 401 is sent again only with another access token.
THEOREM AnotherToken == Spec => []ResendsAnotherToken
<1>1. IInv => ResendsAnotherToken
  BY DEF IInv
<1>2. QED
  BY <1>1, SpecIInv, PTL

\* A refresh never undoes a login or a logout: whatever entry a process was
\* renewing, what it stores descends from the same login as what it replaces.
THEOREM LoginsKept == Spec => LoginWins
<1> DEFINE Kept == store' # store => \/ logins' > logins
                                     \/ /\ store # Absent /\ store' # Absent
                                        /\ FamilyOf(store)' = FamilyOf(store)
<1>1. ASSUME IInv, NEW p \in Procs, Grant(p), UnusedUpdate,
             store # Absent, SameTokens(store, held[p]), Write(Renewal(reply[p], store))
      PROVE  Kept
  <2>1. /\ store' = Renewal(reply[p], store) /\ store' # Absent /\ store'.access = reply[p].access
    BY <1>1 DEF Write, Renewal, TypeOK, Grant, TokenRefreshAssumption, Entry, Reply
  <2>2. reply[p].access # NoToken
    BY <1>1 DEF Grant, Reply
  <2>3. held[p].access # NoToken
    BY <1>1 DEF Grant, Refreshing, CanRefresh, EntriesSound, Sound, MateOf
  <2>4. family[reply[p].access] = family[held[p].access]
    BY <1>1 DEF GrantsNew
  <2>5. family' = family
    BY <1>1 DEF UnusedUpdate, service
  <2>6. QED
    BY <1>1, <2>1, <2>2, <2>3, <2>4, <2>5 DEF FamilyOf, TokenOf, SameTokens
<1>2. ASSUME IInv, NEW p \in Procs, Load(p) \/ Progress(p) \/ Lost(p) \/ StoreFails(p) \/ Kill(p)
      PROVE  Kept
  <2>1. CASE Store(p)
    BY <1>1, <1>2, <2>1 DEF Store, Grant
  <2>2. CASE StoreFails(p)
    BY <1>1, <1>2, <2>2 DEF StoreFails, Grant
  <2>3. CASE Load(p) \/ Granted(p) \/ Refused(p) \/ Lost(p)
    BY <2>3 DEF Load, Granted, Refused, Lost, Answer
  <2>4. CASE Recheck(p) \/ Request(p) \/ Reload(p) \/ Resend(p) \/ Kill(p)
    BY <2>4 DEF Recheck, Request, Reload, Resend, Kill, RestUnchanged
  <2>5. QED
    BY <1>2, <2>1, <2>2, <2>3, <2>4 DEF Progress
<1>3. ASSUME IInv, Login \/ Logout PROVE Kept
  BY <1>3 DEF Login, Logout, TypeOK
<1>4. ASSUME Age \/ Expire PROVE Kept
  BY <1>4 DEF Age, Expire
<1>5. IInv /\ [Next]_vars => Kept
  BY <1>2, <1>3, <1>4 DEF Next, vars
<1>6. IInv /\ [Next]_vars => [Kept]_vars
  BY <1>5
<1>7. QED
  BY <1>6, SpecIInv, PTL DEF Spec, LoginWins

-----------------------------------------------------------------------------
(* A refresh fails for a reason, when the service rotates always or never *)

\* A service that rotates gives each access token its own refresh token.
RotatedMates == TRUE \in Rotations => \A n \in Tokens : mate[n] \in {n, NoToken}

\* Some process holds a grant for the tokens in hosts.yml.
Pending == \E q \in Procs : Grant(q) /\ SameTokens(held[q], store)

\* The stored refresh token is dead only while its replacement waits to be stored.
StoredLives == CanRefresh(store) => store.refresh \in live \/ (TRUE \in Rotations /\ Pending)

\* The refresh token of a grant that has not been stored is not used up.
GrantLive(q) ==
    /\ reply[q].refresh # NoToken => reply[q].refresh \in live
    /\ TRUE \in Rotations => reply[q].refresh # NoToken

GrantsLive == \A q \in Procs : Grant(q) => GrantLive(q)

NoneGarbled == \A q \in Procs : pc[q] = "answered" => reply[q] # Garbled

\* What is so for process p as long as nothing excuses it.
Unexcused(p) ==
    /\ pc[p] # "idle" => CanRefresh(store)
    /\ pc[p] = "ready" => CanRefresh(auth[p])
    /\ pc[p] = "answered" /\ reply[p] = Failed => held[p].refresh \notin live
    /\ outcome[p] # "failed"

Calm ==
    /\ StoredLives /\ GrantsLive /\ NoneGarbled
    /\ \A p \in Procs : ~excused[p] => Unexcused(p)

\* Until the first fault.
CalmBeforeFaults == faults = 0 => Calm

\* q is left alone by a step, which may excuse it.
Aside(q) ==
    /\ pc'[q] = pc[q] /\ auth'[q] = auth[q] /\ held'[q] = held[q]
    /\ reply'[q] = reply[q] /\ outcome'[q] = outcome[q]
    /\ ~excused'[q] => ~excused[q]

\* A step of process p that leaves hosts.yml and the live tokens alone.
LEMMA CalmLocally ==
    ASSUME Calm, NEW p \in Procs, UNCHANGED <<store, live>>,
           \A q \in Procs \ {p} : Aside(q),
           Grant(p) => ~CanRefresh(store) \/ ~SameTokens(held[p], store),
           ~Grant(p)', pc'[p] = "answered" => reply'[p] # Garbled,
           ~excused'[p] => Unexcused(p)'
    PROVE  Calm'
<1>1. StoredLives'
  <2>1. SUFFICES ASSUME CanRefresh(store), store.refresh \notin live
                 PROVE  TRUE \in Rotations /\ Pending'
    BY DEF StoredLives, CanRefresh
  <2>2. PICK q \in Procs : Grant(q) /\ SameTokens(held[q], store)
    BY <2>1 DEF Calm, StoredLives, Pending
  <2>3. q # p
    BY <2>1, <2>2
  <2>4. Grant(q)' /\ SameTokens(held[q], store)'
    BY <2>2, <2>3 DEF Aside, Grant, SameTokens
  <2>5. TRUE \in Rotations
    BY <2>1 DEF Calm, StoredLives
  <2>6. QED
    BY <2>4, <2>5 DEF Pending
<1>2. GrantsLive'
  BY DEF Calm, GrantsLive, GrantLive, Grant, Aside
<1>3. NoneGarbled'
  BY DEF Calm, NoneGarbled, Aside
<1>4. ASSUME NEW q \in Procs, ~excused'[q] PROVE Unexcused(q)'
  <2>1. CASE q = p
    BY <1>4, <2>1
  <2>2. CASE q # p
    BY <1>4, <2>2 DEF Calm, Unexcused, Aside, CanRefresh
  <2>3. QED
    BY <2>1, <2>2
<1>5. QED
  BY <1>1, <1>2, <1>3, <1>4 DEF Calm

LEMMA LoadCalm == ASSUME IInv, Calm, NEW p \in Procs, Load(p) PROVE Calm'
<1> USE DEF Load
<1>1. \A q \in Procs \ {p} : Aside(q)
  BY DEF Aside, TypeOK
<1>2. pc'[p] \in {"posting", "ready"} /\ pc[p] = "idle" /\ outcome'[p] = "none"
  BY DEF TypeOK
<1>3. ~excused'[p] => CanRefresh(store)
  BY DEF TypeOK
<1>4. pc'[p] = "ready" => auth'[p] = store
  BY DEF TypeOK
<1>5. ~excused'[p] => Unexcused(p)'
  BY <1>2, <1>3, <1>4 DEF Unexcused, CanRefresh
<1>6. ~Grant(p) /\ ~Grant(p)' /\ pc'[p] # "answered"
  BY <1>2 DEF Grant
<1>7. UNCHANGED <<store, live>>
  BY DEF service
<1>8. QED
  BY <1>1, <1>5, <1>6, <1>7, CalmLocally

LEMMA RefusedCalm == ASSUME IInv, Calm, NEW p \in Procs, Refused(p) PROVE Calm'
<1> USE DEF Refused, Answer
<1>1. \A q \in Procs : ~excused'[q] => ~excused[q]
  BY DEF Note
<1>2. \A q \in Procs \ {p} : Aside(q)
  BY <1>1 DEF Aside, TypeOK
<1>3. pc[p] = "posting" /\ pc'[p] = "answered" /\ reply'[p] = Failed /\ outcome'[p] = outcome[p]
  BY DEF TypeOK
<1>4. ASSUME ~excused'[p] PROVE Unexcused(p)'
  <2>1. ~excused[p] /\ issued # MaxTokens
    BY <1>3, <1>4 DEF Note
  <2>2. CanRefresh(store) /\ outcome[p] # "failed"
    BY <1>3, <2>1 DEF Calm, Unexcused
  <2>3. held'[p].refresh \notin live'
    BY <2>1 DEF service
  <2>4. QED
    BY <1>3, <2>2, <2>3 DEF Unexcused, CanRefresh
<1>5. ~Grant(p) /\ ~Grant(p)' /\ reply'[p] # Garbled
  BY <1>3 DEF Grant
<1>6. UNCHANGED <<store, live>>
  BY DEF service
<1>7. QED
  BY <1>2, <1>4, <1>5, <1>6, CalmLocally

\* Where the steps that use a refresh lead.
LEMMA RefreshedCalm ==
    ASSUME IInv, NEW p \in Procs, NEW e \in Entry \cup {Absent}, Refreshed(p, e),
           CanRefresh(store), CanRefresh(e), outcome[p] # "failed", CanRefresh(store)'
    PROVE  Unexcused(p)'
<1>1. pc'[p] \in {"ready", "resending"} /\ (pc'[p] = "ready" => auth'[p] = e)
  BY RefreshedMoves DEF TypeOK
<1>2. outcome'[p] = outcome[p]
  BY DEF Refreshed
<1>3. QED
  BY <1>1, <1>2 DEF Unexcused, CanRefresh

LEMMA RefreshOutcomes ==
    ASSUME IInv, NEW p \in Procs, NEW e, Refreshed(p, e) \/ RefreshFails(p), UNCHANGED reply,
           \A q \in Procs \ {p} : ~excused'[q] => ~excused[q]
    PROVE  /\ \A q \in Procs \ {p} : Aside(q)
           /\ pc'[p] \in {"idle", "ready", "resending"}
BY DEF TypeOK, RefreshFails, Refreshed, End, Aside

LEMMA RecheckCalm == ASSUME IInv, Calm, NEW p \in Procs, Recheck(p) PROVE Calm'
<1> USE DEF Recheck
<1>1. /\ pc[p] = "answered" /\ reply[p] = Failed /\ ~Grant(p)
      /\ UNCHANGED <<store, live, reply>>
  BY DEF Calm, NoneGarbled, Grant, UnusedUpdate, service
<1>2. \A q \in Procs : ~excused'[q] => ~excused[q] /\ (q = p => ~Overtaken(p))
  BY <1>1 DEF Note
<1>3. (\A q \in Procs \ {p} : Aside(q)) /\ pc'[p] \in {"idle", "ready", "resending"}
  BY <1>1, <1>2, RefreshOutcomes
<1>4. ASSUME ~excused'[p] PROVE Unexcused(p)'
  <2>1. Unexcused(p) /\ ~Overtaken(p)
    BY <1>2, <1>4 DEF Calm
  <2>2. CanRefresh(store) /\ held[p].refresh \notin live /\ outcome[p] # "failed"
    BY <1>1, <2>1 DEF Unexcused
  <2>3. CASE Renewed(p)
    <3>1. Refreshed(p, store) /\ store \in Entry \cup {Absent} /\ CanRefresh(store)'
      BY <1>1, <2>2, <2>3 DEF TypeOK, CanRefresh
    <3>2. QED
      BY <2>2, <3>1, RefreshedCalm
  <2>4. CASE ~Renewed(p)
    <3>1. store # Absent /\ store.type = "bearer" /\ store.access # NoToken
      BY <2>2 DEF CanRefresh, EntriesSound, Sound, MateOf
    <3>2. SameTokens(store, held[p])
      BY <2>4, <3>1 DEF Renewed
    <3>3. PICK q \in Procs : Grant(q) /\ SameTokens(held[q], store)
      BY <2>2, <3>2 DEF Calm, StoredLives, Pending, SameTokens
    <3>4. q # p
      BY <1>1, <3>3
    <3>5. held[q] # Absent /\ SameTokens(held[q], held[p])
      BY <3>2, <3>3 DEF Refreshing, Grant, CanRefresh, SameTokens
    <3>6. Overtaken(p)
      BY <3>3, <3>4, <3>5 DEF Overtaken, Grant
    <3>7. QED
      BY <2>1, <3>6
  <2>5. QED
    BY <2>3, <2>4
<1>5. ~Grant(p)' /\ pc'[p] # "answered"
  BY <1>3 DEF Grant
<1>6. QED
  BY <1>1, <1>3, <1>4, <1>5, CalmLocally

\* The grant replaces the tokens it was exchanged for.
LEMMA StoredCalm ==
    ASSUME IInv, Calm, NEW p \in Procs, Grant(p), store # Absent, SameTokens(store, held[p]),
           Write(Renewal(reply[p], store)), Refreshed(p, Renewal(reply[p], store)),
           UNCHANGED <<live, reply, excused>>
    PROVE  Calm'
<1> DEFINE e == Renewal(reply[p], store)
<1>1. /\ e \in Entry /\ e # Absent /\ store' = e
      /\ e.refresh = IF reply[p].refresh # NoToken THEN reply[p].refresh ELSE store.refresh
  BY DEF Write, Renewal, TypeOK, Grant, TokenRefreshAssumption, Entry, Reply
<1>2. (\A q \in Procs \ {p} : Aside(q)) /\ pc'[p] \in {"idle", "ready", "resending"}
  BY RefreshOutcomes
<1>3. ~Grant(p)' /\ pc'[p] # "answered"
  BY <1>2 DEF Grant
<1>4. CanRefresh(store) => CanRefresh(store)'
  BY <1>1 DEF CanRefresh
<1>5. ASSUME CanRefresh(store)' PROVE store'.refresh \in live'
  <2>1. CASE reply[p].refresh # NoToken
    BY <1>1, <2>1 DEF Calm, GrantsLive, GrantLive
  <2>2. CASE reply[p].refresh = NoToken
    <3>1. TRUE \notin Rotations
      BY <2>2 DEF Calm, GrantsLive, GrantLive
    <3>2. store'.refresh = store.refresh /\ CanRefresh(store)
      BY <1>1, <1>5, <2>2 DEF CanRefresh
    <3>3. QED
      BY <3>1, <3>2 DEF Calm, StoredLives
  <2>3. QED
    BY <2>1, <2>2
<1>6. StoredLives'
  BY <1>5 DEF StoredLives
<1>7. GrantsLive' /\ NoneGarbled'
  BY <1>2, <1>3 DEF Calm, GrantsLive, GrantLive, Grant, Aside, NoneGarbled
<1>8. ASSUME NEW q \in Procs, ~excused'[q] PROVE Unexcused(q)'
  <2>1. Unexcused(q)
    BY <1>8 DEF Calm
  <2>2. CASE q = p
    <3>1. CanRefresh(store) /\ outcome[p] # "failed"
      BY <2>1, <2>2 DEF Unexcused, Grant
    <3>2. CanRefresh(e)
      BY <1>1, <3>1 DEF CanRefresh
    <3>3. QED
      BY <1>1, <1>4, <2>2, <3>1, <3>2, RefreshedCalm
  <2>3. CASE q # p
    BY <1>2, <1>4, <2>1, <2>3 DEF Unexcused, Aside, CanRefresh
  <2>4. QED
    BY <2>2, <2>3
<1>9. QED
  BY <1>6, <1>7, <1>8 DEF Calm

LEMMA StoreCalm == ASSUME IInv, Calm, NEW p \in Procs, Store(p) PROVE Calm'
<1>1. Grant(p) /\ UNCHANGED <<live, reply, excused>>
  BY DEF Store, Grant, UnusedUpdate, service
<1>2. ASSUME UNCHANGED store, ~CanRefresh(store) \/ ~SameTokens(held[p], store),
             NEW e, Refreshed(p, e) \/ RefreshFails(p), ~excused'[p] => Unexcused(p)'
      PROVE  Calm'
  <2>1. (\A q \in Procs \ {p} : Aside(q)) /\ pc'[p] \in {"idle", "ready", "resending"}
    BY <1>1, <1>2, RefreshOutcomes
  <2>2. ~Grant(p)' /\ pc'[p] # "answered"
    BY <2>1 DEF Grant
  <2>3. QED
    BY <1>1, <1>2, <2>1, <2>2, CalmLocally
<1>3. ASSUME ~excused[p] PROVE CanRefresh(store) /\ outcome[p] # "failed"
  BY <1>1, <1>3 DEF Calm, Unexcused, Grant
<1>4. CASE store = Absent /\ RefreshFails(p) /\ UNCHANGED store
  <2>1. ~CanRefresh(store)
    BY <1>4 DEF CanRefresh
  <2>2. excused'[p]
    BY <1>1, <1>3, <2>1
  <2>3. QED
    BY <1>2, <1>4, <2>1, <2>2
<1>5. CASE store # Absent /\ ~SameTokens(store, held[p]) /\ Refreshed(p, store) /\ UNCHANGED store
  <2>1. store \in Entry \cup {Absent} /\ ~SameTokens(held[p], store)
    BY <1>5 DEF TypeOK, SameTokens
  <2>2. ASSUME ~excused'[p] PROVE Unexcused(p)'
    <3>1. CanRefresh(store) /\ CanRefresh(store)' /\ outcome[p] # "failed"
      BY <1>1, <1>3, <1>5, <2>2 DEF CanRefresh
    <3>2. QED
      BY <1>5, <2>1, <3>1, RefreshedCalm
  <2>3. QED
    BY <1>2, <1>5, <2>1, <2>2
<1>6. CASE /\ store # Absent /\ SameTokens(store, held[p])
           /\ Refreshed(p, Renewal(reply[p], store)) /\ Write(Renewal(reply[p], store))
  BY <1>1, <1>6, StoredCalm
<1>7. QED
  BY <1>4, <1>5, <1>6 DEF Store

\* The steps of doRawFullConsume.
LEMMA RequestCalm ==
    ASSUME IInv, Calm, NEW p \in Procs, Request(p) \/ Reload(p) \/ Resend(p) PROVE Calm'
<1>1. /\ pc[p] \in {"ready", "reloading", "resending"} /\ ~Grant(p)
      /\ UNCHANGED <<store, live, reply, excused>>
  BY DEF Request, Reload, Resend, RestUnchanged, service, history, Grant
<1>2. pc[p] \in {"reloading", "resending"} => CanRefresh(auth[p])
  BY DEF Refreshing
<1>3. ASSUME ~excused[p]
      PROVE  CanRefresh(store) /\ (pc[p] = "ready" => CanRefresh(auth[p])) /\ outcome[p] # "failed"
  BY <1>1, <1>3 DEF Calm, Unexcused
<1> DEFINE Good == /\ \A q \in Procs \ {p} : Aside(q)
                   /\ pc'[p] \in Points \ {"answered"}
                   /\ ~excused[p] => /\ pc'[p] = "ready" => CanRefresh(auth'[p])
                                     /\ outcome'[p] # "failed"
<1>4. ASSUME NEW how \in {"ok", "failed", "rejected"}, End(p, how), how = "failed" => excused[p]
      PROVE  Good
  BY <1>1, <1>3, <1>4 DEF End, TypeOK, Aside, Points
<1>5. ASSUME Answered(p) PROVE Good
  <2>1. CASE End(p, "ok")
    BY <1>4, <2>1
  <2>2. CASE pc' = [pc EXCEPT ![p] = "ready"] /\ UNCHANGED <<auth, held, outcome>>
    BY <1>1, <1>2, <1>3, <2>2 DEF TypeOK, Aside, Points
  <2>3. QED
    BY <1>5, <2>1, <2>2 DEF Answered
<1>6. ASSUME NEW point \in {"reloading", "resending", "posting"}, pc' = [pc EXCEPT ![p] = point],
             held' \in {held, [held EXCEPT ![p] = store]}, UNCHANGED <<auth, outcome>>
      PROVE  Good
  BY <1>1, <1>3, <1>6 DEF TypeOK, Aside, Points
<1> HIDE DEF Good
<1>7. ASSUME Request(p) PROVE Good
  <2>1. CASE Answered(p)
    BY <1>5, <2>1
  <2>2. CASE pc' = [pc EXCEPT ![p] = "reloading"] /\ UNCHANGED <<auth, held, outcome>>
    BY <1>6, <2>2
  <2>3. CASE End(p, "failed") /\ ~CanRefresh(auth[p]) /\ pc[p] = "ready"
    BY <1>3, <1>4, <2>3
  <2>4. QED
    BY <1>7, <2>1, <2>2, <2>3, Zenon DEF Request
<1>8. ASSUME Reload(p) PROVE Good
  <2>1. CASE End(p, "failed") /\ (store = Absent \/ ~CanRefresh(store))
    BY <1>3, <1>4, <2>1 DEF CanRefresh
  <2>2. CASE /\ pc' = [pc EXCEPT ![p] = "resending"] /\ held' = [held EXCEPT ![p] = store]
             /\ UNCHANGED <<auth, outcome>>
    BY <1>6, <2>2
  <2>3. CASE /\ pc' = [pc EXCEPT ![p] = "posting"] /\ held' = [held EXCEPT ![p] = store]
             /\ UNCHANGED <<auth, outcome>>
    BY <1>6, <2>3
  <2>4. QED
    BY <1>8, <2>1, <2>2, <2>3, Zenon DEF Reload
<1>9. ASSUME Resend(p) PROVE Good
  <2>1. CASE Answered(p)
    BY <1>5, <2>1
  <2>2. CASE End(p, "rejected")
    BY <1>4, <2>2
  <2>3. QED
    BY <1>9, <2>1, <2>2, Zenon DEF Resend
<1>10. Good
  BY <1>7, <1>8, <1>9, Zenon
<1>11. ~excused'[p] => Unexcused(p)'
  BY <1>1, <1>3, <1>10 DEF Good, Unexcused, CanRefresh
<1>12. ~Grant(p)' /\ pc'[p] # "answered"
  BY <1>10 DEF Good, Grant
<1>13. \A q \in Procs \ {p} : Aside(q)
  BY <1>10 DEF Good
<1>14. QED
  BY <1>1, <1>11, <1>12, <1>13, CalmLocally

\* Where the service rotates, a refresh token has its access token's number.
LEMMA RotatedEntry ==
    ASSUME IInv, RotatedMates, TRUE \in Rotations, NEW e, Sound(e), CanRefresh(e)
    PROVE  e.refresh = e.access /\ e.access \in stored
BY DEF RotatedMates, Sound, CanRefresh, MateOf, TypeOK

LEMMA RotatedGrant ==
    ASSUME IInv, RotatedMates, TRUE \in Rotations, Calm, NEW q \in Procs, Grant(q)
    PROVE  reply[q].refresh \in live /\ reply[q].refresh \notin stored
<1>1. reply[q].refresh # NoToken /\ reply[q].refresh \in live
  BY DEF Calm, GrantsLive, GrantLive
<1>2. mate[reply[q].access] = reply[q].refresh /\ reply[q].access \notin stored
  BY <1>1 DEF GrantsNew
<1>3. reply[q].access \in Tokens
  BY DEF Grant, Reply
<1>4. reply[q].refresh = reply[q].access
  BY <1>1, <1>2, <1>3 DEF RotatedMates
<1>5. QED
  BY <1>1, <1>2, <1>4

\* A token the service is about to issue is in no entry yet.
LEMMA NextTokenUnused ==
    ASSUME IInv, NEW q \in Procs, CanRefresh(held[q]) PROVE held[q].refresh # issued + 1
<1>1. Sound(held[q]) /\ held[q] # Absent /\ held[q].access # NoToken
  BY DEF EntriesSound, Sound, CanRefresh, MateOf
<1>2. held[q].access \in Tokens /\ held[q].access <= issued
  BY <1>1, SoundToken
<1>3. held[q].refresh = mate[held[q].access]
  BY <1>1 DEF Sound, MateOf
<1> DEFINE m == mate[held[q].access]
<1>4. m <= issued
  BY <1>2 DEF Issued
<1>5. m \in Nat /\ issued \in Nat
  <2>1. m \in Tokens \cup {NoToken}
    BY <1>2 DEF TypeOK
  <2>2. QED
    BY <2>1 DEF TypeOK
<1> HIDE DEF m
<1>6. m # issued + 1
  BY <1>4, <1>5
<1>7. QED
  BY <1>3, <1>6 DEF m

LEMMA GrantedCalm ==
    ASSUME IInv, RotatedMates, Calm, Rotations # BOOLEAN, NEW p \in Procs, Granted(p) PROVE Calm'
<1> DEFINE n == issued + 1
           old == held[p].refresh
<1>1. PICK rotates \in Rotations :
        /\ Exchange(p, rotates) /\ UNCHANGED <<faults, excused>>
        /\ Answer(p, [access |-> n, refresh |-> IF rotates THEN n ELSE NoToken])
  BY DEF Granted
<1> DEFINE r == [access |-> n, refresh |-> IF rotates THEN n ELSE NoToken]
<1>2. rotates \in BOOLEAN /\ (TRUE \in Rotations <=> rotates) /\ n \in Tokens /\ r \in Reply
  <2>1. rotates \in BOOLEAN /\ (TRUE \in Rotations <=> rotates)
    OBVIOUS
  <2>2. n \in Tokens
    BY <1>1 DEF Exchange, Issue, TypeOK
  <2>3. QED
    BY <2>1, <2>2 DEF Reply
<1>3. /\ pc[p] = "posting" /\ pc'[p] = "answered" /\ reply'[p] = r
      /\ UNCHANGED <<store, auth, held, outcome, excused>>
      /\ \A q \in Procs \ {p} : Aside(q)
  BY <1>1 DEF Answer, TypeOK, Aside
<1>4. r # Failed /\ r # Garbled /\ r.refresh = IF rotates THEN n ELSE NoToken
  BY <1>2
<1>5. live' = IF rotates THEN (live \ {old}) \cup {n} ELSE live
  BY <1>1 DEF Exchange
<1>6. CanRefresh(held[p]) /\ Sound(held[p]) /\ Sound(store)
  BY <1>3 DEF Refreshing, EntriesSound
<1>7. ASSUME rotates PROVE old = held[p].access /\ old \in stored
  BY <1>2, <1>6, <1>7, RotatedEntry
<1>8. StoredLives'
  <2>1. SUFFICES ASSUME CanRefresh(store), store.refresh \notin live'
                 PROVE  TRUE \in Rotations /\ Pending'
    BY <1>3 DEF StoredLives, CanRefresh
  <2>2. CASE store.refresh \in live
    <3>1. rotates /\ store.refresh = old
      BY <1>5, <2>1, <2>2
    <3>2. store.refresh = store.access /\ old = held[p].access
      BY <1>2, <1>6, <1>7, <2>1, <3>1, RotatedEntry
    <3>3. Grant(p)' /\ SameTokens(held[p], store)'
      BY <1>2, <1>3, <3>1, <3>2 DEF Grant, SameTokens
    <3>4. QED
      BY <1>2, <3>1, <3>3 DEF Pending
  <2>3. CASE store.refresh \notin live
    <3>1. PICK q \in Procs : Grant(q) /\ SameTokens(held[q], store)
      BY <2>1, <2>3 DEF Calm, StoredLives, Pending
    <3>2. Grant(q)' /\ SameTokens(held[q], store)'
      BY <1>3, <3>1 DEF Aside, Grant, SameTokens
    <3>3. QED
      BY <2>1, <2>3, <3>2 DEF Calm, StoredLives, Pending
  <2>4. QED
    BY <2>2, <2>3
<1>9. ASSUME NEW q \in Procs, Grant(q)' PROVE GrantLive(q)'
  <2>1. CASE q = p
    <3>1. reply'[p].refresh = IF rotates THEN n ELSE NoToken
      BY <1>3, <1>4
    <3>2. n # NoToken /\ (rotates => n \in live')
      BY <1>2, <1>5
    <3>3. QED
      BY <1>2, <2>1, <3>1, <3>2 DEF GrantLive
  <2>2. CASE q # p
    <3>1. Grant(q) /\ reply'[q] = reply[q]
      BY <1>3, <1>9, <2>2 DEF Grant, Aside
    <3>2. GrantLive(q)
      BY <3>1 DEF Calm, GrantsLive
    <3>3. rotates => reply[q].refresh \in live /\ reply[q].refresh # old
      BY <1>2, <1>7, <3>1, RotatedGrant
    <3>4. QED
      BY <1>5, <3>1, <3>2, <3>3 DEF GrantLive
  <2>3. QED
    BY <2>1, <2>2
<1>10. NoneGarbled'
  BY <1>3, <1>4 DEF Calm, NoneGarbled, Aside
<1>11. ASSUME NEW q \in Procs, ~excused'[q] PROVE Unexcused(q)'
  <2>1. Unexcused(q)
    BY <1>3, <1>11 DEF Calm
  <2>2. CASE q = p
    BY <1>3, <1>4, <2>1, <2>2 DEF Unexcused, CanRefresh
  <2>3. CASE q # p
    <3>1. /\ pc'[q] = pc[q] /\ auth'[q] = auth[q] /\ held'[q] = held[q]
          /\ reply'[q] = reply[q] /\ outcome'[q] = outcome[q] /\ store' = store
      BY <1>3, <2>3 DEF Aside
    <3>2. pc[q] = "answered" /\ reply[q] = Failed => held[q].refresh \notin live'
      <4>1. pc[q] = "answered" => CanRefresh(held[q])
        BY DEF Refreshing
      <4>2. pc[q] = "answered" => held[q].refresh # n
        BY <4>1, NextTokenUnused
      <4>3. QED
        BY <1>5, <2>1, <4>2 DEF Unexcused
    <3>3. QED
      BY <2>1, <3>1, <3>2 DEF Unexcused, CanRefresh
  <2>4. QED
    BY <2>2, <2>3
<1>12. QED
  BY <1>8, <1>9, <1>10, <1>11 DEF Calm, GrantsLive

\* Other commands, and time.
LEMMA OthersCalm == ASSUME IInv, Calm, Login \/ Logout \/ Age \/ Expire PROVE Calm'
<1>1. OthersUnchanged /\ live \subseteq live'
  BY DEF Login, Logout, Age, Expire, service
<1>2. GrantsLive' /\ NoneGarbled'
  BY <1>1 DEF OthersUnchanged, Calm, GrantsLive, GrantLive, Grant, NoneGarbled
<1>3. CASE Login \/ Logout
  <2>1. CanRefresh(store)' => store'.refresh \in live'
    BY <1>3 DEF Login, Logout, Write, CanRefresh
  <2>2. ASSUME NEW q \in Procs, ~excused'[q] PROVE pc[q] = "idle" /\ ~excused[q]
    BY <1>3, <2>2 DEF Login, Logout, Note
  <2>3. \A q \in Procs : ~excused'[q] => Unexcused(q)'
    BY <1>1, <2>2 DEF OthersUnchanged, Calm, Unexcused
  <2>4. QED
    BY <1>2, <2>1, <2>3 DEF Calm, StoredLives
<1>4. CASE Age \/ Expire
  <2>1. UNCHANGED <<store, live, excused>>
    BY <1>4 DEF Age, Expire, history
  <2>2. StoredLives' /\ \A q \in Procs : ~excused'[q] => Unexcused(q)'
    BY <1>1, <2>1 DEF OthersUnchanged, Calm, StoredLives, Pending, Grant, SameTokens, CanRefresh, Unexcused
  <2>3. QED
    BY <1>2, <2>2 DEF Calm
<1>5. QED
  BY <1>3, <1>4

LEMMA MatesRotate ==
    ASSUME IInv, RotatedMates, Rotations # BOOLEAN, [Next]_vars PROVE RotatedMates'
<1> SUFFICES ASSUME TRUE \in Rotations, NEW m \in Tokens PROVE mate'[m] \in {m, NoToken}
  BY DEF RotatedMates
<1>1. ASSUME UNCHANGED mate PROVE mate'[m] \in {m, NoToken}
  BY <1>1 DEF RotatedMates
<1>2. ASSUME NEW n, NEW l, NEW r \in {n, NoToken}, Issue(n, l, r) PROVE mate'[m] \in {m, NoToken}
  BY <1>2 DEF Issue, RotatedMates, TypeOK
<1>3. ASSUME NEW p \in Procs, NEW rotates \in Rotations, Exchange(p, rotates) PROVE mate'[m] \in {m, NoToken}
  <2>1. rotates = TRUE
    OBVIOUS
  <2>2. Issue(issued + 1, family[held[p].access], issued + 1)
    BY <1>3, <2>1 DEF Exchange
  <2>3. QED
    BY <1>2, <2>2
<1>4. ASSUME NEW p \in Procs, Granted(p) \/ Lost(p) PROVE mate'[m] \in {m, NoToken}
  BY <1>1, <1>3, <1>4 DEF Granted, Lost, service
<1>5. CASE Login
  BY <1>1, <1>2, <1>5 DEF Login, service
<1>6. CASE UNCHANGED mate
  BY <1>1, <1>6
<1>7. ASSUME NEW p \in Procs, Load(p) \/ Refused(p) \/ Recheck(p) \/ Store(p) \/ Request(p)
                              \/ Reload(p) \/ Resend(p) \/ StoreFails(p) \/ Kill(p)
      PROVE  UNCHANGED mate
  BY <1>7 DEF Load, Refused, Recheck, Store, Request, Reload, Resend, StoreFails, Kill,
              UnusedUpdate, RestUnchanged, service
<1>8. CASE Logout \/ Age \/ Expire \/ UNCHANGED vars
  BY <1>1, <1>8 DEF Logout, Age, Expire, vars, service
<1>9. QED
  BY <1>1, <1>4, <1>5, <1>7, <1>8 DEF Next, Progress

LEMMA NextCalm ==
    ASSUME IInv, RotatedMates, CalmBeforeFaults, Rotations # BOOLEAN, [Next]_vars PROVE CalmBeforeFaults'
<1> SUFFICES ASSUME faults' = 0 PROVE Calm'
  BY DEF CalmBeforeFaults
<1>1. ASSUME NEW p \in Procs, Lost(p) \/ StoreFails(p) \/ Kill(p) PROVE FALSE
  BY <1>1 DEF Lost, StoreFails, Kill, Fault, TypeOK
<1>2. ASSUME NEW p \in Procs, Load(p) \/ Progress(p) PROVE UNCHANGED faults
  BY <1>2 DEF Load, Progress, Granted, Refused, Recheck, Store, Request, Reload, Resend, RestUnchanged
<1>3. Login \/ Logout \/ Age \/ Expire => UNCHANGED faults
  BY DEF Login, Logout, Age, Expire
<1>4. Calm
  BY <1>1, <1>2, <1>3 DEF CalmBeforeFaults, Next, vars
<1>5. ASSUME NEW p \in Procs, Load(p) \/ Progress(p) PROVE Calm'
  BY <1>4, <1>5, LoadCalm, GrantedCalm, RefusedCalm, RecheckCalm, StoreCalm, RequestCalm DEF Progress
<1>6. CASE Login \/ Logout \/ Age \/ Expire
  BY <1>4, <1>6, OthersCalm
<1>7. CASE UNCHANGED vars
  BY <1>4, <1>7 DEF vars, service, history, Calm, StoredLives, Pending, GrantsLive, GrantLive, Grant,
                    NoneGarbled, Unexcused, CanRefresh, SameTokens
<1>8. QED
  BY <1>1, <1>5, <1>6, <1>7 DEF Next

\* As long as no message, update or process is lost, and the service either always
\* rotates refresh tokens or never does, a command that found a refresh token fails
\* on its credential only if somebody logged in or out meanwhile, the service had no
\* token left to issue, or another process had not stored its grant yet.
THEOREM RefreshSuffices == ASSUME Rotations # BOOLEAN PROVE Spec => []RefreshRescues
<1>1. ASSUME Init PROVE RotatedMates /\ CalmBeforeFaults
  <2>1. RotatedMates
    BY <1>1 DEF Init, RotatedMates
  <2>2. StoredLives
    BY <1>1 DEF Init, StoredLives
  <2>3. GrantsLive /\ NoneGarbled /\ \A p \in Procs : Unexcused(p)
    BY <1>1 DEF Init, GrantsLive, Grant, NoneGarbled, Unexcused
  <2>4. QED
    BY <2>1, <2>2, <2>3 DEF CalmBeforeFaults, Calm
<1>2. IInv /\ RotatedMates /\ CalmBeforeFaults /\ [Next]_vars => (RotatedMates /\ CalmBeforeFaults)'
  BY MatesRotate, NextCalm
<1>3. IInv /\ CalmBeforeFaults => RefreshRescues
  BY DEF TypeOK, CalmBeforeFaults, Calm, Unexcused, RefreshRescues
<1>4. QED
  BY <1>1, <1>2, <1>3, SpecIInv, PTL DEF Spec
==============================================================================
