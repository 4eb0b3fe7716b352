----------------------------- MODULE MCDeviceLogin -----------------------------
(***************************************************************************)
(* Small instances of DeviceLogin: the command lines that differ in what   *)
(* RunE does with them, each with a manifest, and device codes with and    *)
(* without an interval and a lifetime.                                     *)
(***************************************************************************)
EXTENDS DeviceLogin

Undeclared == [declared |-> FALSE, field |-> FALSE, nonEmpty |-> FALSE, display |-> FALSE]
Declared == [field : BOOLEAN, nonEmpty : BOOLEAN, display : BOOLEAN, declared : {TRUE}]

OAuth == [host |-> "h", authType |-> "oauth", typed |-> FALSE, device |-> FALSE,
          withToken |-> FALSE, secret |-> "", configured |-> TRUE, skip |-> FALSE,
          validate |-> Undeclared]
Bearer == [OAuth EXCEPT !.authType = "", !.secret = "token"]

Validations(base) == {[base EXCEPT !.validate = v, !.skip = s] :
                        v \in Declared \cup {Undeclared}, s \in BOOLEAN}

\* --device-auth with a type of its own, --with-token for oauth, no secret, no host, no login
\* block, an unknown type.
Wrong == {[Bearer EXCEPT !.device = TRUE, !.typed = TRUE], [OAuth EXCEPT !.withToken = TRUE],
          [Bearer EXCEPT !.secret = ""], [OAuth EXCEPT !.host = ""],
          [OAuth EXCEPT !.configured = FALSE], [Bearer EXCEPT !.authType = "saml"]}

Right == {OAuth, [OAuth EXCEPT !.device = TRUE, !.typed = TRUE], [Bearer EXCEPT !.device = TRUE],
          [OAuth EXCEPT !.validate = [Undeclared EXCEPT !.declared = TRUE, !.field = TRUE]]}

Listed == Wrong \cup Right \cup Validations(Bearer) \cup Validations([Bearer EXCEPT !.authType = "apikey"])
            \cup {[Bearer EXCEPT !.authType = "basic"]}
AllInvocations == Listed

\* No interval and no lifetime, a short code, and one that outlives several slow_downs.
Codes == {[interval |-> 0, lifetime |-> 0], [interval |-> 2, lifetime |-> 1],
          [interval |-> 1, lifetime |-> 6]}

Numbers ==
    {[expires |-> e, context |-> c] : e \in {Absent, 3600}, c \in {Absent, 42}}
    \cup {[expires |-> 31536000, context |-> 42], [expires |-> 3600, context |-> 1234567]}
=============================================================================
