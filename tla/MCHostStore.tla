---------------------------- MODULE MCHostStore ----------------------------
(* Small instances of HostStore for TLC. *)
EXTENDS HostStore

CONSTANTS c1, c2, c3, org, v1, v2

mcCreds == {c1, c2, c3}
mcCtxNames == {org}
mcCtxValues == {v1, v2}
mcHostNames == {1, 2}

Ctx(v) == [n \in mcCtxNames |-> v]

Cmd(op, h, cred, access, v) ==
    [op |-> op, host |-> h, cred |-> cred, access |-> access, ctx |-> Ctx(v)]

Loaded(cred, access, sel, v) ==
    [cred |-> cred, access |-> access, selected |-> sel, ctx |-> Ctx(v)]

\* Nobody logged in; one host; two hosts of which the first is selected; two
\* hosts and no selection.
mcInitialMaps ==
    { [h \in mcHostNames |-> Absent],
      [h \in mcHostNames |-> IF h = 1 THEN Loaded(c1, TRUE, TRUE, v1) ELSE Absent],
      [h \in mcHostNames |-> Loaded(c1, h = 1, h = 1, v1)] }

\* Every command, with and without a --hostname where the code allows both.
mcCommands ==
    { Cmd("login", 1, c2, "keep", Unset), Cmd("login", 2, c2, "on", v2),
      Cmd("logout", 1, c1, "keep", Unset), Cmd("logout", NoHost, c1, "keep", Unset),
      Cmd("use", 2, c1, "keep", Unset),
      Cmd("setContext", NoHost, c1, "keep", v2), Cmd("unsetContext", 1, c1, "keep", v1),
      Cmd("persistContext", NoHost, c1, "keep", v1), Cmd("refresh", 1, c3, "keep", Unset) }
=============================================================================
