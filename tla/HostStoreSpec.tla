--------------------------- MODULE HostStoreSpec ---------------------------
(***************************************************************************)
(* What hosts.yml promises to the commands that share it: every command    *)
(* takes effect at one instant, on the map as it is at that instant, or    *)
(* not at all; what a command reported as done survives a power loss; and  *)
(* a power loss never leaves anything but a map some command had stored.   *)
(***************************************************************************)
EXTENDS HostRecords

CONSTANTS Procs

VARIABLES
    hosts,    \* the map every process sees
    durable,  \* the map a power loss would leave
    phase,    \* per process: idle, pending, stored (not yet durable) or done
    result,   \* per process: what its last command reports
    cmd,      \* per process: its command, the host resolved once pending
    sight     \* per process: what it keeps from its read before the update

absVars == <<hosts, durable, phase, result, cmd, sight>>

Init ==
    /\ hosts \in HostMap
    /\ durable = hosts
    /\ phase = [p \in Procs |-> "idle"]
    /\ result = [p \in Procs |-> "none"]
    /\ cmd \in [Procs -> Command]
    /\ sight \in [Procs -> Sight]

Begin(p) ==
    /\ phase[p] = "idle"
    /\ phase' = [phase EXCEPT ![p] = "pending"]
    /\ result' = [result EXCEPT ![p] = "none"]
    /\ \E c \in Command : cmd' = [cmd EXCEPT ![p] = c]
    /\ UNCHANGED <<hosts, durable, sight>>

\* The command looks at the map and remembers its host, its Access choice and
\* the credential it is about to send.
Look(p) ==
    /\ phase[p] = "pending"
    /\ \E h \in HostNames :
         /\ cmd' = [cmd EXCEPT ![p].host = h]
         /\ sight' = [sight EXCEPT ![p] = Seen(hosts, cmd[p], h, sight[p])]
    /\ UNCHANGED <<hosts, durable, phase, result>>

\* The only step that changes what the processes see, a power loss apart.
Commit(p) ==
    /\ phase[p] = "pending"
    /\ cmd[p].host \in HostNames
    /\ Accepts(hosts, cmd[p])
    /\ hosts' = Mutate(hosts, cmd[p], sight[p])
    /\ phase' = [phase EXCEPT ![p] = "stored"]
    /\ UNCHANGED <<durable, result, cmd, sight>>

\* Success is reported only once, and only of a map that is durable.
Succeed(p) ==
    /\ phase[p] = "stored"
    /\ durable' = hosts
    /\ phase' = [phase EXCEPT ![p] = "done"]
    /\ result' = [result EXCEPT ![p] = "ok"]
    /\ UNCHANGED <<hosts, cmd, sight>>

\* An error or a refusal; one that comes after the commit leaves it in place.
Err(p) ==
    /\ phase[p] \in {"pending", "stored"}
    /\ phase' \in {[phase EXCEPT ![p] = "done"], [phase EXCEPT ![p] = "idle"]}
    /\ result' = [result EXCEPT ![p] = "error"]
    /\ UNCHANGED <<hosts, durable, cmd, sight>>

Return(p) ==
    /\ phase[p] = "done"
    /\ phase' = [phase EXCEPT ![p] = "idle"]
    /\ UNCHANGED <<hosts, durable, result, cmd, sight>>

Die(p) ==
    /\ phase[p] # "idle"
    /\ phase' = [phase EXCEPT ![p] = "idle"]
    /\ result' = [result EXCEPT ![p] = "killed"]
    /\ UNCHANGED <<hosts, durable, cmd, sight>>

WriteBack ==
    /\ durable' = hosts
    /\ UNCHANGED <<hosts, phase, result, cmd, sight>>

PowerLoss ==
    /\ hosts' = durable
    /\ phase' = [p \in Procs |-> "idle"]
    /\ result' = [p \in Procs |-> IF phase[p] = "idle" THEN result[p] ELSE "killed"]
    /\ UNCHANGED <<durable, cmd, sight>>

Next ==
    \/ \E p \in Procs : \/ Begin(p) \/ Look(p) \/ Commit(p) \/ Succeed(p)
                        \/ Err(p) \/ Return(p) \/ Die(p)
    \/ WriteBack
    \/ PowerLoss

Spec == Init /\ [][Next]_absVars
=============================================================================
