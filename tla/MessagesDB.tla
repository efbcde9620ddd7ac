----------------------------- MODULE MessagesDB -----------------------------
(***************************************************************************)
(* How a proxy gets to serve the messages API (messages/init.go,           *)
(* notification.TryToUpgradeDatabase, statistics.updateOrSetStat): it      *)
(* connects, creates the tables, writes the version of the data unless     *)
(* the database has one, reads it back, and sets dbPhase to Serving.       *)
(* Several proxies may start on one database.  Whatever fails is logged    *)
(* and not tried again: the proxy then answers every request of the        *)
(* messages API with an error for the rest of its life.                    *)
(*                                                                         *)
(* Once it has come up, updateDB pings the database every five seconds,    *)
(* and closes the pool of connections and opens another when that fails.   *)
(*                                                                         *)
(* The version written is that of the only upgrader there is, so no        *)
(* database needs an upgrade (_upgradeDatabase returns at once).           *)
(***************************************************************************)
EXTENDS Integers

CONSTANTS
    Proxies,
    MaxFaults      \* bound: failed calls, and restarts of a proxy

Boots == {"connect", "createTables", "selectVersion", "insertVersion",
          "retrieveVersion", "serving", "gaveUp"}

VARIABLES
    boot,          \* where each proxy is
    pool,          \* whether ds.db is a pool that is open
    version,       \* DF_ITEM_STAT: whether the version's row is there
    faults,
    collided       \* history: two proxies were both about to insert the row

proxies  == <<boot, pool, version, collided>>
bootVars == <<proxies, faults>>

BootTypeOK ==
    /\ boot \in [Proxies -> Boots]
    /\ pool \in [Proxies -> BOOLEAN]
    /\ \A p \in Proxies : pool[p] => boot[p] # "connect"
    /\ version \in BOOLEAN
    /\ faults \in 0 .. MaxFaults
    /\ collided \in BOOLEAN

BootInit ==
    /\ boot = [p \in Proxies |-> "connect"]
    /\ pool = [p \in Proxies |-> FALSE]
    /\ version \in BOOLEAN
    /\ faults = 0
    /\ collided = FALSE

IsServing(p) == boot[p] = "serving"

NoFault == UNCHANGED faults
Fault   == faults < MaxFaults /\ faults' = faults + 1

Boot(p, from, to) == boot[p] = from /\ boot' = [boot EXCEPT ![p] = to]

\* initDB tries to connect three times; a Fault is three failures.
ConnectDB(p) ==
    /\ \/ Boot(p, "connect", "createTables") /\ NoFault
          /\ pool' = [pool EXCEPT ![p] = TRUE]
       \/ Boot(p, "connect", "gaveUp") /\ Fault /\ UNCHANGED pool
    /\ UNCHANGED <<version, collided>>

TryToCreateTables(p) ==
    /\ \/ Boot(p, "createTables", "selectVersion") /\ NoFault
       \/ Boot(p, "createTables", "gaveUp") /\ Fault
    /\ UNCHANGED <<pool, version, collided>>

\* A plausible slip: TryToUpgradeDatabase returns whatever error SetStatIf gives
OldStatNotMatchReturned == "gaveUp"

\* SetStatIf(version, latest, 0), the select: a row that is there does not
\* match the old value 0, and TryToUpgradeDatabase passes over that error.
OldStatNotMatch == "retrieveVersion"

SelectVersion(p) ==
    /\ \/ Boot(p, "selectVersion", IF version THEN OldStatNotMatch
                                              ELSE "insertVersion")
          /\ NoFault
       \/ Boot(p, "selectVersion", "gaveUp") /\ Fault
    /\ collided' = (collided \/ \E p1, p2 \in Proxies :
            p1 # p2 /\ boot'[p1] = "insertVersion" /\ boot'[p2] = "insertVersion")
    /\ UNCHANGED <<pool, version>>

\* ... and the insert: the key is the primary key, so the second fails.
InsertVersion(p) ==
    /\ \/ Boot(p, "insertVersion", IF version THEN "gaveUp" ELSE "retrieveVersion")
          /\ version' = TRUE
          /\ NoFault
       \/ Boot(p, "insertVersion", "gaveUp") /\ UNCHANGED version /\ Fault
    /\ UNCHANGED <<pool, collided>>

RetrieveVersion(p) ==
    /\ \/ Boot(p, "retrieveVersion", "serving") /\ NoFault
       \/ Boot(p, "retrieveVersion", "gaveUp") /\ Fault
    /\ UNCHANGED <<pool, version, collided>>

BootStep(p) ==
    \/ ConnectDB(p) \/ TryToCreateTables(p) \/ SelectVersion(p)
    \/ InsertVersion(p) \/ RetrieveVersion(p)
-----------------------------------------------------------------------------
\* updateDB runs once initDB is through; only a proxy that serves hands the
\* pool out.  A ping fails: the pool is closed under whoever uses it, ...
PingFails(p) ==
    /\ IsServing(p) /\ pool[p] /\ Fault
    /\ pool' = [pool EXCEPT ![p] = FALSE]
    /\ UNCHANGED <<boot, version, collided>>

\* (mutant: a pool that is there is pinged and not replaced)
ReconnectIfNone(p) == FALSE /\ UNCHANGED bootVars

\* ... and connectDB puts another in its place: at once, or when a later tick
\* finds the closed pool and the database answers again.
Reconnect(p) ==
    /\ IsServing(p) /\ ~pool[p] /\ NoFault
    /\ pool' = [pool EXCEPT ![p] = TRUE]
    /\ UNCHANGED <<boot, version, collided>>
-----------------------------------------------------------------------------
\* A proxy serves the messages API, on a pool that is open, again and again:
\* closing the pool when a ping failed does not leave it with a closed one, a
\* process started again comes up on what the last one wrote, and it has given
\* up only where a call failed or two proxies wrote the version of a new
\* database at once (TryToUpgradeDatabase passes over ErrOldStatNotMatch alone).
ProxyServes ==
    \A p \in Proxies :
        []<>( \/ IsServing(p) /\ pool[p]
              \/ boot[p] = "gaveUp" /\ (faults > 0 \/ collided) )
=============================================================================
