------------------------------ MODULE Handles ------------------------------
(***************************************************************************)
(* The two store handles every service shares: the Redis client with its   *)
(* per-process health flag (redis_client.py) and the PostgreSQL sessions    *)
(* (db.py).  A process asks get_redis for the client and does without      *)
(* Redis when it gets none.  The flag is what the process last saw, and is *)
(* looked at again only by the readiness probe and at start-up.            *)
(***************************************************************************)
EXTENDS Integers

CONSTANTS
    Workers,        \* processes, each with its own health flag
    MaxOutages      \* how often a store may go away

ASSUME OutagesAssumption == MaxOutages \in Nat

VARIABLES
    redisUp, dbUp,  \* whether the stores answer
    healthy,        \* healthy[w]: _healthy of process w
    outages

handleVars == <<redisUp, dbUp, healthy, outages>>

HandlesType ==
    /\ {redisUp, dbUp} \subseteq BOOLEAN
    /\ healthy \in [Workers -> BOOLEAN]
    /\ outages \in 0..MaxOutages

(* A call through the handle: it is answered, or it raises RedisError, or  *)
(* there is no client and it is not made.                                  *)
get_redis(w) == healthy[w]
Answered(w)  == get_redis(w) /\ redisUp
Raises(w)    == get_redis(w) /\ ~redisUp

(* init_redis and init_db, run once by each process: neither is fatal, the *)
(* session factory exists even if the first connection failed.             *)
HandlesInit ==
    /\ redisUp \in (IF MaxOutages = 0 THEN {TRUE} ELSE BOOLEAN)
    /\ dbUp = TRUE
    /\ healthy = [w \in Workers |-> redisUp]
    /\ outages = IF redisUp THEN 0 ELSE 1

(* get_db yields a session as soon as the factory exists, whatever the     *)
(* database does: its statements then raise while the database is away.    *)
Executes == dbUp

(* What a crowd look-up does about a RedisError: the process gives up on   *)
(* Redis for everything it serves.                                         *)
MarksDown(w) == healthy' = IF Raises(w) THEN [healthy EXCEPT ![w] = FALSE]
                                        ELSE healthy

(* A crowd look-up of the process runs into the outage.                    *)
LookupFails(w) ==
    /\ Raises(w)
    /\ MarksDown(w)
    /\ UNCHANGED <<redisUp, dbUp, outages>>

(* ping_redis, called by /health/ready and by nothing else.                *)
ping_redis(w) ==
    /\ healthy' = [healthy EXCEPT ![w] = redisUp]
    /\ healthy' # healthy
    /\ UNCHANGED <<redisUp, dbUp, outages>>

RedisAway ==
    /\ redisUp /\ redisUp' = FALSE
    /\ outages < MaxOutages /\ outages' = outages + 1
    /\ UNCHANGED <<dbUp, healthy>>
RedisBack ==
    /\ ~redisUp /\ redisUp' = TRUE
    /\ UNCHANGED <<dbUp, healthy, outages>>

DatabaseAway ==
    /\ dbUp /\ dbUp' = FALSE
    /\ outages < MaxOutages /\ outages' = outages + 1
    /\ UNCHANGED <<redisUp, healthy>>
DatabaseBack ==
    /\ ~dbUp /\ dbUp' = TRUE
    /\ UNCHANGED <<redisUp, healthy, outages>>

(* What happens to the handles of the processes of interest.               *)
RedisNext(processes) ==
    \/ RedisAway \/ RedisBack
    \/ \E w \in processes : LookupFails(w) \/ ping_redis(w)
DatabaseNext == DatabaseAway \/ DatabaseBack
HandlesNext(processes) == RedisNext(processes) \/ DatabaseNext
=============================================================================
