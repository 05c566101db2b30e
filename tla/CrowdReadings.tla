--------------------------- MODULE CrowdReadings ---------------------------
(***************************************************************************)
(* crowd_service.py for one zone, split at its awaits: readers that look   *)
(* in the cache, select the newest row and write it back, and the two      *)
(* writers of a reading, the administrator's override (routers/admin.py)   *)
(* and the simulator's tick (crowd_simulator.py, a process of its own).    *)
(* The figures of a reading are CrowdFigures' subject.                     *)
(***************************************************************************)
EXTENDS Handles, Sequences, SequencesExt

CONSTANTS
    Readers,        \* processes with a look-up under way
    Marshal,        \* the process that serves the override
    Simulator,      \* the simulator's process
    Densities,      \* the densities that occur
    MaxStep,        \* MAX_STEP of the simulator
    MaxRecords

ASSUME CrowdAssumption ==
    /\ Readers \cup {Marshal, Simulator} \subseteq Workers
    /\ Marshal \notin Readers /\ Simulator \notin Readers /\ Marshal # Simulator
    /\ Densities \subseteq 0..100
    /\ MaxStep \in Nat /\ MaxRecords \in Nat

VARIABLES
    zoneCache,      \* crowd:{zone_id}
    begun,          \* records by recorded_at: the start of their transactions
    stored,         \* records that are committed
    reading,        \* reading[i]: what record i is, for i in 1..recorded
    recorded,
    crowdPc, held,  \* a process's position in its handler, the reading it holds
    clean,          \* history: no one overlapped the override, nothing failed in it
    standing        \* history: the answered clean override not superseded yet, or 0

crowdVars == <<zoneCache, begun, stored, reading, recorded, crowdPc, held, clean,
               standing>>

NoReading == [rec |-> 0, density |-> 0, source |-> "none"]
(* build_reading of the curve's value: nothing is recorded.                *)
Modelled == [rec |-> 0, density |-> 0, source |-> "model"]
Readings == [rec : 0..MaxRecords, density : Densities \cup {0},
             source : {"none", "model", "manual"}]

CrowdType ==
    /\ zoneCache \in Readings
    /\ recorded \in 0..MaxRecords
    /\ begun \in Seq(1..MaxRecords) /\ stored \in SUBSET (1..MaxRecords)
    /\ reading \in [1..MaxRecords -> Readings]
    /\ crowdPc \in [Workers -> {"idle", "select", "fill", "cache", "commit"}]
    /\ held \in [Workers -> Readings]
    /\ clean \in BOOLEAN /\ standing \in 0..MaxRecords

CrowdInit ==
    /\ zoneCache = NoReading /\ begun = <<>> /\ stored = {} /\ recorded = 0
    /\ reading = [i \in 1..MaxRecords |-> NoReading]
    /\ crowdPc = [w \in Workers |-> "idle"] /\ held = [w \in Workers |-> NoReading]
    /\ clean = FALSE /\ standing = 0

(* _read_db: the row with the newest recorded_at.                          *)
Last_row(k) == begun[k] \in stored /\ \A j \in DOMAIN begun : j > k => begun[j] \notin stored
Newest == IF stored = {} THEN NoReading
          ELSE reading[begun[CHOOSE k \in DOMAIN begun : Last_row(k)]]

Goto(w, point, r) ==
    /\ crowdPc' = [crowdPc EXCEPT ![w] = point]
    /\ held' = [held EXCEPT ![w] = r]

(* _read_cache at the head of read_zone.                                   *)
read_zone(r) ==
    /\ crowdPc[r] = "idle"
    /\ MarksDown(r)
    /\ \/ Answered(r) /\ zoneCache # NoReading /\ UNCHANGED <<crowdPc, held, clean>>
       \/ /\ ~(Answered(r) /\ zoneCache # NoReading)
          /\ Goto(r, "select", NoReading)
          /\ clean' = FALSE
    /\ UNCHANGED <<zoneCache, begun, stored, reading, recorded, standing>>

(* _read_db, or the curve when there is no row or no database.             *)
read_zone_select(r) ==
    /\ crowdPc[r] = "select"
    /\ IF Executes /\ Newest # NoReading THEN Goto(r, "fill", Newest)
                                         ELSE Goto(r, "idle", NoReading)
    /\ UNCHANGED <<zoneCache, begun, stored, reading, recorded, clean, standing, healthy>>

(* _write_cache of the row just read.                                      *)
_write_cache(w) ==
    /\ MarksDown(w)
    /\ zoneCache' = IF Answered(w) THEN held[w] ELSE zoneCache

read_zone_fill(r) ==
    /\ crowdPc[r] = "fill"
    /\ _write_cache(r)
    /\ Goto(r, "idle", NoReading)
    /\ UNCHANGED <<begun, stored, reading, recorded, clean, standing>>

Idle(w) == crowdPc[w] = "idle"

(* The densities a tick may record: curve and jitter give any target, kept *)
(* within MAX_STEP of the previous reading if the cache had one.           *)
next_density(previous) ==
    {d \in Densities : previous = NoReading
        \/ (d <= previous.density + MaxStep /\ previous.density <= d + MaxStep)}

(* The head of record: the previous reading is looked up for the trend, in *)
(* the cache and, failing that, in a transaction that thereby begins.      *)
record(w, d, source) ==
    /\ Idle(w) /\ recorded < MaxRecords
    /\ MarksDown(w)
    /\ recorded' = recorded + 1
    /\ LET new == [rec |-> recorded', density |-> d, source |-> source]
       IN  /\ reading' = [reading EXCEPT ![recorded'] = new]
           /\ Goto(w, "cache", new)
    /\ begun' = IF ~(Answered(w) /\ zoneCache # NoReading) /\ Executes
                THEN Append(begun, recorded') ELSE begun
    /\ clean' = (w = Marshal /\ \A v \in Workers \ {w} : Idle(v))
    /\ standing' = 0
    /\ UNCHANGED <<zoneCache, stored>>

update_crowd == \E d \in Densities : record(Marshal, d, "manual")

tick == \E d \in next_density(IF Answered(Simulator) THEN zoneCache ELSE NoReading) :
           record(Simulator, d, "model")

(* Mutant of record_cache: the cache is left as it is.                     *)
RecordUncached(w) ==
    /\ crowdPc[w] = "cache"
    /\ Goto(w, "commit", held[w])
    /\ UNCHANGED <<healthy, zoneCache, begun, stored, reading, recorded, clean, standing>>

record_cache(w) ==
    /\ crowdPc[w] = "cache"
    /\ _write_cache(w)
    /\ Goto(w, "commit", held[w])
    /\ clean' = (clean /\ Answered(w))
    /\ UNCHANGED <<begun, stored, reading, recorded, standing>>

(* The row's INSERT and commit; a failure is rolled back and swallowed, as *)
(* the cached reading still serves.                                        *)
record_commit(w) ==
    LET i == held[w].rec IN
    /\ crowdPc[w] = "commit"
    /\ IF Executes
       THEN /\ begun' = IF i \in ToSet(begun) THEN begun ELSE Append(begun, i)
            /\ stored' = stored \cup {i}
            /\ standing' = IF clean THEN i ELSE standing
       ELSE UNCHANGED <<begun, stored, standing>>
    /\ Goto(w, "idle", NoReading)
    /\ UNCHANGED <<zoneCache, reading, recorded, clean, healthy>>

(* The entry's five minutes pass, or Redis loses it.                       *)
EntryLost ==
    /\ zoneCache # NoReading /\ zoneCache' = NoReading
    /\ UNCHANGED <<begun, stored, reading, recorded, crowdPc, held, clean, standing, healthy>>

(* The process dies in the middle of a request or a tick.                  *)
CrowdDies(w) ==
    /\ ~Idle(w)
    /\ Goto(w, "idle", NoReading)
    /\ UNCHANGED <<zoneCache, begun, stored, reading, recorded, clean, standing, healthy>>

CrowdNext ==
    /\ \/ \E r \in Readers : read_zone(r) \/ read_zone_select(r) \/ read_zone_fill(r)
       \/ update_crowd \/ tick
       \/ \E w \in {Marshal, Simulator} : record_cache(w) \/ record_commit(w)
       \/ EntryLost
       \/ \E w \in Workers : CrowdDies(w)
    /\ UNCHANGED <<redisUp, dbUp, outages>>

(***************************************************************************)
(* An override that ran undisturbed stands until the next reading is       *)
(* recorded: every later look-up, on any process, from the cache or from   *)
(* the table, after expiry, outages and restarts, gives it ("it wins until *)
(* the next simulator tick or camera reading supersedes it",               *)
(* routers/admin.py:83-84).  A look-up that missed the cache while it ran  *)
(* may still write the older reading back; that is the case clean excludes.*)
(***************************************************************************)
OverrideStands ==
    standing # 0 => /\ zoneCache \in {NoReading, reading[standing]}
                    /\ Newest = reading[standing]
                    /\ \A r \in Readers : crowdPc[r] = "fill" => held[r] = Newest
=============================================================================
