---------------------------- MODULE DriverCache ----------------------------
(***************************************************************************)
(* Driver series and the fold forecasts a server process keeps of them:    *)
(* cached for the life of the process, under a hash of the values they     *)
(* were fitted on, while uploads, API rows and macro feeds correct the     *)
(* series.  A series is abstracted to the value of one period; one origin  *)
(* and one horizon.                                                        *)
(***************************************************************************)
EXTENDS Integers

CONSTANTS
    CachedDrivers,
    Readings        \* values a period may take

ASSUME DriverCacheAssumption == Readings \subseteq Int

VARIABLES
    reading,   \* reading[d]: the actual value of the driver
    fits,      \* _CACHE of the process: cache key, and the reading it was fitted on
    served     \* the forecast served since the last ingest: driver, and the reading behind it

cacheVars == <<reading, fits, served>>

CacheTypeOK ==
    /\ reading \in [CachedDrivers -> Readings]
    /\ \A f \in fits : f.key.driver \in CachedDrivers /\ f.on \in Readings
    /\ served \subseteq [driver : CachedDrivers, on : Readings]

CacheInit == reading \in [CachedDrivers -> Readings] /\ fits = {} /\ served = {}

\* upsert_driver_values of actuals: API rows, files, FRED and Yahoo series.
IngestValues(d, x) ==
    /\ reading' = [reading EXCEPT ![d] = x] /\ served' = {}
    /\ UNCHANGED fits

\* Python's hash of a float: -1 and -2 share one.
Hash(x) == IF x = -1 THEN -2 ELSE x

CacheKey(d) == [driver |-> d, fingerprint |-> Hash(reading[d])]

\* forecast_driver_at_origin of one origin and horizon.
ForecastAtOrigin(d) ==
    LET hits == {f \in fits : f.key = CacheKey(d)}
        fit  == IF hits # {} THEN CHOOSE f \in hits : TRUE ELSE [key |-> CacheKey(d), on |-> reading[d]]
    IN  /\ fits' = fits \cup {fit}
        /\ served' = {[driver |-> d, on |-> fit.on]}
        /\ UNCHANGED reading

\* The process restarts with an empty cache.
RestartCache == fits' = {} /\ UNCHANGED <<reading, served>>

CacheNext ==
    \/ \E d \in CachedDrivers, x \in Readings : IngestValues(d, x)
    \/ \E d \in CachedDrivers : ForecastAtOrigin(d)
    \/ RestartCache

CacheSpec == CacheInit /\ [][CacheNext]_cacheVars

-----------------------------------------------------------------------------
(* Properties *)

\* A fold forecast is fitted on the series as it is, however often the series
\* was corrected and back again; only -1 and -2 are confused, which Python
\* hashes alike (_fingerprint).
ForecastFollowsActuals ==
    \A s \in served : s.on = reading[s.driver] \/ {s.on, reading[s.driver]} = {-1, -2}
=============================================================================
