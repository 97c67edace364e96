------------------------------- MODULE Drivers -------------------------------
(***************************************************************************)
(* Causal drivers as a forecast meets them: which of them are linked to a  *)
(* line, and which values of them it rests on.  Discovery, people, feeds   *)
(* and forecasts interleave; the links and the cache share no variable.    *)
(***************************************************************************)
EXTENDS DriverLinks, DriverCache

DriversInit == LinksInit /\ CacheInit

DriversNext ==
    \/ LinksNext /\ UNCHANGED cacheVars
    \/ CacheNext /\ UNCHANGED linksVars

DriversSpec == DriversInit /\ [][DriversNext]_<<linksVars, cacheVars>>

-----------------------------------------------------------------------------
\* A discovery leaves only the candidates of its last run beside the links people
\* promoted (driver_discovery.py), and a forecast rests on the values now stored
\* (driver_forecast_cache.py).
DriversFollow == CandidatesOfLastRun /\ ForecastFollowsActuals
=============================================================================
