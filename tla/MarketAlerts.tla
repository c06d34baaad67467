---------------------------- MODULE MarketAlerts ----------------------------
(***************************************************************************)
(* The warnings that market_context_alerts.py adds to the answers of the   *)
(* API: the external context, loaded in one read after the other without a *)
(* snapshot and kept for CacheTtl by the process, and what an answer makes *)
(* of it together with its own market impulse.  market_context_compat.py   *)
(* copies a mandatory warning into older fields.                           *)
(*                                                                         *)
(* Requests of the process load at the same time when the cache is too     *)
(* old; the last one to finish fills it.  The macro snapshot, read between *)
(* the other two, decides nothing.  A ratio of 0 stands for an answer      *)
(* without volume ratios.                                                  *)
(***************************************************************************)
EXTENDS PolicyCatalyst

CONSTANTS
    Requests,        \* requests that may load the context at the same time
    CacheTtl,        \* CACHE_TTL_SECONDS
    PolicyMaxAge,    \* POLICY_MAX_AGE_SECONDS
    ActiveWindow,    \* POLICY_ACTIVE_FIRST_SEEN_SECONDS
    RecentWindow, RecentLimit, \* the rows of the last 24 hours, 25 of them at most
    VisibleLimit,    \* the events an answer shows, 5
    GeoMaxAge, GeoWindow, GeoBaseline, \* 3 hours, 24 hours and GEO_BASELINE_MIN_SNAPSHOTS
    GeoShapes,       \* metrics of a geopolitical file, functions of one domain
    Ratios, ElevatedRatio, HighRatio  \* volume ratios and their thresholds

ASSUME AlertAssumption ==
    /\ {CacheTtl, PolicyMaxAge, ActiveWindow, RecentWindow, RecentLimit, VisibleLimit, GeoMaxAge,
        GeoWindow, GeoBaseline, ElevatedRatio, HighRatio} \subseteq Nat
    /\ Ratios \subseteq Nat /\ ElevatedRatio <= HighRatio /\ ActiveWindow <= RecentWindow
    /\ CacheTtl > 0 /\ VisibleLimit > 0

VARIABLES
    geoFiles,  \* rows of the geopolitical snapshots: [at, metrics]
    request,   \* the load of each request
    cached     \* _external_cache and its stamp, or NoContext

alertVars == <<policyVars, geoFiles, request, cached>>

NoContext == [stamp |-> 0, built |-> 0, geo |-> "UNAVAILABLE", policy |-> "UNAVAILABLE",
              events |-> {}, error |-> TRUE]
NoLoad == [stage |-> "off", asked |-> 0, geo |-> {}, latest |-> 0, events |-> {}, error |-> FALSE]

-----------------------------------------------------------------------------
(* The context *)

\* _percentile_rank against the files before it, in per cent and more.
AtLeast(percent, prior, m, value) ==
    100 * Cardinality({f \in prior : f.metrics[m] <= value}) >= percent * Cardinality(prior)

\* build_geopolitical_context
GeoState(files, now) ==
    IF files = {} THEN "UNAVAILABLE"
    ELSE LET newest == CHOOSE f \in files : \A g \in files : g.at <= f.at
             prior == {f \in files : f.at < newest.at /\ f.at + GeoWindow >= newest.at}
             above(percent) == {m \in DOMAIN newest.metrics :
                                    AtLeast(percent, prior, m, newest.metrics[m])}
         IN  IF newest.at + GeoMaxAge < now THEN "STALE"
             ELSE IF Cardinality(prior) < GeoBaseline THEN "BASELINE_BUILDING"
             ELSE IF Cardinality(above(95)) >= 2 THEN "HIGH"
             ELSE IF above(95) # {} \/ Cardinality(above(90)) >= 2 THEN "ELEVATED"
             ELSE "NORMAL"

\* Mutant: an event without a date is taken for an old one.
IsActiveIfDated(e, now) == e.first + ActiveWindow >= now /\ e.date + ActiveWindow >= now

\* The loop of build_policy_catalyst_context.
IsActive(e, now) ==
    /\ e.first + ActiveWindow >= now /\ e.first <= now + MaxSkew
    /\ e.date = Undated \/ e.date + ActiveWindow >= now

\* build_policy_catalyst_context
PolicyState(latest, active, now) ==
    IF latest = 0 THEN "UNAVAILABLE"
    ELSE IF latest + PolicyMaxAge < now THEN "STALE"
    ELSE IF active # {} THEN "ACTIVE" ELSE "NORMAL"

\* build_market_impulse_context
Impulse(ratio) ==
    IF ratio = 0 THEN "UNKNOWN"
    ELSE IF ratio >= HighRatio THEN "HIGH"
    ELSE IF ratio >= ElevatedRatio THEN "ELEVATED" ELSE "NORMAL"

\* _overall_state
WarningLevel(geo, impulse) ==
    IF "HIGH" \in {geo, impulse} THEN "HIGH"
    ELSE IF "ELEVATED" \in {geo, impulse} THEN "ELEVATED"
    ELSE IF impulse = "UNKNOWN" /\ geo \in {"UNAVAILABLE", "STALE"} THEN "UNKNOWN" ELSE "NORMAL"

\* mandatory_user_warning of get_market_context_alerts
MandatoryWarning(context, ratio) ==
    \/ WarningLevel(context.geo, Impulse(ratio)) \in {"HIGH", "ELEVATED"}
    \/ context.policy = "ACTIVE"
    \/ Impulse(ratio) \in {"HIGH", "ELEVATED"} /\ context.policy \in {"UNAVAILABLE", "STALE"}

-----------------------------------------------------------------------------
(* Loading it: _load_external_context_uncached *)

FeedGeo(metrics) ==
    /\ \A f \in geoFiles : f.at < moment
    /\ geoFiles' = geoFiles \cup {[at |-> moment, metrics |-> metrics]}
    /\ UNCHANGED <<policyVars, request, cached>>

\* _external_context: the cache is valid for CacheTtl from its stamp.
Valid == cached # NoContext /\ moment - cached.stamp < CacheTtl

AskContext(r) ==
    /\ request[r].stage = "off" /\ ~Valid
    /\ request' = [request EXCEPT ![r].stage = "geo", ![r].asked = moment]
    /\ UNCHANGED <<policyVars, geoFiles, cached>>

ReadGeo(r) ==
    /\ request[r].stage = "geo"
    /\ request' = [request EXCEPT ![r].stage = "capture", ![r].geo = geoFiles]
    /\ UNCHANGED <<policyVars, geoFiles, cached>>

ReadLatestCapture(r) ==
    /\ request[r].stage = "capture"
    /\ \E at \in IF Done = {} THEN {0} ELSE {capture[c].at : c \in LatestCapture(Done)} :
           request' = [request EXCEPT ![r].stage = "events", ![r].latest = at]
    /\ UNCHANGED <<policyVars, geoFiles, cached>>

\* The rows first seen in the last 24 hours, the newest of them.
RecentPages(now) == {p \in Pages : eventRows[p] # NoEvent /\ eventRows[p].first + RecentWindow >= now}
NewestPages(now) ==
    {S \in SUBSET RecentPages(now) :
        /\ Cardinality(S) <= RecentLimit
        /\ S # RecentPages(now) => Cardinality(S) = RecentLimit
        /\ \A p \in S, q \in RecentPages(now) \ S : eventRows[p].first >= eventRows[q].first}

ReadRecentEvents(r) ==
    /\ request[r].stage = "events"
    /\ \E S \in NewestPages(moment) :
           request' = [request EXCEPT ![r].stage = "build", ![r].events =
               {[page |-> p, date |-> eventRows[p].published, first |-> eventRows[p].first] : p \in S}]
    /\ UNCHANGED <<policyVars, geoFiles, cached>>

\* The database fails: what was read before is used.
LoadFails(r) ==
    /\ request[r].stage \in {"geo", "capture", "events"}
    /\ request' = [request EXCEPT ![r].stage = "build", ![r].error = TRUE]
    /\ UNCHANGED <<policyVars, geoFiles, cached>>

\* Mutant: the cache is stamped when the load is over.
StampAtEnd(r) == moment

\* now_monotonic, read before the load
Stamp(r) == request[r].asked

\* Mutant: the cut is one too early.
ShownOneLess(active) ==
    {S \in SUBSET active :
        /\ Cardinality(S) < VisibleLimit
        /\ S # active => Cardinality(S) + 1 = VisibleLimit
        /\ \A e \in S, f \in active \ S : e.first >= f.first}

\* visible_events, sorted by first_seen_at, and cut: the newest.
Shown(active) ==
    {S \in SUBSET active :
        /\ Cardinality(S) <= VisibleLimit
        /\ S # active => Cardinality(S) = VisibleLimit
        /\ \A e \in S, f \in active \ S : e.first >= f.first}

\* The state looks at all active events, the answer shows some of them.
ContextFrom(r, active, shown) ==
    LET load == request[r]
    IN  [stamp |-> Stamp(r), built |-> moment, geo |-> GeoState(load.geo, moment),
         policy |-> PolicyState(load.latest, active, moment),
         events |-> IF load.latest = 0 THEN {} ELSE shown, error |-> load.error]

FillContext(r) ==
    LET active == {e \in request[r].events : IsActive(e, moment)}
    IN  /\ request[r].stage = "build"
        /\ \E shown \in Shown(active) : cached' = ContextFrom(r, active, shown)
        /\ request' = [request EXCEPT ![r] = NoLoad]
        /\ UNCHANGED <<policyVars, geoFiles>>

AlertsInit ==
    /\ PolicyInit
    /\ geoFiles = {}
    /\ request = [r \in Requests |-> NoLoad]
    /\ cached = NoContext

AlertsNext ==
    \/ PolicyNext /\ UNCHANGED <<geoFiles, request, cached>>
    \/ \E metrics \in GeoShapes : FeedGeo(metrics)
    \/ \E r \in Requests :
           AskContext(r) \/ ReadGeo(r) \/ ReadLatestCapture(r) \/ ReadRecentEvents(r)
               \/ LoadFails(r) \/ FillContext(r)

AlertsSpec == AlertsInit /\ [][AlertsNext]_alertVars

-----------------------------------------------------------------------------
(* Properties *)

\* Answers are given from the cache while it is valid, and by the request that
\* has just filled it.
Answering == cached # NoContext /\ ~cached.error /\ (Valid \/ cached.built = moment)

\* Events in the table before the load of the context began, first seen and
\* published within the window, and not so many that the LIMIT hides some.
Due(p) ==
    /\ eventRows[p] # NoEvent /\ eventRows[p].created < cached.stamp
    /\ eventRows[p].first + ActiveWindow >= moment
    /\ eventRows[p].published = Undated \/ eventRows[p].published + ActiveWindow >= moment
    /\ Cardinality(RecentPages(cached.stamp)) <= RecentLimit

\* A page is shown, or as many events as an answer shows are at least as new.
IsShown(p) ==
    \/ p \in {e.page : e \in cached.events}
    \/ /\ Cardinality(cached.events) = VisibleLimit
       /\ \A e \in cached.events : e.first >= eventRows[p].first

\* reporting_policy of market_context_alerts.py: whichever request filled the
\* cache, an answer shows every due event, up to VisibleLimit of the newest,
\* with a mandatory warning, or says that the sources are stale and then warns
\* of an impulse; it says so only when no fresh capture was stored before its
\* load began, and shows no event for longer than its window and the lifetime
\* of the cache.
FreshPolicyIsSurfaced ==
    Answering =>
        /\ \A p \in Pages : Due(p) =>
               \/ cached.policy = "ACTIVE" /\ IsShown(p)
               \/ cached.policy \in {"STALE", "UNAVAILABLE"}
        /\ \A ratio \in Ratios :
               /\ cached.policy = "ACTIVE" => MandatoryWarning(cached, ratio)
               /\ ratio >= ElevatedRatio /\ ratio # 0 => MandatoryWarning(cached, ratio)
        /\ cached.policy \in {"STALE", "UNAVAILABLE"} =>
               \A c \in Done : capture[c].ended >= cached.stamp
                                   \/ capture[c].at + PolicyMaxAge < moment
        /\ \A e \in cached.events : e.first + ActiveWindow + CacheTtl > moment
=============================================================================
