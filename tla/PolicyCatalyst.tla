--------------------------- MODULE PolicyCatalyst ---------------------------
(***************************************************************************)
(* The feed of policy and liquidity catalysts: a capture of                *)
(* research_policy_catalyst_api.py with policy_catalyst_feed_v1.py,        *)
(* policy_catalyst_event_store_v1.py, policy_catalyst_sources_v1.py and    *)
(* policy_catalyst_transport_v1.py, and the health that                    *)
(* policy_catalyst_observability_v1.py reports.                            *)
(*                                                                         *)
(* Calls of the capture endpoint may overlap.  A capture runs without a    *)
(* transaction: each event takes three statements, each of them committed  *)
(* on its own, and the row of the capture comes last.  Headlines are of a  *)
(* registered class, and a source never lists a page twice; sources and    *)
(* pages are numbered in the order of the registry and of the event ids.   *)
(* The caps of 100 events and 12 pages are not reached.                    *)
(***************************************************************************)
EXTENDS Naturals, FiniteSets

CONSTANTS
    PolicyCaptures,  \* calls of the capture endpoint
    Pages,           \* numbers of the pages of all sources
    SourceOf,        \* the number of the source of a page
    HtmlSources,     \* the sources read page by page; the others are feeds
    OldDates,        \* publication dates, from before the first moment
    ClockErrors,     \* how far ahead the clock of a provider may be
    FirstMoment, LastMoment, \* bounds on the clock
    MaxSkew,         \* MAX_FUTURE_SKEW
    EventLookback,   \* DEFAULT_EVENT_LOOKBACK_HOURS
    CaptureFresh     \* CAPTURE_FRESH_SECONDS

ASSUME PolicyAssumption ==
    /\ Pages \subseteq Nat /\ IsFiniteSet(Pages) /\ SourceOf \in [Pages -> Nat \ {0}]
    /\ OldDates \subseteq 1..(FirstMoment - 1) /\ ClockErrors \subseteq Nat
    /\ {FirstMoment, LastMoment, MaxSkew, EventLookback, CaptureFresh} \subseteq Nat

VARIABLES
    moment,      \* the clock
    page,        \* the publication date a page shows, or NotOut
    capture,     \* the state of each call; a "done" one has its row in the table of captures
    eventRows,   \* research_policy_catalyst_events, by page
    storeRows    \* policy_catalyst_event_v1, by page and date

policyVars == <<moment, page, capture, eventRows, storeRows>>

NotOut == 0
Undated == 0
NoEvent == [published |-> 0, first |-> 0, last |-> 0, created |-> 0]
Uncalled == [stage |-> "off", at |-> 0, left |-> {}, failed |-> {}, found |-> <<>>,
             first |-> 0, shown |-> <<>>, ended |-> 0]
PolicySources == {SourceOf[p] : p \in Pages}

With(f, x, y) == [z \in DOMAIN f \cup {x} |-> IF z = x THEN y ELSE f[z]]

-----------------------------------------------------------------------------
(* The sources *)

\* normalize_event and _within_lookback: a page without a date is taken.
Admits(date, at) ==
    date = Undated \/ (date <= at + MaxSkew /\ date + EventLookback >= at)

PublishPage(p, date) ==
    /\ page[p] = NotOut
    /\ page' = [page EXCEPT ![p] = date]
    /\ UNCHANGED <<moment, capture, eventRows, storeRows>>

\* A feed may give the time of an update as the date.
UpdatePage(p) ==
    /\ page[p] # NotOut /\ page[p] < moment
    /\ page' = [page EXCEPT ![p] = moment]
    /\ UNCHANGED <<moment, capture, eventRows, storeRows>>

-----------------------------------------------------------------------------
(* A capture *)

BeginPolicyCapture(c) ==
    /\ capture[c] = Uncalled /\ \A d \in PolicyCaptures : capture[d].at # moment
    /\ capture' = [capture EXCEPT ![c].stage = "run", ![c].at = moment, ![c].left = PolicySources]
    /\ UNCHANGED <<moment, page, eventRows, storeRows>>

SourceInTurn(c) ==
    CHOOSE s \in capture[c].left : \A o \in capture[c].left : s <= o

\* parse_rss_or_atom, or parse_official_html_index with the details: some of
\* them may be missed, and others may not give their date.
PagesOf(s, missed, hidden) ==
    [p \in {q \in Pages : SourceOf[q] = s /\ page[q] # NotOut} \ missed |->
        IF p \in hidden THEN Undated ELSE page[p]]

\* _fetch_source: a missed detail leaves the source OK.
FetchSource(c, missed, hidden) ==
    LET s == SourceInTurn(c)
        date == PagesOf(s, missed, hidden)
        taken == {p \in DOMAIN date : Admits(date[p], capture[c].at)}
    IN  /\ capture[c].stage = "run" /\ capture[c].left # {}
        /\ \A p \in missed \cup hidden : SourceOf[p] = s /\ s \in HtmlSources /\ page[p] # NotOut
        /\ capture' = [capture EXCEPT
               ![c].left = @ \ {s},
               ![c].found = [p \in DOMAIN @ \cup taken |-> IF p \in taken THEN date[p] ELSE @[p]]]
        /\ UNCHANGED <<moment, page, eventRows, storeRows>>

\* build_current_snapshot: a timeout, a redirect to another host, too many
\* bytes or text that is no feed are an ERROR of the source.
SourceFails(c) ==
    /\ capture[c].stage = "run" /\ capture[c].left # {}
    /\ capture' = [capture EXCEPT ![c].left = @ \ {SourceInTurn(c)},
                                  ![c].failed = @ \cup {SourceInTurn(c)}]
    /\ UNCHANGED <<moment, page, eventRows, storeRows>>

\* build_snapshot
PolicyQuality(failed) ==
    IF failed = {} THEN "COMPLETE"
    ELSE IF failed # PolicySources THEN "PARTIAL" ELSE "DEGRADED"

\* The events still to be stored, and the first of them: the newest.
Unstored(c) == DOMAIN capture[c].found \ DOMAIN capture[c].shown
EventInTurn(c) ==
    LET date == capture[c].found
    IN  CHOOSE p \in Unstored(c) : \A q \in Unstored(c) \ {p} :
            date[p] > date[q] \/ (date[p] = date[q] /\ p > q)
Persisting(c, stage) ==
    capture[c].stage = stage /\ capture[c].left = {} /\ Unstored(c) # {}

\* Mutant: the store takes the clock of the last capture for the first.
StoredV1Anew(rows, p, date, at) ==
    {r \in rows : r.page # p \/ r.date # date}
        \cup {[page |-> p, date |-> date, first |-> at, last |-> at]}

\* _persist_event_store_v1: the date is part of the identity.
StoredV1(rows, p, date, at) ==
    LET old == {r \in rows : r.page = p /\ r.date = date}
    IN  IF date = Undated THEN rows
        ELSE IF old = {} THEN rows \cup {[page |-> p, date |-> date, first |-> at, last |-> at]}
        ELSE (rows \ old) \cup {[r EXCEPT !.last = at] : r \in old}

StoreEventV1(c) ==
    LET p == EventInTurn(c)
    IN  /\ Persisting(c, "run")
        /\ storeRows' = StoredV1(storeRows, p, capture[c].found[p], capture[c].at)
        /\ capture' = [capture EXCEPT ![c].stage = "lookup"]
        /\ UNCHANGED <<moment, page, eventRows>>

\* Mutant: the payload takes the clock of its own capture.
FirstSeenNow(row, at) == at

\* existing_first_seen or captured_at
FirstSeen(row, at) == IF row = NoEvent THEN at ELSE row.first

LookUpEvent(c) ==
    /\ Persisting(c, "lookup")
    /\ capture' = [capture EXCEPT ![c].stage = "upsert",
                       ![c].first = FirstSeen(eventRows[EventInTurn(c)], capture[c].at)]
    /\ UNCHANGED <<moment, page, eventRows, storeRows>>

\* ON CONFLICT keeps the first clock, and the first date that was known.
UpsertedEvent(row, date, first, at) ==
    IF row = NoEvent
    THEN [published |-> date, first |-> first, last |-> at, created |-> moment]
    ELSE [row EXCEPT !.published = IF @ = Undated THEN date ELSE @, !.last = at]

UpsertEvent(c) ==
    LET p == EventInTurn(c)
    IN  /\ Persisting(c, "upsert")
        /\ eventRows' = [eventRows EXCEPT
               ![p] = UpsertedEvent(@, capture[c].found[p], capture[c].first, capture[c].at)]
        /\ capture' = [capture EXCEPT ![c].stage = "run",
                           ![c].shown = With(@, p, capture[c].first)]
        /\ UNCHANGED <<moment, page, storeRows>>

\* Mutant: the row of the capture does not wait for the last event.
MayEndEarly(c) == capture[c].stage = "run" /\ capture[c].left = {}

MayEnd(c) == capture[c].stage = "run" /\ capture[c].left = {} /\ Unstored(c) = {}

\* The row of the capture, with its events as stored.
EndPolicyCapture(c) ==
    /\ MayEnd(c)
    /\ capture' = [capture EXCEPT ![c].stage = "done", ![c].ended = moment]
    /\ UNCHANGED <<moment, page, eventRows, storeRows>>

\* The database fails, or the process ends: what is committed stays.
BreakPolicyCapture(c) ==
    /\ capture[c].stage \in {"run", "lookup", "upsert"} /\ capture[c].left = {}
    /\ capture' = [capture EXCEPT ![c].stage = "failed", ![c].ended = moment]
    /\ UNCHANGED <<moment, page, eventRows, storeRows>>

NextMoment ==
    /\ moment < LastMoment /\ moment' = moment + 1
    /\ UNCHANGED <<page, capture, eventRows, storeRows>>

PolicyInit ==
    /\ moment = FirstMoment
    /\ page \in [Pages -> {NotOut} \cup OldDates]
    /\ capture = [c \in PolicyCaptures |-> Uncalled]
    /\ eventRows = [p \in Pages |-> NoEvent]
    /\ storeRows = {}

PolicyNext ==
    \/ \E p \in Pages :
           \/ \E ahead \in ClockErrors : PublishPage(p, moment + ahead)
           \/ UpdatePage(p)
    \/ \E c \in PolicyCaptures :
           \/ BeginPolicyCapture(c)
           \/ \E missed, hidden \in SUBSET Pages : FetchSource(c, missed, hidden)
           \/ SourceFails(c)
           \/ StoreEventV1(c)
           \/ LookUpEvent(c)
           \/ UpsertEvent(c)
           \/ EndPolicyCapture(c)
           \/ BreakPolicyCapture(c)
    \/ NextMoment

PolicySpec == PolicyInit /\ [][PolicyNext]_policyVars

-----------------------------------------------------------------------------
(* What status_payload makes of it *)

Done == {c \in PolicyCaptures : capture[c].stage = "done"}
LatestCapture(done) == {c \in done : \A d \in done : capture[d].at <= capture[c].at}

\* build_source_observability: event_store_status and collection_freshness.
StoreStatus(s) ==
    IF \E c \in LatestCapture(Done) : s \notin capture[c].failed
    THEN IF \E r \in storeRows : SourceOf[r.page] = s THEN "PERSISTED" ELSE "PENDING"
    ELSE "UNAVAILABLE"
CollectionFreshness ==
    IF Done = {} THEN "UNAVAILABLE"
    ELSE IF \E c \in Done : capture[c].at + CaptureFresh >= moment THEN "FRESH" ELSE "STALE"

-----------------------------------------------------------------------------
(* Properties *)

Ended(c) == capture[c].stage \in {"done", "failed"}
Overlap(c, d) ==
    /\ capture[d].stage # "off"
    /\ Ended(c) => capture[d].at <= capture[c].ended
    /\ Ended(d) => capture[c].at <= capture[d].ended

\* The first clock of a row is that of a capture that stored the event, and no
\* capture that did so was over before that one began, in either table.
ClockIsOfFirst ==
    /\ \A p \in Pages : eventRows[p] # NoEvent =>
           \E c \in PolicyCaptures :
               /\ capture[c].at = eventRows[p].first /\ p \in DOMAIN capture[c].shown
               /\ \A d \in PolicyCaptures : Ended(d) /\ p \in DOMAIN capture[d].shown =>
                      capture[d].ended >= capture[c].at
    /\ \A r \in storeRows, d \in PolicyCaptures :
           Ended(d) /\ r.page \in DOMAIN capture[d].shown /\ capture[d].found[r.page] = r.date =>
               r.first <= capture[d].ended

\* What a stored capture says of its events is in the tables: the row, its
\* first clock unless the two captures overlapped, and the dated identity.
CaptureIsBacked ==
    \A c \in Done : \A p \in DOMAIN capture[c].found :
        /\ eventRows[p] # NoEvent /\ p \in DOMAIN capture[c].shown
        /\ \/ capture[c].shown[p] = eventRows[p].first
           \/ \E d \in PolicyCaptures \ {c} : capture[d].at = eventRows[p].first /\ Overlap(c, d)
        /\ capture[c].found[p] # Undated =>
               /\ \E r \in storeRows : r.page = p /\ r.date = capture[c].found[p]
               /\ StoreStatus(SourceOf[p]) # "PENDING"

\* research_policy_catalyst_api.py: captures may overlap and may stop after
\* any statement, yet a first clock is that of a capture before which none was
\* over that had stored the event, a stored capture is backed by the tables,
\* and a source is not called without events when a capture has listed one.
PolicyRecordIsTrue == ClockIsOfFirst /\ CaptureIsBacked
=============================================================================
