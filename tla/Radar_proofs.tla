---------------------------- MODULE Radar_proofs ----------------------------
(***************************************************************************)
(* Proofs about the radar: the policy catalysts and the warnings made of   *)
(* them (PolicyCatalyst, MarketAlerts), the passes of the workers          *)
(* (SwingScan, DayScan), and the captures and the events of the swing      *)
(* trial (SwingCapture, SwingTriggers).                                    *)
(***************************************************************************)
EXTENDS MarketAlerts, SwingScan, DayScan, SwingCapture, SwingTriggers, Extrema,
        FiniteSetTheorems, TLAPS

------------------------------------------------------------------------------
(* Policy catalysts: the type invariant.                                    *)

PageDates == UNION {[S -> Nat] : S \in SUBSET Pages}
CaptureStates ==
    [stage : {"off", "run", "lookup", "upsert", "done", "failed"}, at : Nat,
     left : SUBSET PolicySources, failed : SUBSET PolicySources, found : PageDates,
     first : Nat, shown : PageDates, ended : Nat]
EventRows == [published : Nat, first : Nat, last : Nat, created : Nat]
StoreRows == [page : Pages, date : Nat, first : Nat, last : Nat]

PolicyTypeOK ==
    /\ moment \in Nat
    /\ page \in [Pages -> Nat]
    /\ capture \in [PolicyCaptures -> CaptureStates]
    /\ eventRows \in [Pages -> EventRows]
    /\ storeRows \subseteq StoreRows

\* A partial function from pages.
LEMMA PageDatesAre ==
    ASSUME NEW f
    PROVE  f \in PageDates <=>
               /\ DOMAIN f \subseteq Pages /\ f = [p \in DOMAIN f |-> f[p]]
               /\ \A p \in DOMAIN f : f[p] \in Nat
<1>1. ASSUME f \in PageDates
      PROVE  /\ DOMAIN f \subseteq Pages /\ f = [p \in DOMAIN f |-> f[p]]
             /\ \A p \in DOMAIN f : f[p] \in Nat
  <2>1. PICK S \in SUBSET Pages : f \in [S -> Nat]
    BY <1>1 DEF PageDates
  <2> QED BY <2>1
<1>2. ASSUME DOMAIN f \subseteq Pages, f = [p \in DOMAIN f |-> f[p]],
             \A p \in DOMAIN f : f[p] \in Nat
      PROVE  f \in PageDates
  <2>1. f \in [DOMAIN f -> Nat]
    BY <1>2
  <2> QED BY <1>2, <2>1 DEF PageDates
<1> QED BY <1>1, <1>2

\* The source that a capture asks next is one that it has still to ask.
LEMMA SourceIsLeft ==
    ASSUME PolicyTypeOK, NEW c \in PolicyCaptures, capture[c].left # {}
    PROVE  SourceInTurn(c) \in capture[c].left /\ capture[c].left \subseteq PolicySources
<1>1. capture[c].left \subseteq PolicySources
  BY DEF PolicyTypeOK, CaptureStates
<1>2. capture[c].left \in SUBSET Nat
  BY <1>1, PolicyAssumption DEF PolicySources
<1>3. PICK s \in capture[c].left : \A o \in capture[c].left : s <= o
  BY <1>2, LeastNatural
<1> QED BY <1>1, <1>3 DEF SourceInTurn

\* The event that a capture stores next is one that it has still to store.
LEMMA EventIsUnstored ==
    ASSUME PolicyTypeOK, NEW c \in PolicyCaptures, Unstored(c) # {}
    PROVE  EventInTurn(c) \in Unstored(c) /\ Unstored(c) \subseteq Pages
<1> DEFINE date == capture[c].found
           U == Unstored(c)
<1>1. date \in PageDates /\ DOMAIN date \subseteq Pages /\ \A p \in DOMAIN date : date[p] \in Nat
  BY PageDatesAre DEF PolicyTypeOK, CaptureStates
<1>2. U \subseteq DOMAIN date /\ U \subseteq Pages /\ U # {}
  BY <1>1 DEF Unstored
<1>3. IsFiniteSet(U)
  BY <1>2, PolicyAssumption, FS_Subset
<1> HIDE DEF U, date
<1>4. PICK q \in U : \A p \in U : date[p] <= date[q]
  BY <1>1, <1>2, <1>3, GreatestOfFinite
<1> DEFINE T == {p \in U : date[p] = date[q]}
           id == [p \in Pages |-> p]
<1>5. IsFiniteSet(T) /\ T # {} /\ T \subseteq U
  BY <1>3, <1>4, FS_Subset
<1>6. \A p \in T : id[p] = p /\ p \in Nat
  BY <1>2, <1>5, PolicyAssumption
<1>7. PICK top \in T : \A p \in T : id[p] <= id[top]
  <2> HIDE DEF T, id
  <2> QED BY <1>5, <1>6, GreatestOfFinite
<1>8. \A p \in U \ {top} : date[top] > date[p] \/ (date[top] = date[p] /\ top > p)
  <2> SUFFICES ASSUME NEW p \in U \ {top}
               PROVE  date[top] > date[p] \/ (date[top] = date[p] /\ top > p)
    OBVIOUS
  <2>1. date[p] <= date[q] /\ date[top] = date[q] /\ date[p] \in Nat /\ date[q] \in Nat
    BY <1>1, <1>2, <1>4, <1>7
  <2>2. CASE date[p] = date[q]
    <3>1. p \in T /\ p # top
      BY <2>2
    <3>2. p <= top /\ p \in Nat /\ top \in Nat
      BY <1>6, <1>7, <3>1
    <3> QED BY <2>1, <2>2, <3>1, <3>2
  <2>3. CASE date[p] # date[q]
    BY <2>1, <2>3
  <2> QED BY <2>2, <2>3
<1>9. top \in U
  BY <1>7
<1>10. EventInTurn(c) = CHOOSE p \in U : \A r \in U \ {p} :
            date[p] > date[r] \/ (date[p] = date[r] /\ p > r)
  BY DEF EventInTurn, U, date
<1>11. EventInTurn(c) \in U
  BY <1>8, <1>9, <1>10
<1> QED BY <1>2, <1>11 DEF U

\* The policy feed begins well typed.
LEMMA PolicyInitial == PolicyInit => PolicyTypeOK
<1> SUFFICES ASSUME PolicyInit PROVE PolicyTypeOK
  OBVIOUS
<1>1. <<>> \in PageDates
  <2>1. <<>> \in [{} -> Nat]
    OBVIOUS
  <2>2. {} \in SUBSET Pages
    OBVIOUS
  <2> QED BY <2>1, <2>2 DEF PageDates
<1>2. Uncalled \in CaptureStates
  BY <1>1 DEF Uncalled, CaptureStates
<1>3. NoEvent \in EventRows
  BY DEF NoEvent, EventRows
<1>4. page \in [Pages -> Nat] /\ moment \in Nat
  <2>1. {NotOut} \cup OldDates \subseteq Nat
    BY PolicyAssumption DEF NotOut
  <2>2. page \in [Pages -> {NotOut} \cup OldDates] /\ moment = FirstMoment
    BY DEF PolicyInit
  <2> QED BY <2>1, <2>2, PolicyAssumption
<1> QED BY <1>2, <1>3, <1>4 DEF PolicyInit, PolicyTypeOK

\* Every step of the policy feed leaves it well typed.
LEMMA PolicyTypeStep == PolicyTypeOK /\ [PolicyNext]_policyVars => PolicyTypeOK'
<1> SUFFICES ASSUME PolicyTypeOK, [PolicyNext]_policyVars PROVE PolicyTypeOK'
  OBVIOUS
<1> USE DEF PolicyTypeOK
<1>m. moment \in Nat /\ \A c \in PolicyCaptures : capture[c] \in CaptureStates
  OBVIOUS
<1>1. ASSUME NEW p \in Pages, NEW ahead \in ClockErrors, PublishPage(p, moment + ahead)
      PROVE  PolicyTypeOK'
  BY <1>1, PolicyAssumption DEF PublishPage
<1>2. ASSUME NEW p \in Pages, UpdatePage(p) PROVE PolicyTypeOK'
  BY <1>2 DEF UpdatePage
<1>3. ASSUME NEW c \in PolicyCaptures, BeginPolicyCapture(c) PROVE PolicyTypeOK'
  <2> DEFINE new == [capture[c] EXCEPT !.stage = "run", !.at = moment, !.left = PolicySources]
  <2>1. new \in CaptureStates
    BY <1>m DEF CaptureStates
  <2>2. capture' = [capture EXCEPT ![c] = new]
    BY <1>3 DEF BeginPolicyCapture
  <2> HIDE DEF new
  <2> QED BY <1>3, <2>1, <2>2 DEF BeginPolicyCapture
<1>4. ASSUME NEW c \in PolicyCaptures, NEW missed \in SUBSET Pages, NEW hidden \in SUBSET Pages,
             FetchSource(c, missed, hidden)
      PROVE  PolicyTypeOK'
  <2> DEFINE s == SourceInTurn(c)
             date == PagesOf(s, missed, hidden)
             taken == {p \in DOMAIN date : Admits(date[p], capture[c].at)}
             found == [p \in DOMAIN capture[c].found \cup taken |->
                          IF p \in taken THEN date[p] ELSE capture[c].found[p]]
             new == [capture[c] EXCEPT !.left = @ \ {s}, !.found = found]
  <2>1. taken \subseteq Pages /\ \A p \in taken : date[p] \in Nat
    BY DEF PagesOf, Undated
  <2>2. capture[c].found \in PageDates
    BY <1>m DEF CaptureStates
  <2> HIDE DEF taken, date, s
  <2>3. found \in PageDates
    <3>1. DOMAIN found \subseteq Pages /\ found = [p \in DOMAIN found |-> found[p]]
          /\ \A p \in DOMAIN found : found[p] \in Nat
      BY <2>1, <2>2, PageDatesAre
    <3> HIDE DEF found
    <3> QED BY <3>1, PageDatesAre
  <2>4. capture' = [capture EXCEPT ![c] = new] /\ UNCHANGED <<moment, page, eventRows, storeRows>>
    BY <1>4 DEF FetchSource, taken, date, s
  <2> HIDE DEF found
  <2>5. new \in CaptureStates
    BY <1>m, <2>3 DEF CaptureStates
  <2> HIDE DEF new
  <2> QED BY <2>4, <2>5
<1>5. ASSUME NEW c \in PolicyCaptures, SourceFails(c) PROVE PolicyTypeOK'
  <2> DEFINE new == [capture[c] EXCEPT !.left = @ \ {SourceInTurn(c)},
                                       !.failed = @ \cup {SourceInTurn(c)}]
  <2>1. SourceInTurn(c) \in PolicySources
    BY <1>m, <1>5, SourceIsLeft DEF SourceFails
  <2>2. new \in CaptureStates
    BY <1>m, <2>1 DEF CaptureStates
  <2>3. capture' = [capture EXCEPT ![c] = new]
    BY <1>5 DEF SourceFails
  <2> HIDE DEF new
  <2> QED BY <1>5, <2>2, <2>3 DEF SourceFails
<1>6. ASSUME NEW c \in PolicyCaptures, StoreEventV1(c) PROVE PolicyTypeOK'
  <2> DEFINE new == [capture[c] EXCEPT !.stage = "lookup"]
             p == EventInTurn(c)
  <2>1. new \in CaptureStates /\ capture' = [capture EXCEPT ![c] = new]
    BY <1>m, <1>6 DEF CaptureStates, StoreEventV1
  <2>2. p \in Pages /\ capture[c].found[p] \in Nat /\ capture[c].at \in Nat
    <3>1. p \in Unstored(c) /\ p \in Pages
      BY <1>m, <1>6, EventIsUnstored DEF StoreEventV1, Persisting
    <3> HIDE DEF p
    <3>2. capture[c].found \in PageDates /\ p \in DOMAIN capture[c].found
      BY <1>m, <3>1 DEF CaptureStates, Unstored
    <3> QED BY <1>m, <3>1, <3>2, PageDatesAre DEF CaptureStates
  <2>3. storeRows' = StoredV1(storeRows, p, capture[c].found[p], capture[c].at)
    BY <1>6 DEF StoreEventV1
  <2> HIDE DEF p, new
  <2>4. storeRows' \subseteq StoreRows
    <3> DEFINE date == capture[c].found[p]
               at == capture[c].at
               old == {r \in storeRows : r.page = p /\ r.date = date}
    <3>1. [page |-> p, date |-> date, first |-> at, last |-> at] \in StoreRows
      BY <2>2 DEF StoreRows
    <3>2. \A r \in storeRows : [r EXCEPT !.last = at] \in StoreRows
      BY <2>2 DEF StoreRows
    <3> QED BY <2>3, <3>1, <3>2 DEF StoredV1
  <2> QED BY <1>6, <2>1, <2>4 DEF StoreEventV1
<1>7. ASSUME NEW c \in PolicyCaptures, LookUpEvent(c) PROVE PolicyTypeOK'
  <2> DEFINE first == FirstSeen(eventRows[EventInTurn(c)], capture[c].at)
             new == [capture[c] EXCEPT !.stage = "upsert", !.first = first]
  <2>1. EventInTurn(c) \in Pages
    BY <1>m, <1>7, EventIsUnstored DEF LookUpEvent, Persisting
  <2>2. first \in Nat
    BY <1>m, <2>1 DEF FirstSeen, CaptureStates, EventRows
  <2>3. capture' = [capture EXCEPT ![c] = new]
    BY <1>7 DEF LookUpEvent
  <2> HIDE DEF first
  <2>4. new \in CaptureStates
    BY <1>m, <2>2 DEF CaptureStates
  <2> HIDE DEF new
  <2> QED BY <1>7, <2>3, <2>4 DEF LookUpEvent
<1>8. ASSUME NEW c \in PolicyCaptures, UpsertEvent(c) PROVE PolicyTypeOK'
  <2> DEFINE p == EventInTurn(c)
             shown == With(capture[c].shown, p, capture[c].first)
             new == [capture[c] EXCEPT !.stage = "run", !.shown = shown]
             row == UpsertedEvent(eventRows[p], capture[c].found[p], capture[c].first, capture[c].at)
  <2>1. p \in Unstored(c) /\ p \in Pages
    BY <1>m, <1>8, EventIsUnstored DEF UpsertEvent, Persisting
  <2>2. capture' = [capture EXCEPT ![c] = new] /\ eventRows' = [eventRows EXCEPT ![p] = row]
        /\ UNCHANGED <<moment, page, storeRows>>
    BY <1>8 DEF UpsertEvent
  <2> HIDE DEF p
  <2>3. capture[c].found[p] \in Nat /\ capture[c].at \in Nat /\ capture[c].first \in Nat
    <3>1. capture[c].found \in PageDates /\ p \in DOMAIN capture[c].found
      BY <1>m, <2>1 DEF CaptureStates, Unstored
    <3> QED BY <1>m, <3>1, PageDatesAre DEF CaptureStates
  <2>4. row \in EventRows
    BY <1>m, <2>1, <2>3 DEF UpsertedEvent, EventRows
  <2>5. shown \in PageDates
    <3>1. capture[c].shown \in PageDates
      BY <1>m DEF CaptureStates
    <3>2. DOMAIN shown \subseteq Pages /\ shown = [z \in DOMAIN shown |-> shown[z]]
          /\ \A z \in DOMAIN shown : shown[z] \in Nat
      BY <2>1, <2>3, <3>1, PageDatesAre DEF With
    <3> HIDE DEF shown
    <3> QED BY <3>2, PageDatesAre
  <2> HIDE DEF shown, row
  <2>6. new \in CaptureStates
    BY <1>m, <2>5 DEF CaptureStates
  <2> HIDE DEF new
  <2> QED BY <2>1, <2>2, <2>4, <2>6
<1>9. ASSUME NEW c \in PolicyCaptures, EndPolicyCapture(c) PROVE PolicyTypeOK'
  <2> DEFINE new == [capture[c] EXCEPT !.stage = "done", !.ended = moment]
  <2>1. new \in CaptureStates /\ capture' = [capture EXCEPT ![c] = new]
    BY <1>m, <1>9 DEF CaptureStates, EndPolicyCapture
  <2> HIDE DEF new
  <2> QED BY <1>9, <2>1 DEF EndPolicyCapture
<1>10. ASSUME NEW c \in PolicyCaptures, BreakPolicyCapture(c) PROVE PolicyTypeOK'
  <2> DEFINE new == [capture[c] EXCEPT !.stage = "failed", !.ended = moment]
  <2>1. new \in CaptureStates /\ capture' = [capture EXCEPT ![c] = new]
    BY <1>m, <1>10 DEF CaptureStates, BreakPolicyCapture
  <2> HIDE DEF new
  <2> QED BY <1>10, <2>1 DEF BreakPolicyCapture
<1>11. ASSUME NextMoment PROVE PolicyTypeOK'
  BY <1>m, <1>11 DEF NextMoment
<1>12. CASE UNCHANGED policyVars
  BY <1>12 DEF policyVars
<1> QED
  BY <1>1, <1>2, <1>3, <1>4, <1>5, <1>6, <1>7, <1>8, <1>9, <1>10, <1>11, <1>12 DEF PolicyNext
------------------------------------------------------------------------------
(* Policy catalysts: what no step takes back.                               *)

Clocked(c) ==
    /\ capture[c].stage = "off" => capture[c] = Uncalled
    /\ capture[c].stage # "off" => capture[c].at > 0
    /\ capture[c].at <= moment
    /\ Ended(c) => capture[c].at <= capture[c].ended /\ capture[c].ended <= moment

\* A begun capture keeps its clock and the events it has shown, an ended one
\* everything, and one that ends has the present as its end.
CaptureGrows(c) ==
    /\ capture[c].stage # "off" => capture'[c].stage # "off" /\ capture'[c].at = capture[c].at
    /\ Ended(c) => capture'[c] = capture[c]
    /\ Ended(c)' => Ended(c) \/ capture'[c].ended = moment
    /\ DOMAIN capture[c].shown \subseteq DOMAIN capture'[c].shown

\* Time does not go back, and no row goes or gets another first clock.
TablesGrow ==
    /\ moment <= moment'
    /\ \A p \in Pages : eventRows[p] # NoEvent =>
           eventRows'[p] # NoEvent /\ eventRows'[p].first = eventRows[p].first
    /\ \A r \in storeRows : \E s \in storeRows' :
           s.page = r.page /\ s.date = r.date /\ s.first = r.first

\* The rows of the store after a statement on the identity of p and date.
LEMMA StoredV1Grows ==
    ASSUME NEW rows, rows \subseteq StoreRows, NEW p \in Pages, NEW date \in Nat, NEW at \in Nat
    PROVE  /\ \A r \in rows : \E s \in StoredV1(rows, p, date, at) :
                  s.page = r.page /\ s.date = r.date /\ s.first = r.first
           /\ date # Undated => \E s \in StoredV1(rows, p, date, at) : s.page = p /\ s.date = date
           /\ \A s \in StoredV1(rows, p, date, at) :
                  \/ \E r \in rows : s.page = r.page /\ s.date = r.date /\ s.first = r.first
                  \/ /\ s.page = p /\ s.date = date /\ s.first = at /\ date # Undated
                     /\ \A r \in rows : ~ (r.page = p /\ r.date = date)
<1> DEFINE old == {r \in rows : r.page = p /\ r.date = date}
           fresh == [page |-> p, date |-> date, first |-> at, last |-> at]
           touched == {[r EXCEPT !.last = at] : r \in old}
           new == StoredV1(rows, p, date, at)
<1>1. new = IF date = Undated THEN rows ELSE IF old = {} THEN rows \cup {fresh}
            ELSE (rows \ old) \cup touched
  BY DEF StoredV1
<1>2. \A r \in old : LET s == [r EXCEPT !.last = at]
                     IN  s \in touched /\ s.page = r.page /\ s.date = r.date /\ s.first = r.first
  BY DEF StoreRows
<1>3. \A s \in touched : \E r \in old : s.page = r.page /\ s.date = r.date /\ s.first = r.first
  BY DEF StoreRows
<1>4. fresh.page = p /\ fresh.date = date /\ fresh.first = at
  OBVIOUS
<1>5. old \subseteq rows /\ \A r \in old : r.page = p /\ r.date = date
  OBVIOUS
<1>6. \A r \in rows : r.page = p /\ r.date = date => r \in old
  OBVIOUS
<1> HIDE DEF fresh, touched, old, new
<1>7. CASE date = Undated
  BY <1>1, <1>7 DEF new
<1>8. CASE date # Undated /\ old = {}
  BY <1>1, <1>4, <1>6, <1>8 DEF new
<1>9. CASE date # Undated /\ old # {}
  <2>1. new = (rows \ old) \cup touched
    BY <1>1, <1>9
  <2>2. \A r \in rows : \E s \in new : s.page = r.page /\ s.date = r.date /\ s.first = r.first
    BY <1>2, <2>1
  <2>3. \E s \in new : s.page = p /\ s.date = date
    BY <1>2, <1>5, <1>9, <2>1
  <2>4. \A s \in new : \E r \in rows : s.page = r.page /\ s.date = r.date /\ s.first = r.first
    BY <1>3, <1>5, <2>1
  <2> QED BY <2>2, <2>3, <2>4 DEF new
<1> QED BY <1>7, <1>8, <1>9 DEF new

\* Rows of the policy feed are added and never lose their first clock.
LEMMA PolicyGrows ==
    ASSUME PolicyTypeOK, \A c \in PolicyCaptures : Clocked(c), [PolicyNext]_policyVars
    PROVE  TablesGrow /\ \A c \in PolicyCaptures : CaptureGrows(c)
<1> DEFINE Goal == TablesGrow /\ \A c \in PolicyCaptures : CaptureGrows(c)
<1>m. /\ moment \in Nat /\ storeRows \subseteq StoreRows /\ eventRows \in [Pages -> EventRows]
      /\ capture \in [PolicyCaptures -> CaptureStates]
      /\ \A c \in PolicyCaptures : capture[c] \in CaptureStates
  BY DEF PolicyTypeOK
<1>s. UNCHANGED <<moment, eventRows, storeRows>> => TablesGrow
  BY <1>m DEF TablesGrow
<1>c. UNCHANGED capture => \A c \in PolicyCaptures : CaptureGrows(c)
  BY <1>m DEF CaptureGrows, Ended
<1>1. ASSUME NEW c \in PolicyCaptures, BeginPolicyCapture(c) PROVE Goal
  <2>1. capture[c] = Uncalled /\ capture[c].stage = "off"
    BY <1>1 DEF BeginPolicyCapture, Uncalled
  <2>2. \A d \in PolicyCaptures : CaptureGrows(d)
    BY <1>m, <1>1, <2>1 DEF BeginPolicyCapture, CaptureGrows, Ended, CaptureStates
  <2> QED BY <1>1, <1>s, <2>2 DEF BeginPolicyCapture
<1>2. ASSUME NEW c \in PolicyCaptures, NEW missed \in SUBSET Pages, NEW hidden \in SUBSET Pages,
             FetchSource(c, missed, hidden)
      PROVE  Goal
  <2>1. /\ capture'[c].stage = capture[c].stage /\ capture'[c].at = capture[c].at
        /\ capture'[c].shown = capture[c].shown /\ capture[c].stage = "run"
        /\ \A d \in PolicyCaptures \ {c} : capture'[d] = capture[d]
    BY <1>m, <1>2 DEF FetchSource, CaptureStates
  <2>2. \A d \in PolicyCaptures : CaptureGrows(d)
    BY <2>1 DEF CaptureGrows, Ended
  <2> QED BY <1>2, <1>s, <2>2 DEF FetchSource
<1>3. ASSUME NEW c \in PolicyCaptures, SourceFails(c) PROVE Goal
  <2>1. \A d \in PolicyCaptures : CaptureGrows(d)
    BY <1>m, <1>3 DEF SourceFails, CaptureGrows, Ended, CaptureStates
  <2> QED BY <1>3, <1>s, <2>1 DEF SourceFails
<1>4. ASSUME NEW c \in PolicyCaptures, StoreEventV1(c) PROVE Goal
  <2> DEFINE p == EventInTurn(c)
  <2>1. \A d \in PolicyCaptures : CaptureGrows(d)
    BY <1>m, <1>4 DEF StoreEventV1, Persisting, CaptureGrows, Ended, CaptureStates
  <2>2. p \in Pages /\ capture[c].found[p] \in Nat /\ capture[c].at \in Nat
    <3>1. p \in Unstored(c) /\ p \in Pages
      BY <1>m, <1>4, EventIsUnstored DEF StoreEventV1, Persisting
    <3> HIDE DEF p
    <3>2. capture[c].found \in PageDates /\ p \in DOMAIN capture[c].found
      BY <1>m, <3>1 DEF CaptureStates, Unstored
    <3> QED BY <1>m, <3>1, <3>2, PageDatesAre DEF CaptureStates
  <2>3. storeRows' = StoredV1(storeRows, p, capture[c].found[p], capture[c].at)
        /\ UNCHANGED <<moment, eventRows>>
    BY <1>4 DEF StoreEventV1
  <2> HIDE DEF p
  <2>4. TablesGrow
    BY <1>m, <2>2, <2>3, StoredV1Grows DEF TablesGrow
  <2> QED BY <2>1, <2>4
<1>5. ASSUME NEW c \in PolicyCaptures, LookUpEvent(c) PROVE Goal
  <2>1. \A d \in PolicyCaptures : CaptureGrows(d)
    BY <1>m, <1>5 DEF LookUpEvent, Persisting, CaptureGrows, Ended, CaptureStates
  <2> QED BY <1>5, <1>s, <2>1 DEF LookUpEvent
<1>6. ASSUME NEW c \in PolicyCaptures, UpsertEvent(c) PROVE Goal
  <2> DEFINE p == EventInTurn(c)
  <2>1. \A d \in PolicyCaptures : CaptureGrows(d)
    BY <1>m, <1>6 DEF UpsertEvent, Persisting, With, CaptureGrows, Ended, CaptureStates
  <2>2. p \in Pages
    BY <1>m, <1>6, EventIsUnstored DEF UpsertEvent, Persisting
  <2>3. capture[c].at > 0 /\ capture[c].at \in Nat
    BY <1>m, <1>6 DEF UpsertEvent, Persisting, Clocked, CaptureStates
  <2>4. eventRows' = [eventRows EXCEPT ![p] =
            UpsertedEvent(@, capture[c].found[p], capture[c].first, capture[c].at)]
        /\ UNCHANGED <<moment, storeRows>>
    BY <1>6 DEF UpsertEvent
  <2> HIDE DEF p
  <2>5. TablesGrow
    <3> DEFINE old == eventRows[p]
               new == UpsertedEvent(old, capture[c].found[p], capture[c].first, capture[c].at)
    <3>a. old \in EventRows
      BY <1>m, <2>2
    <3>b. new.last = capture[c].at /\ (old # NoEvent => new.first = old.first)
      BY <3>a DEF UpsertedEvent, EventRows
    <3>c. new # NoEvent
      BY <2>3, <3>b DEF NoEvent
    <3>d. eventRows' = [eventRows EXCEPT ![p] = new]
      BY <2>4
    <3> HIDE DEF new
    <3>1. \A q \in Pages : eventRows[q] # NoEvent =>
             eventRows'[q] # NoEvent /\ eventRows'[q].first = eventRows[q].first
      BY <1>m, <2>2, <3>b, <3>c, <3>d
    <3> QED BY <1>m, <2>4, <3>1 DEF TablesGrow
  <2> QED BY <2>1, <2>5
<1>7. ASSUME NEW c \in PolicyCaptures, EndPolicyCapture(c) PROVE Goal
  <2>1. \A d \in PolicyCaptures : CaptureGrows(d)
    BY <1>m, <1>7 DEF EndPolicyCapture, MayEnd, CaptureGrows, Ended, CaptureStates
  <2> QED BY <1>7, <1>s, <2>1 DEF EndPolicyCapture
<1>8. ASSUME NEW c \in PolicyCaptures, BreakPolicyCapture(c) PROVE Goal
  <2>1. \A d \in PolicyCaptures : CaptureGrows(d)
    BY <1>m, <1>8 DEF BreakPolicyCapture, CaptureGrows, Ended, CaptureStates
  <2> QED BY <1>8, <1>s, <2>1 DEF BreakPolicyCapture
<1>9. ASSUME NextMoment PROVE Goal
  <2>1. TablesGrow
    BY <1>m, <1>9 DEF NextMoment, TablesGrow
  <2> QED BY <1>9, <1>c, <2>1 DEF NextMoment
<1>10. ASSUME UNCHANGED policyVars PROVE Goal
  BY <1>10, <1>s, <1>c DEF policyVars
<1>11. ASSUME NEW p \in Pages, NEW ahead \in ClockErrors, PublishPage(p, moment + ahead) PROVE Goal
  BY <1>11, <1>s, <1>c DEF PublishPage
<1>12. ASSUME NEW p \in Pages, UpdatePage(p) PROVE Goal
  BY <1>12, <1>s, <1>c DEF UpdatePage
<1> HIDE DEF Goal
<1>13. Goal
  BY <1>1, <1>2, <1>3, <1>4, <1>5, <1>6, <1>7, <1>8, <1>9, <1>10, <1>11, <1>12
     DEF PolicyNext
<1> QED BY <1>13 DEF Goal
------------------------------------------------------------------------------
(* Policy catalysts: the inductive invariant.                               *)

\* The clock x is the first of the row of p, or the capture overlaps with the
\* one whose clock that is.
ClockOf(c, p, x) ==
    \/ x = eventRows[p].first
    \/ \E d \in PolicyCaptures \ {c} : capture[d].at = eventRows[p].first /\ Overlap(c, d)
IsIdentified(p, date) == date # Undated => \E r \in storeRows : r.page = p /\ r.date = date

Fetching(c) == capture[c].left # {} => capture[c].stage = "run" /\ DOMAIN capture[c].shown = {}
Storing(c) ==
    capture[c].stage \in {"lookup", "upsert"} =>
        /\ capture[c].left = {} /\ Unstored(c) # {}
        /\ IsIdentified(EventInTurn(c), capture[c].found[EventInTurn(c)])
Upserting(c) ==
    capture[c].stage = "upsert" =>
        IF eventRows[EventInTurn(c)] = NoEvent THEN capture[c].first = capture[c].at
        ELSE ClockOf(c, EventInTurn(c), capture[c].first)
Showing(c) ==
    \A p \in DOMAIN capture[c].shown :
        /\ p \in DOMAIN capture[c].found /\ eventRows[p] # NoEvent
        /\ ClockOf(c, p, capture[c].shown[p]) /\ IsIdentified(p, capture[c].found[p])
Complete(c) == capture[c].stage = "done" => capture[c].left = {} /\ Unstored(c) = {}
CaptureHolds(c) == Fetching(c) /\ Storing(c) /\ Upserting(c) /\ Showing(c) /\ Complete(c)

RowsAreOfPast == \A r \in storeRows : r.first <= moment

PolicyInvariant ==
    /\ PolicyTypeOK
    /\ \A c \in PolicyCaptures : Clocked(c) /\ CaptureHolds(c)
    /\ RowsAreOfPast /\ ClockIsOfFirst

\* Two captures that overlapped did so for good.
LEMMA OverlapStays ==
    ASSUME PolicyTypeOK, \A e \in PolicyCaptures : Clocked(e), [PolicyNext]_policyVars,
           NEW c \in PolicyCaptures, NEW d \in PolicyCaptures,
           capture[c].stage # "off", Overlap(c, d)
    PROVE  Overlap(c, d)'
<1>1. CaptureGrows(c) /\ CaptureGrows(d) /\ Clocked(c) /\ Clocked(d)
  BY PolicyGrows
<1>2. capture'[c].at = capture[c].at /\ capture'[d].at = capture[d].at /\ capture'[d].stage # "off"
  BY <1>1 DEF CaptureGrows, Overlap
<1>3. Ended(c)' => capture'[d].at <= capture'[c].ended
  BY <1>1, <1>2 DEF CaptureGrows, Overlap, Clocked
<1>4. Ended(d)' => capture'[c].at <= capture'[d].ended
  BY <1>1, <1>2 DEF CaptureGrows, Overlap, Clocked
<1> QED BY <1>2, <1>3, <1>4 DEF Overlap

\* The clock a capture will give a page is the same after a step.
LEMMA ClockStays ==
    ASSUME PolicyTypeOK, \A e \in PolicyCaptures : Clocked(e), [PolicyNext]_policyVars,
           NEW c \in PolicyCaptures, NEW p \in Pages, NEW x,
           capture[c].stage # "off", eventRows[p] # NoEvent, ClockOf(c, p, x)
    PROVE  ClockOf(c, p, x)'
<1>1. TablesGrow /\ \A d \in PolicyCaptures : CaptureGrows(d)
  BY PolicyGrows
<1>2. eventRows'[p].first = eventRows[p].first
  BY <1>1 DEF TablesGrow
<1>3. CASE x = eventRows[p].first
  BY <1>2, <1>3 DEF ClockOf
<1>4. ASSUME NEW d \in PolicyCaptures \ {c}, capture[d].at = eventRows[p].first, Overlap(c, d)
      PROVE  ClockOf(c, p, x)'
  <2>1. Overlap(c, d)' /\ capture[d].stage # "off"
    BY <1>4, OverlapStays DEF Overlap
  <2>2. capture'[d].at = eventRows'[p].first
    BY <1>1, <1>2, <1>4, <2>1 DEF CaptureGrows
  <2> QED BY <2>1, <2>2 DEF ClockOf
<1> QED BY <1>3, <1>4 DEF ClockOf

\* A page that is identified stays so.
LEMMA IdentityStays ==
    ASSUME TablesGrow, NEW p, NEW date, IsIdentified(p, date)
    PROVE  IsIdentified(p, date)'
BY DEF TablesGrow, IsIdentified

\* A row comes from a capture that found none and gives it its own clock.
LEMMA RowComes ==
    ASSUME PolicyInvariant, [PolicyNext]_policyVars, NEW p \in Pages,
           eventRows[p] = NoEvent, eventRows'[p] # NoEvent
    PROVE  \E d \in PolicyCaptures :
               /\ eventRows'[p].first = capture[d].at /\ capture'[d].at = capture[d].at
               /\ capture'[d].stage = "run" /\ p \in DOMAIN capture'[d].shown
<1>m. /\ eventRows \in [Pages -> EventRows] /\ capture \in [PolicyCaptures -> CaptureStates]
      /\ PolicyTypeOK
  BY DEF PolicyInvariant, PolicyTypeOK
<1>1. PICK d \in PolicyCaptures : UpsertEvent(d)
  <2>1. eventRows' # eventRows
    OBVIOUS
  <2> QED BY <2>1 DEF PolicyNext, policyVars, PublishPage, UpdatePage, BeginPolicyCapture,
          FetchSource, SourceFails, StoreEventV1, LookUpEvent, EndPolicyCapture,
          BreakPolicyCapture, NextMoment
<1> DEFINE q == EventInTurn(d)
<1>2. q \in Pages /\ capture[d].stage = "upsert"
  BY <1>m, <1>1, EventIsUnstored DEF UpsertEvent, Persisting
<1>3. eventRows' = [eventRows EXCEPT ![q] =
          UpsertedEvent(@, capture[d].found[q], capture[d].first, capture[d].at)]
      /\ capture' = [capture EXCEPT ![d].stage = "run",
                        ![d].shown = With(@, q, capture[d].first)]
  BY <1>1 DEF UpsertEvent
<1> HIDE DEF q
<1>4. p = q
  BY <1>m, <1>2, <1>3
<1>5. eventRows'[p].first = capture[d].first
  BY <1>m, <1>2, <1>3, <1>4 DEF UpsertedEvent
<1>6. capture[d].first = capture[d].at
  BY <1>2, <1>4 DEF PolicyInvariant, CaptureHolds, Upserting, q
<1>7. /\ capture'[d].at = capture[d].at /\ capture'[d].stage = "run"
      /\ capture'[d].shown = With(capture[d].shown, q, capture[d].first)
  BY <1>m, <1>3 DEF CaptureStates
<1>8. p \in DOMAIN capture'[d].shown
  BY <1>4, <1>7 DEF With
<1> QED BY <1>5, <1>6, <1>7, <1>8

\* What a capture has shown stays true of the tables.
LEMMA ShowingStays ==
    ASSUME PolicyInvariant, [PolicyNext]_policyVars, NEW c \in PolicyCaptures,
           capture[c].stage # "off", capture'[c].shown = capture[c].shown,
           capture'[c].found = capture[c].found
    PROVE  Showing(c)'
<1>1. /\ PolicyTypeOK /\ \A e \in PolicyCaptures : Clocked(e)
      /\ Showing(c) /\ capture[c].shown \in PageDates
  BY DEF PolicyInvariant, PolicyTypeOK, CaptureStates, CaptureHolds
<1>2. TablesGrow
  BY <1>1, PolicyGrows
<1>3. ASSUME NEW p \in DOMAIN capture[c].shown
      PROVE  /\ p \in DOMAIN capture'[c].found /\ eventRows'[p] # NoEvent
             /\ (ClockOf(c, p, capture[c].shown[p]))' /\ (IsIdentified(p, capture[c].found[p]))'
  <2> DEFINE x == capture[c].shown[p]
             date == capture[c].found[p]
  <2>1. /\ p \in Pages /\ p \in DOMAIN capture[c].found /\ eventRows[p] # NoEvent
        /\ ClockOf(c, p, x) /\ IsIdentified(p, date)
    BY <1>1, <1>3, PageDatesAre DEF Showing
  <2>2. eventRows'[p] # NoEvent
    BY <1>2, <2>1 DEF TablesGrow
  <2>3. \A y : y = x => ClockOf(c, p, y)'
    BY <1>1, <2>1, ClockStays
  <2>4. \A y : y = date => IsIdentified(p, y)'
    BY <1>2, <2>1, IdentityStays
  <2> QED BY <2>1, <2>2, <2>3, <2>4 DEF ClockOf, IsIdentified
<1> QED BY <1>3 DEF Showing, ClockOf, IsIdentified

\* A step that is not a capture's own leaves what is known of it.
LEMMA OthersKeep ==
    ASSUME PolicyInvariant, [PolicyNext]_policyVars, NEW c \in PolicyCaptures,
           capture'[c] = capture[c]
    PROVE  CaptureHolds(c)'
<1>1. /\ PolicyTypeOK /\ \A e \in PolicyCaptures : Clocked(e)
      /\ CaptureHolds(c)
  BY DEF PolicyInvariant
<1>2. TablesGrow
  BY <1>1, PolicyGrows
<1>3. CASE capture[c].stage = "off"
  <2>1. capture[c] = Uncalled
    BY <1>1, <1>3 DEF Clocked
  <2> QED BY <2>1 DEF CaptureHolds, Fetching, Storing, Upserting, Showing, Complete, Uncalled
<1>4. CASE capture[c].stage # "off"
  <2> DEFINE p == EventInTurn(c)
  <2>1. p' = p /\ Unstored(c)' = Unstored(c)
    BY DEF EventInTurn, Unstored
  <2>2. Showing(c)'
    BY <1>4, ShowingStays
  <2>3. Fetching(c)' /\ Complete(c)'
    BY <1>1, <2>1 DEF CaptureHolds, Fetching, Complete
  <2>4. Storing(c)'
    <3> SUFFICES ASSUME capture[c].stage \in {"lookup", "upsert"} PROVE Storing(c)'
      BY DEF Storing
    <3>1. capture[c].left = {} /\ Unstored(c) # {} /\ IsIdentified(p, capture[c].found[p])
      BY <1>1 DEF CaptureHolds, Storing
    <3> HIDE DEF p
    <3>2. \A q, date : q = p /\ date = capture[c].found[p] => IsIdentified(q, date)'
      BY <1>2, <3>1, IdentityStays
    <3>3. IsIdentified(p, capture[c].found[p])'
      BY <2>1, <3>2 DEF IsIdentified
    <3> QED BY <2>1, <3>1, <3>3 DEF Storing, p
  <2>5. Upserting(c)'
    <3> SUFFICES ASSUME capture[c].stage = "upsert" PROVE Upserting(c)'
      BY DEF Upserting
    <3>1. Unstored(c) # {}
      BY <1>1 DEF CaptureHolds, Storing
    <3>2. p \in Pages /\ p \in Unstored(c)
      BY <1>1, <3>1, EventIsUnstored
    <3>3. IF eventRows[p] = NoEvent THEN capture[c].first = capture[c].at
          ELSE ClockOf(c, p, capture[c].first)
      BY <1>1 DEF CaptureHolds, Upserting
    <3> HIDE DEF p
    <3> DEFINE Known == IF eventRows'[p] = NoEvent THEN capture[c].first = capture[c].at
                        ELSE \A q, x : q = p /\ x = capture[c].first => ClockOf(c, q, x)'
    <3>4. CASE eventRows[p] # NoEvent
      <4>1. eventRows'[p] # NoEvent
        BY <1>2, <3>2, <3>4 DEF TablesGrow
      <4>2. \A q, x : q = p /\ x = capture[c].first => ClockOf(c, q, x)'
        BY <1>1, <1>4, <3>2, <3>3, <3>4, ClockStays
      <4>3. Known
        BY <4>1, <4>2
      <4> QED BY <2>1, <4>1, <4>2 DEF Upserting, ClockOf, p
    <3>5. CASE eventRows[p] = NoEvent /\ eventRows'[p] = NoEvent
      BY <2>1, <3>3, <3>5 DEF Upserting, p
    <3>6. CASE eventRows[p] = NoEvent /\ eventRows'[p] # NoEvent
      <4>1. PICK d \in PolicyCaptures :
                /\ eventRows'[p].first = capture[d].at /\ capture'[d].at = capture[d].at
                /\ capture'[d].stage = "run" /\ p \in DOMAIN capture'[d].shown
        BY <3>2, <3>6, RowComes
      <4>2. d # c
        BY <3>2, <4>1 DEF Unstored
      <4>3. Overlap(c, d)'
        BY <4>1 DEF Overlap, Ended
      <4>4. \A q, x : q = p => ClockOf(c, q, x)'
        BY <4>1, <4>2, <4>3 DEF ClockOf
      <4> QED BY <2>1, <3>6, <4>4 DEF Upserting, ClockOf, p
    <3> QED BY <3>4, <3>5, <3>6
  <2> QED BY <2>2, <2>3, <2>4, <2>5 DEF CaptureHolds
<1> QED BY <1>3, <1>4
\* A row of the store comes from the table, or from a capture that finds none
\* of its identity.
LEMMA StoreRowComes ==
    ASSUME PolicyInvariant, [PolicyNext]_policyVars, NEW s \in storeRows'
    PROVE  \/ \E r \in storeRows : s.page = r.page /\ s.date = r.date /\ s.first = r.first
           \/ /\ s.first <= moment /\ s.date # Undated
              /\ \A r \in storeRows : ~ (r.page = s.page /\ r.date = s.date)
              /\ \A d \in PolicyCaptures : /\ capture'[d].shown = capture[d].shown
                                           /\ capture'[d].found = capture[d].found
<1>m. /\ storeRows \subseteq StoreRows /\ capture \in [PolicyCaptures -> CaptureStates]
      /\ PolicyTypeOK /\ \A c \in PolicyCaptures : Clocked(c)
  BY DEF PolicyInvariant, PolicyTypeOK
<1>1. CASE storeRows' = storeRows
  BY <1>1
<1>2. CASE storeRows' # storeRows
  <2>1. PICK c \in PolicyCaptures : StoreEventV1(c)
    BY <1>2 DEF PolicyNext, policyVars, PublishPage, UpdatePage, BeginPolicyCapture,
          FetchSource, SourceFails, UpsertEvent, LookUpEvent, EndPolicyCapture,
          BreakPolicyCapture, NextMoment
  <2> DEFINE p == EventInTurn(c)
             date == capture[c].found[p]
             at == capture[c].at
  <2>2. p \in Pages /\ date \in Nat /\ at \in Nat /\ at <= moment
    <3>1. p \in Unstored(c) /\ p \in Pages
      BY <1>m, <2>1, EventIsUnstored DEF StoreEventV1, Persisting
    <3>3. at <= moment /\ at \in Nat
      BY <1>m DEF Clocked, CaptureStates
    <3> HIDE DEF p
    <3>2. capture[c].found \in PageDates /\ p \in DOMAIN capture[c].found
      BY <1>m, <3>1 DEF CaptureStates, Unstored
    <3> QED BY <1>m, <3>1, <3>2, <3>3, PageDatesAre
  <2>3. storeRows' = StoredV1(storeRows, p, date, at)
    BY <2>1 DEF StoreEventV1
  <2>4. \A d \in PolicyCaptures : /\ capture'[d].shown = capture[d].shown
                                  /\ capture'[d].found = capture[d].found
    BY <1>m, <2>1 DEF StoreEventV1, CaptureStates
  <2> HIDE DEF p, date, at
  <2>5. \/ \E r \in storeRows : s.page = r.page /\ s.date = r.date /\ s.first = r.first
        \/ /\ s.page = p /\ s.date = date /\ s.first = at /\ date # Undated
           /\ \A r \in storeRows : ~ (r.page = p /\ r.date = date)
    BY <1>m, <2>2, <2>3, StoredV1Grows
  <2> QED BY <2>2, <2>4, <2>5
<1> QED BY <1>1, <1>2

\* Every step keeps the first clocks those of the first captures.
LEMMA FirstClocksStay ==
    ASSUME PolicyInvariant, [PolicyNext]_policyVars
    PROVE  RowsAreOfPast' /\ ClockIsOfFirst'
<1>m. /\ PolicyTypeOK /\ RowsAreOfPast /\ ClockIsOfFirst
      /\ \A c \in PolicyCaptures : Clocked(c) /\ Showing(c)
      /\ moment \in Nat /\ storeRows \subseteq StoreRows
      /\ capture \in [PolicyCaptures -> CaptureStates]
  BY DEF PolicyInvariant, PolicyTypeOK, CaptureHolds
<1>1. TablesGrow /\ \A c \in PolicyCaptures : CaptureGrows(c)
  BY <1>m, PolicyGrows
<1>2. \A r \in storeRows : r.first \in Nat
  BY <1>m DEF StoreRows
<1>3. moment' \in Nat /\ moment <= moment'
  BY <1>1, <1>m, PolicyTypeStep DEF PolicyTypeOK, TablesGrow
<1>4. RowsAreOfPast'
  <2> SUFFICES ASSUME NEW s \in storeRows' PROVE s.first <= moment'
    BY DEF RowsAreOfPast
  <2>1. s.first <= moment /\ s.first \in Nat
    <3>1. s.first \in Nat
      BY <1>m, PolicyTypeStep DEF PolicyTypeOK, StoreRows
    <3> QED BY <1>m, <3>1, StoreRowComes DEF RowsAreOfPast
  <2> QED BY <1>m, <1>3, <2>1
<1>5. ASSUME NEW p \in Pages, eventRows'[p] # NoEvent
      PROVE  \E c \in PolicyCaptures :
               /\ capture'[c].at = eventRows'[p].first /\ p \in DOMAIN capture'[c].shown
               /\ \A d \in PolicyCaptures : Ended(d)' /\ p \in DOMAIN capture'[d].shown =>
                      capture'[d].ended >= capture'[c].at
  <2>1. CASE eventRows[p] = NoEvent
    <3>1. PICK c \in PolicyCaptures :
              /\ eventRows'[p].first = capture[c].at /\ capture'[c].at = capture[c].at
              /\ capture'[c].stage = "run" /\ p \in DOMAIN capture'[c].shown
      BY <1>5, <2>1, RowComes
    <3>2. ASSUME NEW d \in PolicyCaptures, Ended(d)', p \in DOMAIN capture'[d].shown
          PROVE  capture'[d].ended >= capture'[c].at
      <4>1. ~ Ended(d)
        BY <1>1, <1>m, <2>1, <3>2 DEF CaptureGrows, Showing
      <4>2. capture'[d].ended = moment
        BY <1>1, <3>2, <4>1 DEF CaptureGrows
      <4>3. capture[c].at <= moment /\ capture[c].at \in Nat
        BY <1>m DEF Clocked, CaptureStates
      <4> QED BY <1>m, <3>1, <4>2, <4>3
    <3> QED BY <3>1, <3>2
  <2>2. CASE eventRows[p] # NoEvent
    <3>1. PICK c \in PolicyCaptures :
              /\ capture[c].at = eventRows[p].first /\ p \in DOMAIN capture[c].shown
              /\ \A d \in PolicyCaptures : Ended(d) /\ p \in DOMAIN capture[d].shown =>
                     capture[d].ended >= capture[c].at
      BY <1>m, <2>2 DEF ClockIsOfFirst
    <3>2. capture[c].stage # "off"
      BY <1>m, <3>1 DEF Clocked, Uncalled
    <3>3. capture'[c].at = eventRows'[p].first /\ p \in DOMAIN capture'[c].shown
          /\ capture'[c].at = capture[c].at
      BY <1>1, <2>2, <3>1, <3>2 DEF CaptureGrows, TablesGrow
    <3>4. ASSUME NEW d \in PolicyCaptures, Ended(d)', p \in DOMAIN capture'[d].shown
          PROVE  capture'[d].ended >= capture'[c].at
      <4>1. CASE Ended(d)
        BY <1>1, <3>1, <3>3, <3>4, <4>1 DEF CaptureGrows
      <4>2. CASE ~ Ended(d)
        <5>1. capture'[d].ended = moment
          BY <1>1, <3>4, <4>2 DEF CaptureGrows
        <5>2. capture[c].at <= moment /\ capture[c].at \in Nat
          BY <1>m DEF Clocked, CaptureStates
        <5> QED BY <1>m, <3>3, <5>1, <5>2
      <4> QED BY <4>1, <4>2
    <3> QED BY <3>3, <3>4
  <2> QED BY <2>1, <2>2
<1>6. ASSUME NEW s \in storeRows', NEW d \in PolicyCaptures, Ended(d)',
             s.page \in DOMAIN capture'[d].shown, capture'[d].found[s.page] = s.date
      PROVE  s.first <= capture'[d].ended
  <2>1. CASE \E r \in storeRows : s.page = r.page /\ s.date = r.date /\ s.first = r.first
    <3>1. PICK r \in storeRows : s.page = r.page /\ s.date = r.date /\ s.first = r.first
      BY <2>1
    <3>2. CASE Ended(d)
      BY <1>1, <1>m, <1>6, <3>1, <3>2 DEF CaptureGrows, ClockIsOfFirst
    <3>3. CASE ~ Ended(d)
      BY <1>1, <1>m, <1>6, <3>1, <3>3 DEF CaptureGrows, RowsAreOfPast
    <3> QED BY <3>2, <3>3
  <2>2. CASE /\ s.first <= moment /\ s.date # Undated
             /\ \A r \in storeRows : ~ (r.page = s.page /\ r.date = s.date)
             /\ capture'[d].shown = capture[d].shown
             /\ capture'[d].found = capture[d].found
    BY <1>m, <1>6, <2>2 DEF Showing, IsIdentified
  <2> QED BY <2>1, <2>2, StoreRowComes
<1>7. ClockIsOfFirst'
  BY <1>5, <1>6 DEF ClockIsOfFirst
<1> QED BY <1>4, <1>7
\* A capture that is off changes only by beginning.
LEMMA BeginsFirst ==
    ASSUME PolicyTypeOK, [PolicyNext]_policyVars, NEW c \in PolicyCaptures,
           capture[c].stage = "off", capture'[c] # capture[c]
    PROVE  BeginPolicyCapture(c)
<1> DEFINE Same == capture'[c] = capture[c]
<1>m. capture \in [PolicyCaptures -> CaptureStates]
  BY DEF PolicyTypeOK
<1>1. ASSUME NEW d \in PolicyCaptures, BeginPolicyCapture(d), d # c PROVE Same
  BY <1>m, <1>1 DEF BeginPolicyCapture
<1>2. ASSUME NEW d \in PolicyCaptures, NEW missed \in SUBSET Pages, NEW hidden \in SUBSET Pages,
             FetchSource(d, missed, hidden)
      PROVE  Same
  <2>1. d # c
    BY <1>2 DEF FetchSource
  <2> QED BY <1>m, <1>2, <2>1 DEF FetchSource
<1>3. ASSUME NEW d \in PolicyCaptures, SourceFails(d) PROVE Same
  BY <1>m, <1>3 DEF SourceFails
<1>4. ASSUME NEW d \in PolicyCaptures, StoreEventV1(d) \/ LookUpEvent(d) \/ UpsertEvent(d)
      PROVE  Same
  <2>1. d # c
    BY <1>4 DEF StoreEventV1, LookUpEvent, UpsertEvent, Persisting
  <2> QED BY <1>m, <1>4, <2>1 DEF StoreEventV1, LookUpEvent, UpsertEvent
<1>5. ASSUME NEW d \in PolicyCaptures, EndPolicyCapture(d) \/ BreakPolicyCapture(d) PROVE Same
  BY <1>m, <1>5 DEF EndPolicyCapture, MayEnd, BreakPolicyCapture
<1>6. UNCHANGED capture => Same
  OBVIOUS
<1>7. ~ Same
  OBVIOUS
<1> HIDE DEF Same
<1> QED
  BY <1>1, <1>2, <1>3, <1>4, <1>5, <1>6, <1>7
     DEF PolicyNext, policyVars, PublishPage, UpdatePage, NextMoment

\* Every step of the policy feed keeps its invariant.
LEMMA PolicyStep == PolicyInvariant /\ [PolicyNext]_policyVars => PolicyInvariant'
<1> SUFFICES ASSUME PolicyInvariant, [PolicyNext]_policyVars PROVE PolicyInvariant'
  OBVIOUS
<1>m. /\ PolicyTypeOK /\ \A c \in PolicyCaptures : Clocked(c) /\ CaptureHolds(c)
      /\ capture \in [PolicyCaptures -> CaptureStates] /\ moment \in Nat
      /\ \A c \in PolicyCaptures : capture[c] \in CaptureStates
      /\ storeRows \subseteq StoreRows /\ eventRows \in [Pages -> EventRows]
  BY DEF PolicyInvariant, PolicyTypeOK
<1>g. TablesGrow /\ \A c \in PolicyCaptures : CaptureGrows(c)
  BY <1>m, PolicyGrows
<1>1. PolicyTypeOK'
  BY <1>m, PolicyTypeStep
<1>2. RowsAreOfPast' /\ ClockIsOfFirst'
  BY FirstClocksStay
<1>3. ASSUME NEW c \in PolicyCaptures PROVE Clocked(c)'
  <2>1. capture'[c].at <= moment' /\ (capture'[c].stage = "off" => capture'[c] = Uncalled)
        /\ (capture'[c].stage # "off" => capture'[c].at > 0)
    <3>1. capture[c].at \in Nat /\ moment' \in Nat /\ moment <= moment'
      BY <1>m, <1>g, <1>1 DEF CaptureStates, PolicyTypeOK, TablesGrow
    <3>2. CASE capture[c].stage # "off"
      BY <1>m, <1>g, <3>1, <3>2 DEF Clocked, CaptureGrows
    <3>3. CASE capture[c].stage = "off" /\ capture'[c] = capture[c]
      BY <1>m, <3>1, <3>3 DEF Clocked
    <3>4. CASE capture[c].stage = "off" /\ capture'[c] # capture[c]
      <4>1. BeginPolicyCapture(c)
        BY <1>m, <3>4, BeginsFirst
      <4>2. capture'[c].at = moment /\ capture'[c].stage = "run"
        BY <1>m, <4>1 DEF BeginPolicyCapture, CaptureStates
      <4>3. capture[c].at = 0 /\ moment # 0
        BY <4>1 DEF BeginPolicyCapture, Uncalled
      <4> QED BY <1>m, <3>1, <4>2, <4>3
    <3> QED BY <3>2, <3>3, <3>4
  <2>2. Ended(c)' => capture'[c].at <= capture'[c].ended /\ capture'[c].ended <= moment'
    <3>0. moment' \in Nat /\ moment <= moment'
      BY <1>g, <1>1 DEF PolicyTypeOK, TablesGrow
    <3>1. CASE Ended(c)
      <4>1. capture'[c] = capture[c] /\ capture[c].at <= capture[c].ended /\ capture[c].ended <= moment
            /\ capture[c].ended \in Nat
        BY <1>g, <1>m, <3>1 DEF CaptureGrows, Clocked, CaptureStates
      <4> QED BY <1>m, <3>0, <4>1
    <3>2. CASE ~ Ended(c) /\ Ended(c)'
      <4>1. capture'[c].ended = moment
        BY <1>g, <3>2 DEF CaptureGrows
      <4>2. capture[c].stage # "off"
        <5>1. CASE capture'[c] = capture[c]
          BY <3>2, <5>1 DEF Ended
        <5>2. CASE capture'[c] # capture[c] /\ capture[c].stage = "off"
          <6>1. BeginPolicyCapture(c)
            BY <1>m, <5>2, BeginsFirst
          <6> QED BY <1>m, <3>2, <6>1 DEF BeginPolicyCapture, CaptureStates, Ended
        <5> QED BY <5>1, <5>2
      <4>3. capture'[c].at = capture[c].at /\ capture[c].at <= moment /\ capture[c].at \in Nat
        BY <1>g, <1>m, <4>2 DEF CaptureGrows, Clocked, CaptureStates
      <4> QED BY <1>m, <3>0, <4>1, <4>3
    <3> QED BY <3>1, <3>2
  <2> QED BY <2>1, <2>2 DEF Clocked
<1>4. ASSUME NEW c \in PolicyCaptures, NEW d \in PolicyCaptures, d # c,
             capture' = [capture EXCEPT ![c] = capture'[c]]
      PROVE  CaptureHolds(d)'
  <2>1. capture'[d] = capture[d]
    BY <1>m, <1>4
  <2> QED BY <2>1, OthersKeep
<1>5. ASSUME UNCHANGED capture, NEW c \in PolicyCaptures PROVE CaptureHolds(c)'
  <2>1. capture'[c] = capture[c]
    BY <1>5
  <2> QED BY <2>1, OthersKeep
<1> DEFINE Kept == \A c \in PolicyCaptures : CaptureHolds(c)'
<1>6. ASSUME NEW c \in PolicyCaptures, BeginPolicyCapture(c) PROVE Kept
  <2>1. /\ capture' = [capture EXCEPT ![c] = capture'[c]] /\ capture'[c].stage = "run"
        /\ capture'[c].shown = <<>>
    BY <1>m, <1>6 DEF BeginPolicyCapture, CaptureStates, Uncalled
  <2>2. CaptureHolds(c)'
    BY <2>1 DEF CaptureHolds, Fetching, Storing, Upserting, Showing, Complete
  <2> QED BY <1>4, <2>1, <2>2
<1>7. ASSUME NEW c \in PolicyCaptures, capture[c].stage = "run", capture[c].left # {},
             capture' = [capture EXCEPT ![c] = capture'[c]], capture'[c].stage = "run",
             capture'[c].shown = capture[c].shown
      PROVE  Kept
  <2>1. DOMAIN capture[c].shown = {}
    BY <1>m, <1>7 DEF CaptureHolds, Fetching
  <2>2. CaptureHolds(c)'
    BY <1>7, <2>1 DEF CaptureHolds, Fetching, Storing, Upserting, Showing, Complete
  <2> QED BY <1>4, <1>7, <2>2
<1>8. ASSUME NEW c \in PolicyCaptures, NEW missed \in SUBSET Pages, NEW hidden \in SUBSET Pages,
             FetchSource(c, missed, hidden)
      PROVE  Kept
  <2>1. /\ capture' = [capture EXCEPT ![c] = capture'[c]] /\ capture'[c].stage = "run"
        /\ capture'[c].shown = capture[c].shown /\ capture[c].stage = "run" /\ capture[c].left # {}
    BY <1>m, <1>8 DEF FetchSource, CaptureStates
  <2> HIDE DEF Kept
  <2> QED BY <1>7, <2>1
<1>9. ASSUME NEW c \in PolicyCaptures, SourceFails(c) PROVE Kept
  <2>1. /\ capture' = [capture EXCEPT ![c] = capture'[c]] /\ capture'[c].stage = "run"
        /\ capture'[c].shown = capture[c].shown /\ capture[c].stage = "run" /\ capture[c].left # {}
    BY <1>m, <1>9 DEF SourceFails, CaptureStates
  <2> HIDE DEF Kept
  <2> QED BY <1>7, <2>1
\* An event in turn, and what is the same after a statement that shows nothing.
<1>10. ASSUME NEW c \in PolicyCaptures, NEW stage, Persisting(c, stage),
              stage \in {"run", "lookup", "upsert"}
       PROVE  /\ EventInTurn(c) \in Pages /\ EventInTurn(c) \in Unstored(c)
              /\ capture[c].found[EventInTurn(c)] \in Nat /\ capture[c].at \in Nat
              /\ capture[c].left = {} /\ Unstored(c) # {} /\ capture[c].stage = stage
  <2> DEFINE p == EventInTurn(c)
  <2>1. p \in Pages /\ p \in Unstored(c)
    BY <1>m, <1>10, EventIsUnstored DEF Persisting
  <2> HIDE DEF p
  <2>2. capture[c].found \in PageDates /\ p \in DOMAIN capture[c].found
    BY <1>m, <2>1 DEF CaptureStates, Unstored
  <2>3. capture[c].found[p] \in Nat /\ capture[c].at \in Nat
    BY <1>m, <2>1, <2>2, PageDatesAre DEF CaptureStates
  <2> QED BY <1>10, <2>1, <2>3 DEF Persisting, p
<1>11. ASSUME NEW c \in PolicyCaptures, capture'[c].found = capture[c].found,
              capture'[c].shown = capture[c].shown
       PROVE  EventInTurn(c)' = EventInTurn(c) /\ Unstored(c)' = Unstored(c)
  BY <1>11 DEF EventInTurn, Unstored
<1>12. ASSUME NEW c \in PolicyCaptures, StoreEventV1(c) PROVE Kept
  <2> DEFINE p == EventInTurn(c)
             date == capture[c].found[p]
  <2>1. /\ capture' = [capture EXCEPT ![c] = capture'[c]] /\ capture'[c].stage = "lookup"
        /\ capture'[c].shown = capture[c].shown /\ capture'[c].found = capture[c].found
        /\ capture'[c].left = capture[c].left
    BY <1>m, <1>12 DEF StoreEventV1, CaptureStates
  <2>2. p \in Pages /\ date \in Nat /\ capture[c].at \in Nat
        /\ capture[c].left = {} /\ Unstored(c) # {} /\ capture[c].stage = "run"
    BY <1>10, <1>12 DEF StoreEventV1
  <2>3. storeRows' = StoredV1(storeRows, p, date, capture[c].at)
    BY <1>12 DEF StoreEventV1
  <2>4. p' = p /\ date' = date /\ Unstored(c)' = Unstored(c)
    BY <1>11, <2>1
  <2> HIDE DEF p, date
  <2>5. IsIdentified(p, date)'
    BY <1>m, <2>2, <2>3, <2>4, StoredV1Grows DEF IsIdentified
  <2>6. Storing(c)'
    BY <2>1, <2>2, <2>4, <2>5 DEF Storing, p, date
  <2>7. Showing(c)'
    BY <2>1, <2>2, ShowingStays
  <2>8. CaptureHolds(c)'
    BY <2>1, <2>2, <2>6, <2>7 DEF CaptureHolds, Fetching, Upserting, Complete
  <2> QED BY <1>4, <2>1, <2>8
<1>13. ASSUME NEW c \in PolicyCaptures, LookUpEvent(c) PROVE Kept
  <2> DEFINE p == EventInTurn(c)
             date == capture[c].found[p]
             first == FirstSeen(eventRows[p], capture[c].at)
  <2>1. /\ capture' = [capture EXCEPT ![c] = capture'[c]] /\ capture'[c].stage = "upsert"
        /\ capture'[c].shown = capture[c].shown /\ capture'[c].found = capture[c].found
        /\ capture'[c].left = capture[c].left /\ capture'[c].first = first
        /\ capture'[c].at = capture[c].at /\ UNCHANGED <<eventRows, storeRows>>
    BY <1>m, <1>13 DEF LookUpEvent, CaptureStates
  <2>2. p \in Pages /\ capture[c].left = {} /\ Unstored(c) # {} /\ capture[c].stage = "lookup"
    BY <1>10, <1>13 DEF LookUpEvent
  <2>3. p' = p /\ Unstored(c)' = Unstored(c)
    BY <1>11, <2>1
  <2>4. IsIdentified(p, date)
    BY <1>m, <2>2 DEF CaptureHolds, Storing
  <2> HIDE DEF p
  <2>5. Storing(c)'
    BY <2>1, <2>2, <2>3, <2>4 DEF Storing, IsIdentified, p
  <2>6. Upserting(c)'
    BY <2>1, <2>3 DEF Upserting, ClockOf, FirstSeen, p
  <2>7. Showing(c)'
    BY <2>1, <2>2, ShowingStays
  <2>8. CaptureHolds(c)'
    BY <2>1, <2>2, <2>5, <2>6, <2>7 DEF CaptureHolds, Fetching, Complete
  <2> QED BY <1>4, <2>1, <2>8
<1>14. ASSUME NEW c \in PolicyCaptures, UpsertEvent(c) PROVE Kept
  <2>0. PICK p, date, x : p = EventInTurn(c) /\ date = capture[c].found[p] /\ x = capture[c].first
    OBVIOUS
  <2>1. /\ capture' = [capture EXCEPT ![c] = capture'[c]] /\ capture'[c].stage = "run"
        /\ capture'[c].shown = With(capture[c].shown, p, x) /\ capture'[c].found = capture[c].found
        /\ capture'[c].left = capture[c].left
        /\ eventRows' = [eventRows EXCEPT ![p] = UpsertedEvent(@, date, x, capture[c].at)]
    BY <1>m, <1>14, <2>0 DEF UpsertEvent, CaptureStates
  <2>2. p \in Pages /\ p \in Unstored(c) /\ capture[c].left = {} /\ capture[c].stage = "upsert"
        /\ capture[c].at \in Nat /\ capture[c].at > 0
    <3>1. p \in Pages /\ p \in Unstored(c) /\ capture[c].left = {} /\ capture[c].stage = "upsert"
          /\ capture[c].at \in Nat
      BY <1>10, <1>14, <2>0 DEF UpsertEvent
    <3> QED BY <1>m, <3>1 DEF Clocked
  <2>3. IsIdentified(p, date)
    BY <1>m, <2>0, <2>2 DEF CaptureHolds, Storing
  <2>4. IF eventRows[p] = NoEvent THEN x = capture[c].at ELSE ClockOf(c, p, x)
    BY <1>m, <2>0, <2>2 DEF CaptureHolds, Upserting
  <2>a. Showing(c) /\ capture[c].shown \in PageDates
    BY <1>m DEF CaptureHolds, CaptureStates
  <2>b. p \in DOMAIN capture[c].found
    BY <2>2 DEF Unstored
  <2>5. eventRows'[p] # NoEvent /\ ClockOf(c, p, x)'
    <3>1. CASE eventRows[p] = NoEvent
      <4>1. eventRows'[p] = [published |-> date, first |-> x, last |-> capture[c].at, created |-> moment]
        BY <1>m, <2>1, <2>2, <3>1 DEF UpsertedEvent
      <4>2. eventRows'[p] # NoEvent
        BY <2>2, <4>1 DEF NoEvent
      <4> QED BY <4>1, <4>2 DEF ClockOf
    <3>2. CASE eventRows[p] # NoEvent
      <4>1. ClockOf(c, p, x)'
        BY <1>m, <2>2, <2>4, <3>2, ClockStays
      <4> QED BY <1>g, <2>2, <3>2, <4>1 DEF TablesGrow
    <3> QED BY <3>1, <3>2
  <2>6. IsIdentified(p, date)'
    BY <1>g, <2>3, IdentityStays
  <2>7. ASSUME NEW q \in DOMAIN capture'[c].shown, NEW y, y = capture'[c].shown[q],
               NEW z, z = capture'[c].found[q]
        PROVE  /\ q \in DOMAIN capture'[c].found /\ eventRows'[q] # NoEvent
               /\ ClockOf(c, q, y)' /\ IsIdentified(q, z)'
    <3>1. CASE q = p
      <4>1. y = x /\ z = date
        BY <2>0, <2>1, <2>7, <3>1 DEF With
      <4> QED BY <2>1, <2>5, <2>6, <2>b, <3>1, <4>1
    <3>2. CASE q # p
      <4>1. q \in DOMAIN capture[c].shown /\ capture[c].shown[q] = y /\ capture[c].found[q] = z
        BY <2>1, <2>7, <3>2 DEF With
      <4>2. q \in Pages /\ q \in DOMAIN capture[c].found /\ eventRows[q] # NoEvent
            /\ ClockOf(c, q, y) /\ IsIdentified(q, z)
        BY <2>a, <4>1, PageDatesAre DEF Showing
      <4>3. ClockOf(c, q, y)'
        BY <1>m, <2>2, <4>2, ClockStays
      <4>4. IsIdentified(q, z)'
        BY <1>g, <4>2, IdentityStays
      <4>5. eventRows'[q] # NoEvent
        BY <1>g, <4>2 DEF TablesGrow
      <4> QED BY <2>1, <4>2, <4>3, <4>4, <4>5
    <3> QED BY <3>1, <3>2
  <2>8. Showing(c)'
    BY <2>7 DEF Showing, ClockOf, IsIdentified
  <2>9. CaptureHolds(c)'
    BY <2>1, <2>2, <2>8 DEF CaptureHolds, Fetching, Storing, Upserting, Complete
  <2> QED BY <1>4, <2>1, <2>9
<1>15. ASSUME NEW c \in PolicyCaptures, EndPolicyCapture(c) PROVE Kept
  <2>1. /\ capture' = [capture EXCEPT ![c] = capture'[c]] /\ capture'[c].stage = "done"
        /\ capture'[c].shown = capture[c].shown /\ capture'[c].found = capture[c].found
        /\ capture'[c].left = capture[c].left
    BY <1>m, <1>15 DEF EndPolicyCapture, CaptureStates
  <2>2. capture[c].stage = "run" /\ capture[c].left = {} /\ Unstored(c) = {}
    BY <1>15 DEF EndPolicyCapture, MayEnd
  <2>3. Unstored(c)' = Unstored(c)
    BY <1>11, <2>1
  <2>4. Showing(c)'
    BY <2>1, <2>2, ShowingStays
  <2>5. CaptureHolds(c)'
    BY <2>1, <2>2, <2>3, <2>4 DEF CaptureHolds, Fetching, Storing, Upserting, Complete
  <2> QED BY <1>4, <2>1, <2>5
<1>16. ASSUME NEW c \in PolicyCaptures, BreakPolicyCapture(c) PROVE Kept
  <2>1. /\ capture' = [capture EXCEPT ![c] = capture'[c]] /\ capture'[c].stage = "failed"
        /\ capture'[c].shown = capture[c].shown /\ capture'[c].found = capture[c].found
        /\ capture'[c].left = capture[c].left
    BY <1>m, <1>16 DEF BreakPolicyCapture, CaptureStates
  <2>2. capture[c].stage # "off" /\ capture[c].left = {}
    BY <1>16 DEF BreakPolicyCapture
  <2>4. Showing(c)'
    BY <2>1, <2>2, ShowingStays
  <2>5. CaptureHolds(c)'
    BY <2>1, <2>2, <2>4 DEF CaptureHolds, Fetching, Storing, Upserting, Complete
  <2> QED BY <1>4, <2>1, <2>5
<1> HIDE DEF Kept
<1>17. UNCHANGED capture => Kept
  BY <1>5 DEF Kept
<1>18. Kept
  BY <1>6, <1>8, <1>9, <1>12, <1>13, <1>14, <1>15, <1>16, <1>17
     DEF PolicyNext, policyVars, PublishPage, UpdatePage, NextMoment
<1> QED BY <1>1, <1>2, <1>3, <1>18 DEF PolicyInvariant, Kept

\* The policy feed begins in its invariant.
LEMMA PolicyBegins == PolicyInit => PolicyInvariant
<1> SUFFICES ASSUME PolicyInit PROVE PolicyInvariant
  OBVIOUS
<1>1. PolicyTypeOK
  BY PolicyInitial
<1>2. ASSUME NEW c \in PolicyCaptures PROVE Clocked(c) /\ CaptureHolds(c)
  <2>1. capture[c] = Uncalled /\ moment \in Nat
    BY <1>1 DEF PolicyInit, PolicyTypeOK
  <2> QED BY <2>1 DEF Clocked, CaptureHolds, Fetching, Storing, Upserting, Showing, Complete,
          Uncalled, Ended
<1>3. RowsAreOfPast /\ ClockIsOfFirst
  BY DEF PolicyInit, RowsAreOfPast, ClockIsOfFirst
<1> QED BY <1>1, <1>2, <1>3 DEF PolicyInvariant

\* What the invariant says of the captures that are stored.
LEMMA PolicySafety == PolicyInvariant => PolicyRecordIsTrue
<1> SUFFICES ASSUME PolicyInvariant PROVE PolicyRecordIsTrue
  OBVIOUS
<1>1. ASSUME NEW c \in Done, NEW p \in DOMAIN capture[c].found
      PROVE  /\ eventRows[p] # NoEvent /\ p \in DOMAIN capture[c].shown
             /\ ClockOf(c, p, capture[c].shown[p]) /\ IsIdentified(p, capture[c].found[p])
  <2>1. c \in PolicyCaptures /\ capture[c].stage = "done"
    BY DEF Done
  <2>2. Complete(c) /\ Showing(c)
    BY <2>1 DEF PolicyInvariant, CaptureHolds
  <2>3. p \in DOMAIN capture[c].shown
    BY <2>1, <2>2 DEF Complete, Unstored
  <2> QED BY <2>2, <2>3 DEF Showing
<1>2. ASSUME NEW p, \E r \in storeRows : r.page = p PROVE StoreStatus(SourceOf[p]) # "PENDING"
  BY <1>2 DEF StoreStatus
<1>3. CaptureIsBacked
  BY <1>1, <1>2 DEF CaptureIsBacked, ClockOf, IsIdentified
<1> QED BY <1>3 DEF PolicyRecordIsTrue, PolicyInvariant

\* research_policy_catalyst_api.py: whatever captures overlap and wherever they
\* stop, a first clock is that of a capture before which none was over that had
\* stored the event, and a stored capture is backed by the tables.
THEOREM PolicyRecordIsTrueHolds == PolicySpec => []PolicyRecordIsTrue
<1>1. PolicySpec => []PolicyInvariant
  BY PolicyBegins, PolicyStep, PTL DEF PolicySpec
<1> QED BY <1>1, PolicySafety, PTL
------------------------------------------------------------------------------
(* The warnings: the type invariant.                                        *)

ContextEvents == [page : Pages, date : Nat, first : Nat]
GeoFiles == [at : Nat, metrics : GeoShapes]
GeoStates == {"UNAVAILABLE", "STALE", "BASELINE_BUILDING", "HIGH", "ELEVATED", "NORMAL"}
PolicyStates == {"UNAVAILABLE", "STALE", "ACTIVE", "NORMAL"}
Loads == [stage : {"off", "geo", "capture", "events", "build"}, asked : Nat, geo : SUBSET GeoFiles,
          latest : Nat, events : SUBSET ContextEvents, error : BOOLEAN]
Contexts == [stamp : Nat, built : Nat, geo : GeoStates, policy : PolicyStates,
             events : SUBSET ContextEvents, error : BOOLEAN]

AlertsTypeOK ==
    /\ geoFiles \subseteq GeoFiles
    /\ request \in [Requests -> Loads]
    /\ cached \in Contexts

\* A row keeps its first clock and the moment it was made, and gets a date at
\* most once; a new row is made in the present.
RowsGrow ==
    \A p \in Pages :
        IF eventRows[p] # NoEvent
        THEN /\ eventRows'[p] # NoEvent /\ eventRows'[p].first = eventRows[p].first
             /\ eventRows'[p].created = eventRows[p].created
             /\ eventRows[p].published \in {Undated, eventRows'[p].published}
        ELSE eventRows'[p] # NoEvent => eventRows'[p].created = moment

\* A step of the policy feed keeps the date and the first clock of a stored page.
LEMMA RowsGrowHolds ==
    ASSUME PolicyInvariant, [PolicyNext]_policyVars
    PROVE  RowsGrow
<1>m. /\ eventRows \in [Pages -> EventRows] /\ PolicyTypeOK /\ moment \in Nat
      /\ \A c \in PolicyCaptures : Clocked(c)
  BY DEF PolicyInvariant, PolicyTypeOK
<1>1. CASE eventRows' = eventRows
  BY <1>m, <1>1 DEF RowsGrow
<1>2. CASE eventRows' # eventRows
  <2>1. PICK d \in PolicyCaptures : UpsertEvent(d)
    BY <1>2 DEF PolicyNext, policyVars, PublishPage, UpdatePage, BeginPolicyCapture,
          FetchSource, SourceFails, StoreEventV1, LookUpEvent, EndPolicyCapture,
          BreakPolicyCapture, NextMoment
  <2>2. PICK q, date, x, at :
            eventRows' = [eventRows EXCEPT ![q] = UpsertedEvent(@, date, x, at)]
    BY <2>1 DEF UpsertEvent
  <2>3. TablesGrow
    BY <1>m, PolicyGrows
  <2>4. ASSUME NEW p \in Pages, eventRows[p] # NoEvent
        PROVE  /\ eventRows'[p].created = eventRows[p].created
               /\ eventRows[p].published \in {Undated, eventRows'[p].published}
    BY <1>m, <2>2, <2>4 DEF UpsertedEvent, EventRows
  <2>5. ASSUME NEW p \in Pages, eventRows[p] = NoEvent, eventRows'[p] # NoEvent
        PROVE  eventRows'[p].created = moment
    BY <1>m, <2>2, <2>5 DEF UpsertedEvent
  <2> QED BY <2>3, <2>4, <2>5 DEF RowsGrow, TablesGrow
<1> QED BY <1>1, <1>2

\* The rows first seen since some moment only become more.
LEMMA RecentGrows ==
    ASSUME RowsGrow, NEW now
    PROVE  RecentPages(now) \subseteq RecentPages(now)'
BY DEF RowsGrow, RecentPages

\* The recent pages are finitely many.
LEMMA RecentIsFinite ==
    ASSUME NEW now
    PROVE  /\ RecentPages(now) \subseteq Pages /\ IsFiniteSet(RecentPages(now))
           /\ \A S \in SUBSET RecentPages(now) :
                  /\ IsFiniteSet(S) /\ Cardinality(S) \in Nat
                  /\ Cardinality(RecentPages(now)) \in Nat
                  /\ Cardinality(S) <= Cardinality(RecentPages(now))
                  /\ Cardinality(S) = Cardinality(RecentPages(now)) => S = RecentPages(now)
<1>1. RecentPages(now) \subseteq Pages
  BY DEF RecentPages
<1>2. IsFiniteSet(RecentPages(now))
  BY <1>1, PolicyAssumption, FS_Subset
<1> QED BY <1>1, <1>2, FS_Subset, FS_CardinalityType

\* Every step of the alerts leaves them well typed.
LEMMA AlertsTypeStep ==
    ASSUME PolicyInvariant, AlertsTypeOK, [AlertsNext]_alertVars
    PROVE  AlertsTypeOK'
<1>m. /\ moment \in Nat /\ \A p \in Pages : eventRows[p] \in EventRows
      /\ \A c \in PolicyCaptures : capture[c] \in CaptureStates
      /\ geoFiles \subseteq GeoFiles /\ request \in [Requests -> Loads] /\ cached \in Contexts
      /\ \A r \in Requests : request[r] \in Loads
  BY DEF PolicyInvariant, PolicyTypeOK, AlertsTypeOK
<1> DEFINE Typed == AlertsTypeOK'
<1>k. UNCHANGED <<geoFiles, request, cached>> => Typed
  BY <1>m DEF AlertsTypeOK
<1>1. ASSUME NEW metrics \in GeoShapes, FeedGeo(metrics) PROVE Typed
  BY <1>m, <1>1 DEF FeedGeo, GeoFiles, AlertsTypeOK
<1>q. ASSUME NEW r \in Requests, NEW new \in Loads, request' = [request EXCEPT ![r] = new],
             UNCHANGED <<geoFiles, cached>>
      PROVE  Typed
  BY <1>m, <1>q DEF AlertsTypeOK
<1>2. ASSUME NEW r \in Requests, AskContext(r) PROVE Typed
  <2>1. [request[r] EXCEPT !.stage = "geo", !.asked = moment] \in Loads
    BY <1>m DEF Loads
  <2> HIDE DEF Typed
  <2> QED BY <1>2, <1>q, <2>1 DEF AskContext
<1>3. ASSUME NEW r \in Requests, ReadGeo(r) PROVE Typed
  <2>1. [request[r] EXCEPT !.stage = "capture", !.geo = geoFiles] \in Loads
    BY <1>m DEF Loads
  <2> HIDE DEF Typed
  <2> QED BY <1>3, <1>q, <2>1 DEF ReadGeo
<1>4. ASSUME NEW r \in Requests, ReadLatestCapture(r) PROVE Typed
  <2>1. PICK at \in IF Done = {} THEN {0} ELSE {capture[c].at : c \in LatestCapture(Done)} :
            request' = [request EXCEPT ![r].stage = "events", ![r].latest = at]
    BY <1>4 DEF ReadLatestCapture
  <2>2. at \in Nat
    BY <1>m DEF LatestCapture, Done, CaptureStates
  <2>3. [request[r] EXCEPT !.stage = "events", !.latest = at] \in Loads
    BY <1>m, <2>2 DEF Loads
  <2> HIDE DEF Typed
  <2>4. UNCHANGED <<geoFiles, cached>>
    BY <1>4 DEF ReadLatestCapture
  <2> DEFINE new == [request[r] EXCEPT !.stage = "events", !.latest = at]
  <2>5. request' = [request EXCEPT ![r] = new]
    BY <2>1
  <2> HIDE DEF new
  <2> QED BY <1>q, <2>3, <2>4, <2>5 DEF new
<1>5. ASSUME NEW r \in Requests, ReadRecentEvents(r) PROVE Typed
  <2>1. PICK S \in NewestPages(moment) :
            request' = [request EXCEPT ![r].stage = "build", ![r].events =
               {[page |-> p, date |-> eventRows[p].published, first |-> eventRows[p].first] : p \in S}]
    BY <1>5 DEF ReadRecentEvents
  <2> DEFINE E == {[page |-> p, date |-> eventRows[p].published, first |-> eventRows[p].first] : p \in S}
  <2>2. S \subseteq Pages
    BY DEF NewestPages, RecentPages
  <2>3. E \subseteq ContextEvents
    BY <1>m, <2>2 DEF ContextEvents, EventRows
  <2>4. request' = [request EXCEPT ![r].stage = "build", ![r].events = E]
    BY <2>1
  <2> HIDE DEF E
  <2>5. [request[r] EXCEPT !.stage = "build", !.events = E] \in Loads
    BY <1>m, <2>3 DEF Loads
  <2> HIDE DEF Typed
  <2>6. UNCHANGED <<geoFiles, cached>>
    BY <1>5 DEF ReadRecentEvents
  <2> DEFINE new == [request[r] EXCEPT !.stage = "build", !.events = E]
  <2>7. request' = [request EXCEPT ![r] = new]
    BY <2>4
  <2> HIDE DEF new
  <2> QED BY <1>q, <2>5, <2>6, <2>7 DEF new
<1>6. ASSUME NEW r \in Requests, LoadFails(r) PROVE Typed
  <2>1. [request[r] EXCEPT !.stage = "build", !.error = TRUE] \in Loads
    BY <1>m DEF Loads
  <2> HIDE DEF Typed
  <2> QED BY <1>6, <1>q, <2>1 DEF LoadFails
<1>7. ASSUME NEW r \in Requests, FillContext(r) PROVE Typed
  <2> DEFINE active == {e \in request[r].events : IsActive(e, moment)}
             geo == GeoState(request[r].geo, moment)
             policy == PolicyState(request[r].latest, active, moment)
             new(shown) == [stamp |-> request[r].asked, built |-> moment, geo |-> geo,
                            policy |-> policy,
                            events |-> IF request[r].latest = 0 THEN {} ELSE shown,
                            error |-> request[r].error]
  <2>1. /\ request' = [request EXCEPT ![r] = NoLoad] /\ UNCHANGED geoFiles
        /\ \E shown \in Shown(active) : cached' = new(shown)
    BY <1>7 DEF FillContext, ContextFrom, Stamp
  <2>2. geo \in GeoStates
    BY DEF GeoState, GeoStates
  <2>3. policy \in PolicyStates
    BY DEF PolicyState, PolicyStates
  <2>4. active \subseteq ContextEvents /\ request[r].asked \in Nat /\ request[r].error \in BOOLEAN
    BY <1>m DEF Loads
  <2> HIDE DEF active, geo, policy
  <2>5. \A shown \in Shown(active) : new(shown) \in Contexts
    BY <1>m, <2>2, <2>3, <2>4 DEF Contexts, Shown
  <2>6. NoLoad \in Loads
    BY DEF NoLoad, Loads
  <2> HIDE DEF new
  <2> QED BY <1>m, <2>1, <2>5, <2>6 DEF AlertsTypeOK
<1> HIDE DEF Typed
<1>8. Typed
  BY <1>k, <1>1, <1>2, <1>3, <1>4, <1>5, <1>6, <1>7 DEF AlertsNext, alertVars
<1> QED BY <1>8 DEF Typed
------------------------------------------------------------------------------
(* The warnings: the inductive invariant.                                   *)

\* An event that a load begun at asked must find.
IsDueFor(p, asked) ==
    /\ eventRows[p] # NoEvent /\ eventRows[p].created < asked
    /\ eventRows[p].first + ActiveWindow >= moment
    /\ Cardinality(RecentPages(asked)) <= RecentLimit
IsCurrent(p) ==
    eventRows[p].published = Undated \/ eventRows[p].published + ActiveWindow >= moment

\* No capture stored before asked is newer than latest.
KnowsLatest(asked, latest) ==
    \A c \in Done : capture[c].ended < asked => capture[c].at <= latest
KnowsEvents(asked, events) ==
    \A p \in Pages : IsDueFor(p, asked) =>
        \E e \in events : /\ e.page = p /\ e.first = eventRows[p].first
                          /\ e.date \in {Undated, eventRows[p].published}
Loading(r) ==
    LET load == request[r]
    IN  /\ load.asked <= moment
        /\ ~ load.error /\ load.stage \in {"events", "build"} => KnowsLatest(load.asked, load.latest)
        /\ ~ load.error /\ load.stage = "build" => KnowsEvents(load.asked, load.events)

Unfresh(context) == context.policy \in {"STALE", "UNAVAILABLE"}
SaysUnfresh(stamp) == \A c \in Done : capture[c].ended >= stamp \/ capture[c].at + PolicyMaxAge < moment
Cut(context, first) ==
    Cardinality(context.events) = VisibleLimit /\ \A e \in context.events : e.first >= first
Surfaces(context) ==
    \A p \in Pages : IsDueFor(p, context.stamp) /\ IsCurrent(p) =>
        \/ /\ context.policy = "ACTIVE"
           /\ (\E e \in context.events : e.page = p) \/ Cut(context, eventRows[p].first)
        \/ Unfresh(context)
Caching(context) ==
    /\ context.stamp <= context.built /\ context.built <= moment
    /\ \A e \in context.events : e.first + ActiveWindow >= context.built
    /\ ~ context.error => /\ Unfresh(context) => SaysUnfresh(context.stamp)
                          /\ Surfaces(context)

AlertsInvariant ==
    /\ PolicyInvariant /\ AlertsTypeOK
    /\ \A r \in Requests : Loading(r)
    /\ Caching(cached)

\* An event that is due for a load was so before the step.
LEMMA DueWas ==
    ASSUME PolicyInvariant, [PolicyNext]_policyVars, NEW p \in Pages, NEW asked \in Nat,
           asked <= moment, IsDueFor(p, asked)'
    PROVE  /\ IsDueFor(p, asked) /\ eventRows'[p].first = eventRows[p].first
           /\ eventRows[p].published \in {Undated, eventRows'[p].published}
<1>1. RowsGrow /\ moment \in Nat /\ moment' \in Nat /\ moment <= moment'
      /\ eventRows \in [Pages -> EventRows] /\ PolicyTypeOK'
  <2>1. PolicyTypeOK /\ PolicyTypeOK' /\ TablesGrow
    BY PolicyGrows, PolicyTypeStep DEF PolicyInvariant
  <2> QED BY <2>1, RowsGrowHolds DEF PolicyTypeOK, TablesGrow
<1>2. eventRows'[p] # NoEvent /\ eventRows'[p].created < asked
      /\ eventRows'[p].first + ActiveWindow >= moment'
      /\ Cardinality(RecentPages(asked)') <= RecentLimit
  BY DEF IsDueFor
<1>3. eventRows[p] # NoEvent
  BY <1>1, <1>2 DEF RowsGrow
<1>4. /\ eventRows'[p].first = eventRows[p].first
      /\ eventRows'[p].created = eventRows[p].created
      /\ eventRows[p].published \in {Undated, eventRows'[p].published}
      /\ eventRows[p].first \in Nat
  BY <1>1, <1>3 DEF RowsGrow, EventRows
<1>5. Cardinality(RecentPages(asked)) <= RecentLimit
  <2>1. RecentPages(asked) \subseteq RecentPages(asked)' /\ RecentPages(asked)' \subseteq Pages
    BY <1>1, RecentGrows DEF RecentPages
  <2>2. IsFiniteSet(RecentPages(asked)')
    BY <2>1, PolicyAssumption, FS_Subset
  <2>3. /\ Cardinality(RecentPages(asked)) <= Cardinality(RecentPages(asked)')
        /\ Cardinality(RecentPages(asked)) \in Nat /\ Cardinality(RecentPages(asked)') \in Nat
    BY <2>1, <2>2, FS_Subset, FS_CardinalityType
  <2> QED BY <1>2, <2>3, AlertAssumption
<1>6. eventRows[p].first + ActiveWindow >= moment
  BY <1>1, <1>2, <1>4, AlertAssumption
<1> QED BY <1>2, <1>3, <1>4, <1>5, <1>6 DEF IsDueFor

\* A stored capture was so before the step, or is stored in the present.
LEMMA DoneWas ==
    ASSUME PolicyInvariant, [PolicyNext]_policyVars, NEW c \in Done'
    PROVE  /\ c \in PolicyCaptures /\ moment \in Nat
           /\ (c \in Done /\ capture'[c] = capture[c]) \/ capture'[c].ended = moment
<1>1. /\ c \in PolicyCaptures /\ moment \in Nat /\ Ended(c)' /\ CaptureGrows(c)
      /\ capture'[c].stage = "done"
  <2>1. c \in PolicyCaptures /\ Ended(c)' /\ moment \in Nat /\ capture'[c].stage = "done"
    BY DEF Done, Ended, PolicyInvariant, PolicyTypeOK
  <2> QED BY <2>1, PolicyGrows DEF PolicyInvariant
<1>2. CASE Ended(c)
  <2>1. capture'[c] = capture[c]
    BY <1>1, <1>2 DEF CaptureGrows
  <2> QED BY <1>1, <2>1 DEF Done
<1>3. CASE ~ Ended(c)
  BY <1>1, <1>3 DEF CaptureGrows
<1> QED BY <1>2, <1>3

\* What a load knows does not become wrong.
LEMMA KnowledgeStays ==
    ASSUME PolicyInvariant, [PolicyNext]_policyVars, NEW asked \in Nat, asked <= moment
    PROVE  /\ \A latest : KnowsLatest(asked, latest) => KnowsLatest(asked, latest)'
           /\ \A events : KnowsEvents(asked, events) => KnowsEvents(asked, events)'
           /\ SaysUnfresh(asked) => SaysUnfresh(asked)'
<1>m. moment \in Nat /\ moment' \in Nat /\ moment <= moment'
      /\ \A c \in PolicyCaptures : capture[c].at \in Nat
  <2>1. PolicyTypeOK /\ PolicyTypeOK' /\ TablesGrow
    BY PolicyGrows, PolicyTypeStep DEF PolicyInvariant
  <2> QED BY <2>1 DEF PolicyTypeOK, TablesGrow, CaptureStates
<1>1. ASSUME NEW latest, KnowsLatest(asked, latest) PROVE KnowsLatest(asked, latest)'
  BY <1>m, <1>1, DoneWas DEF KnowsLatest
<1>2. ASSUME NEW events, KnowsEvents(asked, events) PROVE KnowsEvents(asked, events)'
  <2> SUFFICES ASSUME NEW p \in Pages, IsDueFor(p, asked)'
               PROVE  \E e \in events : /\ e.page = p /\ e.first = eventRows'[p].first
                                        /\ e.date \in {Undated, eventRows'[p].published}
    BY DEF KnowsEvents
  <2>1. /\ IsDueFor(p, asked) /\ eventRows'[p].first = eventRows[p].first
        /\ eventRows[p].published \in {Undated, eventRows'[p].published}
    BY DueWas
  <2> QED BY <1>2, <2>1 DEF KnowsEvents
<1>3. ASSUME SaysUnfresh(asked) PROVE SaysUnfresh(asked)'
  <2> SUFFICES ASSUME NEW c \in Done'
               PROVE  capture'[c].ended >= asked \/ capture'[c].at + PolicyMaxAge < moment'
    BY DEF SaysUnfresh
  <2>1. CASE c \in Done /\ capture'[c] = capture[c]
    <3>1. capture[c].at \in Nat
      BY <1>m, <2>1 DEF Done
    <3> QED BY <1>m, <1>3, <2>1, <3>1, AlertAssumption DEF SaysUnfresh
  <2>2. CASE capture'[c].ended = moment
    BY <1>m, <2>2
  <2> QED BY <2>1, <2>2, DoneWas
<1> QED BY <1>1, <1>2, <1>3

\* What a request has read stays enough while the feed goes on.
LEMMA LoadingStays ==
    ASSUME AlertsInvariant, [PolicyNext]_policyVars, NEW r \in Requests, request'[r] = request[r]
    PROVE  Loading(r)'
<1>m. /\ PolicyInvariant /\ Loading(r) /\ request[r].asked \in Nat
      /\ moment \in Nat /\ moment' \in Nat /\ moment <= moment'
  <2>1. PolicyTypeOK /\ PolicyTypeOK' /\ TablesGrow
    BY PolicyGrows, PolicyTypeStep DEF AlertsInvariant, PolicyInvariant
  <2> QED BY <2>1 DEF PolicyTypeOK, TablesGrow, AlertsInvariant, AlertsTypeOK, Loads
<1>1. PICK load : load = request[r]
  OBVIOUS
<1>2. load.asked <= moment /\ load.asked \in Nat
      /\ (~ load.error /\ load.stage \in {"events", "build"} => KnowsLatest(load.asked, load.latest))
      /\ (~ load.error /\ load.stage = "build" => KnowsEvents(load.asked, load.events))
  BY <1>m, <1>1 DEF Loading
<1>3. load.asked <= moment'
  BY <1>m, <1>2
<1>4. /\ (~ load.error /\ load.stage \in {"events", "build"} => KnowsLatest(load.asked, load.latest)')
      /\ (~ load.error /\ load.stage = "build" => KnowsEvents(load.asked, load.events)')
  BY <1>m, <1>2, KnowledgeStays
<1>5. load = request'[r]
  BY <1>1
<1> QED BY <1>3, <1>4, <1>5 DEF Loading, KnowsLatest, KnowsEvents, IsDueFor

\* What is cached stays right while the feed goes on.
LEMMA CachingStays ==
    ASSUME AlertsInvariant, [PolicyNext]_policyVars, cached' = cached
    PROVE  Caching(cached)'
<1>m. /\ PolicyInvariant /\ Caching(cached) /\ cached.stamp \in Nat /\ cached.built \in Nat
      /\ moment \in Nat /\ moment' \in Nat /\ moment <= moment'
      /\ \A p \in Pages : eventRows[p].published \in Nat
  <2>1. PolicyTypeOK /\ PolicyTypeOK' /\ TablesGrow
    BY PolicyGrows, PolicyTypeStep DEF AlertsInvariant, PolicyInvariant
  <2> QED BY <2>1
          DEF PolicyTypeOK, EventRows, TablesGrow, AlertsInvariant, AlertsTypeOK, Contexts
<1>1. PICK context : context = cached
  OBVIOUS
<1>2. /\ context.stamp <= context.built /\ context.built <= moment /\ context.stamp <= moment
      /\ context.stamp \in Nat /\ context.built \in Nat
      /\ \A e \in context.events : e.first + ActiveWindow >= context.built
      /\ ~ context.error => /\ Unfresh(context) => SaysUnfresh(context.stamp)
                            /\ Surfaces(context)
  BY <1>m, <1>1 DEF Caching
<1>3. context.built <= moment'
  BY <1>m, <1>2
<1>4. SaysUnfresh(context.stamp) => SaysUnfresh(context.stamp)'
  BY <1>m, <1>2, KnowledgeStays
<1>5. ASSUME Surfaces(context) PROVE Surfaces(context)'
  <2> SUFFICES ASSUME NEW p \in Pages, IsDueFor(p, context.stamp)', IsCurrent(p)'
               PROVE  \/ /\ context.policy = "ACTIVE"
                         /\ (\E e \in context.events : e.page = p)
                                \/ Cut(context, eventRows'[p].first)
                      \/ Unfresh(context)
    BY DEF Surfaces, Unfresh, Cut
  <2>1. /\ IsDueFor(p, context.stamp) /\ eventRows'[p].first = eventRows[p].first
        /\ eventRows[p].published \in {Undated, eventRows'[p].published}
    BY <1>m, <1>2, DueWas
  <2>2. IsCurrent(p)
    BY <1>m, <2>1, AlertAssumption DEF IsCurrent
  <2> QED BY <1>5, <2>1, <2>2 DEF Surfaces
<1>6. context = cached'
  BY <1>1
<1> QED BY <1>2, <1>3, <1>4, <1>5, <1>6
        DEF Caching, Unfresh, SaysUnfresh, Surfaces, Cut, IsDueFor, IsCurrent
\* The newest rows of the last 24 hours hold all of them if they are not too
\* many.
LEMMA NewestAreAll ==
    ASSUME NEW S \in NewestPages(moment), NEW asked \in Nat, asked <= moment, moment \in Nat,
           Cardinality(RecentPages(asked)) <= RecentLimit,
           \A p \in Pages : eventRows[p].first \in Nat
    PROVE  S = RecentPages(moment)
<1>1. RecentPages(moment) \subseteq RecentPages(asked)
  BY AlertAssumption DEF RecentPages
<1>2. /\ Cardinality(RecentPages(moment)) <= Cardinality(RecentPages(asked))
      /\ Cardinality(RecentPages(moment)) \in Nat /\ Cardinality(RecentPages(asked)) \in Nat
  BY <1>1, RecentIsFinite
<1>3. S \in SUBSET RecentPages(moment)
      /\ (S # RecentPages(moment) => Cardinality(S) = RecentLimit)
  BY DEF NewestPages
<1>4. Cardinality(S) \in Nat /\ Cardinality(S) <= Cardinality(RecentPages(moment))
      /\ (Cardinality(S) = Cardinality(RecentPages(moment)) => S = RecentPages(moment))
  BY <1>3, RecentIsFinite
<1> QED BY <1>2, <1>3, <1>4, AlertAssumption

\* Every step of feed and requests keeps the invariant of the alerts.
LEMMA AlertsStep == AlertsInvariant /\ [AlertsNext]_alertVars => AlertsInvariant'
<1> SUFFICES ASSUME AlertsInvariant, [AlertsNext]_alertVars PROVE AlertsInvariant'
  OBVIOUS
<1>p. [PolicyNext]_policyVars
  BY DEF AlertsNext, alertVars, FeedGeo, AskContext, ReadGeo, ReadLatestCapture, ReadRecentEvents,
         LoadFails, FillContext
<1>m. /\ PolicyInvariant /\ PolicyTypeOK /\ AlertsTypeOK /\ moment \in Nat
      /\ eventRows \in [Pages -> EventRows] /\ capture \in [PolicyCaptures -> CaptureStates]
      /\ request \in [Requests -> Loads] /\ \A r \in Requests : request[r] \in Loads
      /\ \A r \in Requests : Loading(r)
      /\ \A c \in PolicyCaptures : Clocked(c)
  BY DEF AlertsInvariant, PolicyInvariant, PolicyTypeOK, AlertsTypeOK
<1>1. PolicyInvariant' /\ AlertsTypeOK'
  BY <1>m, <1>p, PolicyStep, AlertsTypeStep
<1> DEFINE Loads1 == \A r \in Requests : Loading(r)'
           Caching1 == Caching(cached)'
<1>2. cached' = cached => Caching1
  BY <1>p, CachingStays
<1>3. ASSUME NEW r \in Requests, request' = [request EXCEPT ![r] = request'[r]], Loading(r)'
      PROVE  Loads1
  <2> SUFFICES ASSUME NEW q \in Requests, q # r PROVE Loading(q)'
    BY <1>3
  <2>1. request'[q] = request[q]
    BY <1>m, <1>3
  <2> QED BY <1>p, <2>1, LoadingStays
<1>4. UNCHANGED request => Loads1
  BY <1>p, LoadingStays
<1>5. ASSUME NEW r \in Requests, AskContext(r) PROVE Loads1 /\ cached' = cached
  <2>1. /\ request' = [request EXCEPT ![r] = request'[r]] /\ request'[r].stage = "geo"
        /\ request'[r].asked = moment /\ cached' = cached /\ moment' = moment
    BY <1>m, <1>5 DEF AskContext, Loads, policyVars
  <2>2. Loading(r)'
    BY <1>m, <2>1 DEF Loading
  <2> QED BY <1>3, <2>1, <2>2
<1>6. ASSUME NEW r \in Requests, ReadGeo(r) PROVE Loads1 /\ cached' = cached
  <2>1. /\ request' = [request EXCEPT ![r] = request'[r]] /\ request'[r].stage = "capture"
        /\ request'[r].asked = request[r].asked /\ cached' = cached /\ moment' = moment
    BY <1>m, <1>6 DEF ReadGeo, Loads, policyVars
  <2>2. request'[r].asked <= moment'
    BY <1>m, <2>1 DEF Loading
  <2>3. Loading(r)'
    BY <2>1, <2>2 DEF Loading
  <2> QED BY <1>3, <2>1, <2>3
<1>7. ASSUME NEW r \in Requests, ReadLatestCapture(r) PROVE Loads1 /\ cached' = cached
  <2>0. PICK asked : asked = request[r].asked
    OBVIOUS
  <2>1. PICK at \in IF Done = {} THEN {0} ELSE {capture[c].at : c \in LatestCapture(Done)} :
            request' = [request EXCEPT ![r].stage = "events", ![r].latest = at]
    BY <1>7 DEF ReadLatestCapture
  <2>2. /\ request' = [request EXCEPT ![r] = request'[r]] /\ request'[r].stage = "events"
        /\ request'[r].asked = asked /\ request'[r].latest = at
    BY <1>m, <2>0, <2>1 DEF Loads
  <2>3. cached' = cached /\ moment' = moment /\ capture' = capture
    BY <1>7 DEF ReadLatestCapture, policyVars
  <2>4. \A c \in Done : capture[c].at <= at
    BY DEF LatestCapture
  <2>5. KnowsLatest(asked, at)'
    BY <2>3, <2>4 DEF KnowsLatest, Done
  <2>6. asked <= moment'
    BY <1>m, <2>0, <2>3 DEF Loading
  <2>7. Loading(r)'
    BY <2>2, <2>5, <2>6 DEF Loading, KnowsLatest
  <2> QED BY <1>3, <2>2, <2>3, <2>7
<1>8. ASSUME NEW r \in Requests, ReadRecentEvents(r) PROVE Loads1 /\ cached' = cached
  <2>0. PICK asked, latest, error : asked = request[r].asked /\ latest = request[r].latest
                                    /\ error = request[r].error
    OBVIOUS
  <2>1. PICK S \in NewestPages(moment) :
            request' = [request EXCEPT ![r].stage = "build", ![r].events =
               {[page |-> p, date |-> eventRows[p].published, first |-> eventRows[p].first] : p \in S}]
    BY <1>8 DEF ReadRecentEvents
  <2>2. PICK events : events =
               {[page |-> p, date |-> eventRows[p].published, first |-> eventRows[p].first] : p \in S}
    OBVIOUS
  <2>3. /\ request' = [request EXCEPT ![r] = request'[r]] /\ request'[r].stage = "build"
        /\ request'[r].asked = asked /\ request'[r].latest = latest /\ request'[r].error = error
        /\ request'[r].events = events
    BY <1>m, <2>0, <2>1, <2>2 DEF Loads
  <2>4. cached' = cached /\ moment' = moment /\ capture' = capture /\ eventRows' = eventRows
    BY <1>8 DEF ReadRecentEvents, policyVars
  <2>5. asked <= moment /\ asked \in Nat /\ (~ error => KnowsLatest(asked, latest))
    <3>1. request[r].stage = "events"
      BY <1>8 DEF ReadRecentEvents
    <3> QED BY <1>m, <2>0, <3>1 DEF Loading, Loads
  <2>6. KnowsEvents(asked, events)
    <3> SUFFICES ASSUME NEW p \in Pages, IsDueFor(p, asked)
                 PROVE  \E e \in events : /\ e.page = p /\ e.first = eventRows[p].first
                                          /\ e.date \in {Undated, eventRows[p].published}
      BY DEF KnowsEvents
    <3>1. \A q \in Pages : eventRows[q].first \in Nat
      BY <1>m DEF EventRows
    <3>2. S = RecentPages(moment)
      BY <1>m, <2>5, <3>1, NewestAreAll DEF IsDueFor
    <3>3. p \in S
      <4>1. eventRows[p] # NoEvent /\ eventRows[p].first + RecentWindow >= moment
        <5>1. eventRows[p].first \in Nat /\ ActiveWindow \in Nat /\ RecentWindow \in Nat
              /\ ActiveWindow <= RecentWindow
          BY <3>1, AlertAssumption
        <5> QED BY <1>m, <5>1 DEF IsDueFor
      <4> QED BY <3>2, <4>1 DEF RecentPages
    <3> DEFINE e == [page |-> p, date |-> eventRows[p].published, first |-> eventRows[p].first]
    <3>4. e \in events
      BY <2>2, <3>3
    <3> QED BY <3>4
  <2>7. (~ error => KnowsLatest(asked, latest)') /\ KnowsEvents(asked, events)'
    BY <1>m, <1>p, <2>5, <2>6, KnowledgeStays
  <2>8. Loading(r)'
    BY <2>3, <2>4, <2>5, <2>7 DEF Loading, KnowsLatest, KnowsEvents, IsDueFor
  <2> QED BY <1>3, <2>3, <2>4, <2>8
<1>9. ASSUME NEW r \in Requests, LoadFails(r) PROVE Loads1 /\ cached' = cached
  <2>1. /\ request' = [request EXCEPT ![r] = request'[r]] /\ request'[r].error = TRUE
        /\ request'[r].asked = request[r].asked /\ cached' = cached /\ moment' = moment
    BY <1>m, <1>9 DEF LoadFails, Loads, policyVars
  <2>2. request'[r].asked <= moment'
    BY <1>m, <2>1 DEF Loading
  <2>3. Loading(r)'
    BY <2>1, <2>2 DEF Loading
  <2> QED BY <1>3, <2>1, <2>3
<1>10. ASSUME NEW r \in Requests, FillContext(r) PROVE Loads1 /\ Caching1
  <2>0. PICK load : load = request[r]
    OBVIOUS
  <2>1. PICK active, geo, policy :
            /\ active = {e \in load.events : IsActive(e, moment)}
            /\ policy = PolicyState(load.latest, active, moment)
            /\ geo = GeoState(load.geo, moment)
    OBVIOUS
  <2>2. PICK shown \in Shown(active) :
            cached' = [stamp |-> load.asked, built |-> moment, geo |-> geo, policy |-> policy,
                       events |-> IF load.latest = 0 THEN {} ELSE shown, error |-> load.error]
    BY <1>10, <2>0, <2>1 DEF FillContext, ContextFrom, Stamp
  <2>3. PICK context : context = cached'
    OBVIOUS
  <2>4. /\ context.stamp = load.asked /\ context.built = moment /\ context.policy = policy
        /\ context.events = IF load.latest = 0 THEN {} ELSE shown
        /\ context.error = load.error /\ shown \subseteq active
    BY <2>2, <2>3 DEF Shown
  <2>5. /\ load.asked <= moment /\ load.asked \in Nat /\ load.latest \in Nat
        /\ load.events \subseteq ContextEvents
        /\ ~ load.error => /\ KnowsLatest(load.asked, load.latest)
                           /\ KnowsEvents(load.asked, load.events)
    <3>1. request[r].stage = "build"
      BY <1>10 DEF FillContext
    <3> QED BY <1>m, <2>0, <3>1 DEF Loading, Loads
  <2>6. moment' = moment /\ capture' = capture /\ eventRows' = eventRows
        /\ request' = [request EXCEPT ![r] = NoLoad]
    BY <1>10 DEF FillContext, policyVars
  <2>7. \A e \in context.events : e.first + ActiveWindow >= context.built
    BY <2>1, <2>4 DEF IsActive
  <2>8. ASSUME ~ load.error, Unfresh(context) PROVE SaysUnfresh(load.asked)
    <3> SUFFICES ASSUME NEW c \in Done
                 PROVE  capture[c].ended >= load.asked \/ capture[c].at + PolicyMaxAge < moment
      BY DEF SaysUnfresh
    <3>1. c \in PolicyCaptures /\ capture[c].at \in Nat /\ capture[c].ended \in Nat
          /\ capture[c].at > 0
      BY <1>m DEF Done, Clocked, CaptureStates
    <3>2. CASE capture[c].ended < load.asked
      <4>1. capture[c].at <= load.latest
        BY <2>5, <2>8, <3>2 DEF KnowsLatest
      <4>2. load.latest # 0
        BY <3>1, <4>1
      <4>3. load.latest + PolicyMaxAge < moment
        BY <2>1, <2>4, <2>8, <4>2 DEF PolicyState, Unfresh
      <4> QED BY <1>m, <2>5, <3>1, <4>1, <4>3, AlertAssumption
    <3> QED BY <2>5, <3>1, <3>2
  <2>9. ASSUME ~ load.error PROVE Surfaces(context)
    <3> SUFFICES ASSUME NEW p \in Pages, IsDueFor(p, load.asked), IsCurrent(p), ~ Unfresh(context)
                 PROVE  /\ context.policy = "ACTIVE"
                        /\ (\E e \in context.events : e.page = p) \/ Cut(context, eventRows[p].first)
      BY <2>4 DEF Surfaces
    <3>1. PICK e \in load.events : /\ e.page = p /\ e.first = eventRows[p].first
                                   /\ e.date \in {Undated, eventRows[p].published}
      BY <2>5, <2>9 DEF KnowsEvents
    <3>2. eventRows[p].first <= moment /\ eventRows[p].first \in Nat
      <4>1. PICK c \in PolicyCaptures : capture[c].at = eventRows[p].first
        BY <1>m DEF PolicyInvariant, ClockIsOfFirst, IsDueFor
      <4> QED BY <1>m, <4>1 DEF Clocked, EventRows
    <3>3. e.first + ActiveWindow >= moment /\ e.first <= moment + MaxSkew
      BY <1>m, <3>1, <3>2, PolicyAssumption DEF IsDueFor
    <3>4. e.date = Undated \/ e.date + ActiveWindow >= moment
      BY <3>1 DEF IsCurrent
    <3>5. e \in active
      BY <2>1, <3>3, <3>4 DEF IsActive
    <3>6. load.latest # 0 /\ policy = "ACTIVE"
      BY <2>1, <2>4, <3>5 DEF PolicyState, Unfresh
    <3>7. e \notin shown => Cardinality(shown) = VisibleLimit /\ \A f \in shown : f.first >= e.first
      BY <2>2, <3>5 DEF Shown
    <3> QED BY <2>4, <3>1, <3>6, <3>7 DEF Cut
  <2>10. Caching(context)
    BY <1>m, <2>4, <2>5, <2>7, <2>8, <2>9 DEF Caching
  <2>11. Caching1
    BY <2>3, <2>6, <2>10
       DEF Caching, Unfresh, SaysUnfresh, Surfaces, Cut, IsDueFor, IsCurrent, Done, RecentPages
  <2>12. Loading(r)'
    BY <1>m, <2>6 DEF Loading, NoLoad
  <2>13. request' = [request EXCEPT ![r] = request'[r]]
    BY <1>m, <2>6
  <2> QED BY <1>3, <2>11, <2>12, <2>13
<1> HIDE DEF Loads1, Caching1
<1>11. ASSUME NEW metrics \in GeoShapes, FeedGeo(metrics) PROVE Loads1 /\ Caching1
  BY <1>2, <1>4, <1>11 DEF FeedGeo
<1>12. Loads1 /\ Caching1
  BY <1>2, <1>4, <1>5, <1>6, <1>7, <1>8, <1>9, <1>10, <1>11 DEF AlertsNext, alertVars
<1> QED BY <1>1, <1>12 DEF AlertsInvariant, Loads1, Caching1

\* The alerts begin in their invariant.
LEMMA AlertsBegin == AlertsInit => AlertsInvariant
<1> SUFFICES ASSUME AlertsInit PROVE AlertsInvariant
  OBVIOUS
<1>1. PolicyInvariant /\ moment \in Nat
  BY PolicyBegins DEF AlertsInit, PolicyInvariant, PolicyTypeOK
<1>2. NoLoad \in Loads /\ NoContext \in Contexts
  BY DEF NoLoad, Loads, NoContext, Contexts, GeoStates, PolicyStates
<1>3. AlertsTypeOK
  BY <1>2 DEF AlertsInit, AlertsTypeOK
<1>4. \A r \in Requests : Loading(r)
  BY <1>1 DEF AlertsInit, Loading, NoLoad
<1>5. Caching(cached)
  BY <1>1 DEF AlertsInit, Caching, NoContext
<1> QED BY <1>1, <1>3, <1>4, <1>5 DEF AlertsInvariant

\* A high or elevated impulse is a mandatory warning, and so is an event.
LEMMA WarningsAreMandatory ==
    ASSUME NEW context, NEW ratio \in Nat
    PROVE  /\ context.policy = "ACTIVE" => MandatoryWarning(context, ratio)
           /\ ratio >= ElevatedRatio /\ ratio # 0 => MandatoryWarning(context, ratio)
<1>1. ratio >= ElevatedRatio /\ ratio # 0 => Impulse(ratio) \in {"HIGH", "ELEVATED"}
  BY AlertAssumption DEF Impulse
<1>2. Impulse(ratio) \in {"HIGH", "ELEVATED"} =>
          WarningLevel(context.geo, Impulse(ratio)) \in {"HIGH", "ELEVATED"}
  BY DEF WarningLevel
<1> QED BY <1>1, <1>2 DEF MandatoryWarning

\* An answer of the alerts shows every page that is due.
LEMMA AlertsSafety == AlertsInvariant => FreshPolicyIsSurfaced
<1> SUFFICES ASSUME AlertsInvariant, Answering PROVE FreshPolicyIsSurfaced
  BY DEF FreshPolicyIsSurfaced
<1>m. /\ Caching(cached) /\ ~ cached.error /\ cached.stamp \in Nat /\ cached.built \in Nat
      /\ moment \in Nat /\ cached.policy \in PolicyStates /\ cached.events \subseteq ContextEvents
  BY DEF AlertsInvariant, AlertsTypeOK, Contexts, Answering, PolicyInvariant, PolicyTypeOK
<1>1. ASSUME NEW p \in Pages, Due(p)
      PROVE  \/ cached.policy = "ACTIVE" /\ IsShown(p)
             \/ cached.policy \in {"STALE", "UNAVAILABLE"}
  BY <1>m, <1>1 DEF Caching, Surfaces, Cut, IsShown, Unfresh, Due, IsDueFor, IsCurrent
<1>2. ASSUME NEW ratio \in Ratios
      PROVE  /\ cached.policy = "ACTIVE" => MandatoryWarning(cached, ratio)
             /\ ratio >= ElevatedRatio /\ ratio # 0 => MandatoryWarning(cached, ratio)
  BY WarningsAreMandatory, AlertAssumption
<1>3. cached.policy \in {"STALE", "UNAVAILABLE"} =>
          \A c \in Done : capture[c].ended >= cached.stamp
                              \/ capture[c].at + PolicyMaxAge < moment
  BY <1>m DEF Caching, Unfresh, SaysUnfresh
<1>4. ASSUME NEW e \in cached.events PROVE e.first + ActiveWindow + CacheTtl > moment
  <2>1. e.first + ActiveWindow >= cached.built /\ e.first \in Nat
        /\ cached.stamp <= cached.built /\ cached.built <= moment
    BY <1>m DEF Caching, ContextEvents
  <2>2. moment - cached.stamp < CacheTtl \/ cached.built = moment
    BY DEF Answering, Valid
  <2> QED BY <1>m, <2>1, <2>2, AlertAssumption
<1> QED BY <1>1, <1>2, <1>3, <1>4 DEF FreshPolicyIsSurfaced

\* market_context_alerts.py: whichever of the overlapping loads filled the
\* cache, and whatever captures ran meanwhile, an answer shows every due event,
\* up to its limit the newest, or says that the sources are stale, and is right when it says so.
THEOREM FreshPolicyIsSurfacedHolds == AlertsSpec => []FreshPolicyIsSurfaced
<1>1. AlertsSpec => []AlertsInvariant
  BY AlertsBegin, AlertsStep, PTL DEF AlertsSpec
<1> QED BY <1>1, AlertsSafety, PTL
------------------------------------------------------------------------------
(* The day worker: the setup that is served for a strict symbol.            *)

Analysed(f) == f = [x \in DOMAIN f |-> f[x]] /\ \A x \in DOMAIN f : f[x] \in SnapshotFields

DayScanTypeOK == Analysed(plain) /\ Analysed(enriched) /\ DOMAIN enriched = DOMAIN plain

DayScanInvariant == DayScanTypeOK /\ StrictSetupIsServed

\* A clamped number lies between its bounds.
LEMMA ClampBounds ==
    ASSUME NEW low \in Int, NEW high \in Int, low <= high, NEW n \in Int
    PROVE  Clamp(low, high, n) \in low..high
<1>1. Min({high, n}) = IF high <= n THEN high ELSE n
  BY MinOfTwo
<1>2. Min({high, n}) \in Int
  BY <1>1
<1>3. Clamp(low, high, n) = IF low >= Min({high, n}) THEN low ELSE Min({high, n})
  BY <1>2, MaxOfTwo DEF Clamp
<1> QED BY <1>1, <1>3

\* Derivatives leave a snapshot a snapshot.
LEMMA EffectIsSnapshot ==
    ASSUME NEW s \in SnapshotFields, NEW e \in DayEffects
    PROVE  WithEffect(s, e) \in SnapshotFields
<1>1. e.expansion \in Int /\ e.direction \in Int /\ e.quality \in Int
  BY DayScanAssumption
<1>2. s.expansion \in Int /\ s.direction \in Int /\ s.quality \in Int
  BY DEF SnapshotFields
<1> DEFINE a == Clamp(0, 100, s.expansion + e.expansion)
           b == Clamp(-100, 100, s.direction + e.direction)
           q == Clamp(0, 100, s.quality + e.quality)
<1>3. a \in 0..100 /\ b \in -100..100 /\ q \in 0..100
  <2>1. /\ s.expansion + e.expansion \in Int /\ s.direction + e.direction \in Int
        /\ s.quality + e.quality \in Int
    BY <1>1, <1>2
  <2>2. 0 \in Int /\ 100 \in Int /\ -100 \in Int /\ 0 <= 100 /\ -100 <= 100
    OBVIOUS
  <2>3. a \in 0..100
    BY ONLY <2>1, <2>2, ClampBounds
  <2>4. q \in 0..100
    BY ONLY <2>1, <2>2, ClampBounds
  <2>5. b \in -100..100
    BY ONLY <2>1, <2>2, ClampBounds
  <2> QED BY <2>3, <2>4, <2>5
<1>4. WithEffect(s, e) = [s EXCEPT !.expansion = a, !.direction = b, !.quality = q]
  BY DEF WithEffect
<1> HIDE DEF a, b, q
<1> QED BY <1>3, <1>4 DEF SnapshotFields

\* The side with a strict candidate has the higher score: the other one has no
\* direction in it.
LEMMA StrictSideIsAhead ==
    ASSUME NEW s \in SnapshotFields
    PROVE  /\ Strict("long", s) => SetupScore("long", s) >= SetupScore("short", s)
           /\ Strict("short", s) => SetupScore("short", s) > SetupScore("long", s)
<1> DEFINE e == s.expansion
           d == s.direction
           q == s.quality
<1>1. e \in Int /\ d \in Int /\ q \in Int
  BY DEF SnapshotFields
<1>2. SetupScore("long", s) = (35 * e + 35 * (IF d >= 0 THEN d ELSE 0) + 30 * q) \div 100
  <2>1. Max({d, 0}) = IF d >= 0 THEN d ELSE 0
    BY <1>1, MaxOfTwo
  <2> QED BY <2>1 DEF SetupScore, SideDirection
<1>3. SetupScore("short", s) = (35 * e + 35 * (IF -d >= 0 THEN -d ELSE 0) + 30 * q) \div 100
  <2>1. Max({-d, 0}) = IF -d >= 0 THEN -d ELSE 0
    BY <1>1, MaxOfTwo
  <2> QED BY <2>1 DEF SetupScore, SideDirection
<1>4. /\ Strict("long", s) => d >= 35
      /\ Strict("short", s) => -d >= 35
  BY DEF Strict, TechnicalSetup, SideDirection, MinDirection
<1> HIDE DEF e, d, q
<1>5. CASE Strict("long", s)
  <2>1. SetupScore("long", s) = (35 * e + 35 * d + 30 * q) \div 100
        /\ SetupScore("short", s) = (35 * e + 30 * q) \div 100 /\ d >= 35
    BY <1>1, <1>2, <1>3, <1>4, <1>5
  <2>2. ~ Strict("short", s)
    BY <1>1, <1>4, <2>1
  <2>3. SetupScore("long", s) >= SetupScore("short", s)
    BY <1>1, <2>1
  <2> QED BY <2>2, <2>3
<1>6. CASE Strict("short", s)
  <2>1. SetupScore("short", s) = (35 * e - 35 * d + 30 * q) \div 100
        /\ SetupScore("long", s) = (35 * e + 30 * q) \div 100 /\ -d >= 35
    BY <1>1, <1>2, <1>3, <1>4, <1>6
  <2>2. ~ Strict("long", s)
    BY <1>1, <1>4, <2>1
  <2>3. SetupScore("short", s) > SetupScore("long", s)
    BY <1>1, <2>1
  <2> QED BY <2>2, <2>3
<1> QED BY <1>5, <1>6

\* A strict candidate is the one that persist_day_results keeps for its symbol.
LEMMA StrictIsBest ==
    ASSUME Analysed(enriched), NEW c \in Candidates, c.category = "STRICT"
    PROVE  BestSetup(c.symbol) = c
<1>1. PICK x \in DOMAIN enriched, side \in DaySides : c = DayCandidate(x, side, enriched[x])
  BY DEF Candidates
<1> DEFINE s == enriched[x]
           Of(o) == DayCandidate(x, o, s)
<1>2. s \in SnapshotFields
  BY DEF Analysed
<1> HIDE DEF s
<1>3. \A o \in DaySides : /\ Of(o).symbol = x /\ Of(o).side = o /\ Of(o).score = SetupScore(o, s)
                          /\ Of(o).category = IF Strict(o, s) THEN "STRICT" ELSE "WATCH_ONLY"
  BY DEF DayCandidate
<1>4. c = Of(side) /\ Strict(side, s)
  BY <1>1, <1>3 DEF s
<1>5. \A d \in Candidates : d.symbol = x => \E o \in DaySides : d = Of(o)
  BY DEF Candidates, DayCandidate, s
<1>6. SetupScore("long", s) \in Int /\ SetupScore("short", s) \in Int
  <2>1. s.expansion \in Int /\ s.direction \in Int /\ s.quality \in Int
    BY <1>2 DEF SnapshotFields
  <2>2. Max({s.direction, 0}) \in Int /\ Max({-s.direction, 0}) \in Int
    <3>1. -s.direction \in Int
      BY <2>1
    <3> QED BY <2>1, <3>1, MaxOfTwo
  <2> QED BY <2>1, <2>2 DEF SetupScore, SideDirection
<1> HIDE DEF Of
<1> DEFINE Best(e) == /\ e.symbol = c.symbol
                      /\ \A d \in Candidates : d.symbol = c.symbol =>
                             e.score > d.score \/ (e.score = d.score /\ (e.side = "long" \/ d.side = "short"))
<1>7. c.symbol = x /\ c.side = side /\ c.score = SetupScore(side, s)
  BY <1>3, <1>4
<1>8. Best(c)
  <2> SUFFICES ASSUME NEW d \in Candidates, d.symbol = x
               PROVE  c.score > d.score \/ (c.score = d.score /\ (c.side = "long" \/ d.side = "short"))
    BY <1>7
  <2>1. PICK o \in DaySides : d = Of(o)
    BY <1>5
  <2>2. d.side = o /\ d.score = SetupScore(o, s)
    BY <1>3, <2>1
  <2> QED BY <1>2, <1>4, <1>6, <1>7, <2>2, StrictSideIsAhead DEF DaySides
<1>9. ASSUME NEW e \in Candidates, Best(e)
      PROVE  e = c
  <2>1. PICK o \in DaySides : e = Of(o)
    BY <1>5, <1>7, <1>9
  <2>2. e.side = o /\ e.score = SetupScore(o, s)
    BY <1>3, <2>1
  <2>3. e.score > c.score \/ (e.score = c.score /\ (e.side = "long" \/ c.side = "short"))
    BY <1>9
  <2>4. o = side
    BY <1>2, <1>4, <1>6, <1>7, <2>2, <2>3, StrictSideIsAhead DEF DaySides
  <2> QED BY <1>4, <2>1, <2>4
<1>10. BestSetup(c.symbol) = CHOOSE e \in Candidates : Best(e)
  BY DEF BestSetup
<1> HIDE DEF Best
<1> QED BY <1>8, <1>9, <1>10

\* Every step of the day scan keeps its invariant.
LEMMA DayScanStep == DayScanInvariant /\ [ScanNext]_scanVars => DayScanInvariant'
<1> SUFFICES ASSUME DayScanInvariant, [ScanNext]_scanVars PROVE DayScanInvariant'
  OBVIOUS
<1> USE DEF DayScanInvariant, DayScanTypeOK
<1>n. Analysed(Nothing)
  BY DEF Analysed, Nothing
<1>k. UNCHANGED <<plain, enriched, scan, setups>> => DayScanInvariant'
  BY DEF StrictSetupIsServed, Analysed
<1>1. ASSUME BeginDay PROVE DayScanInvariant'
  BY <1>1, <1>n DEF BeginDay, StrictSetupIsServed, Analysed
<1>2. ASSUME RetryFast \/ SelectDeep \/ EnrichFails PROVE DayScanInvariant'
  BY <1>2, <1>k DEF RetryFast, SelectDeep, EnrichFails
<1>3. ASSUME AnalyseDay PROVE DayScanInvariant'
  <2>1. PICK analysed \in SUBSET deep :
            plain' \in [analysed -> {[s EXCEPT !.shortable = FALSE] : s \in DayAnalyses}]
    BY <1>3 DEF AnalyseDay
  <2>2. \A s \in DayAnalyses : [s EXCEPT !.shortable = FALSE] \in SnapshotFields
    <3>1. \A s \in SnapshotFields : [s EXCEPT !.shortable = FALSE] \in SnapshotFields
      BY DEF SnapshotFields
    <3> QED BY <3>1, DayScanAssumption
  <2>3. Analysed(plain')
    BY <2>1, <2>2 DEF Analysed
  <2>4. enriched' = plain' /\ UNCHANGED <<scan, setups>>
    BY <1>3 DEF AnalyseDay
  <2> QED BY <2>3, <2>4 DEF StrictSetupIsServed, Analysed
<1>4. ASSUME Enrich PROVE DayScanInvariant'
  <2>1. PICK matched : \E effect \in [matched -> DayEffects] :
              enriched' = [symbol \in DOMAIN plain |->
                              IF symbol \in matched THEN WithEffect(plain[symbol], effect[symbol])
                              ELSE plain[symbol]]
    BY <1>4 DEF Enrich
  <2>2. PICK effect \in [matched -> DayEffects] :
              enriched' = [symbol \in DOMAIN plain |->
                              IF symbol \in matched THEN WithEffect(plain[symbol], effect[symbol])
                              ELSE plain[symbol]]
    BY <2>1
  <2>3. \A x \in DOMAIN plain : plain[x] \in SnapshotFields
    BY DEF Analysed
  <2>4. \A x \in DOMAIN plain : x \in matched => WithEffect(plain[x], effect[x]) \in SnapshotFields
    BY <2>3, EffectIsSnapshot
  <2>5. Analysed(enriched') /\ DOMAIN enriched' = DOMAIN plain
    BY <2>2, <2>3, <2>4 DEF Analysed
  <2>6. UNCHANGED <<plain, scan, setups>>
    BY <1>4 DEF Enrich
  <2> QED BY <2>5, <2>6 DEF StrictSetupIsServed, Analysed
<1>5. ASSUME Borrow PROVE DayScanInvariant'
  <2>1. PICK borrowable \in SUBSET DOMAIN plain :
          /\ plain' = [symbol \in DOMAIN plain |-> [plain[symbol] EXCEPT !.shortable = symbol \in borrowable]]
          /\ enriched' = [symbol \in DOMAIN plain |-> [enriched[symbol] EXCEPT !.shortable = symbol \in borrowable]]
    BY <1>5 DEF Borrow
  <2>2. \A b \in BOOLEAN : \A s \in SnapshotFields : [s EXCEPT !.shortable = b] \in SnapshotFields
    BY DEF SnapshotFields
  <2>3. \A x \in DOMAIN plain : plain[x] \in SnapshotFields /\ enriched[x] \in SnapshotFields
    BY DEF Analysed
  <2> DEFINE can(x) == x \in borrowable
  <2>c. \A x : can(x) \in BOOLEAN
    BY SMT
  <2>d. /\ plain' = [symbol \in DOMAIN plain |-> [plain[symbol] EXCEPT !.shortable = can(symbol)]]
        /\ enriched' = [symbol \in DOMAIN plain |-> [enriched[symbol] EXCEPT !.shortable = can(symbol)]]
    BY <2>1, Zenon
  <2> HIDE DEF can
  <2>4. \A x \in DOMAIN plain : /\ [plain[x] EXCEPT !.shortable = can(x)] \in SnapshotFields
                                /\ [enriched[x] EXCEPT !.shortable = can(x)] \in SnapshotFields
    BY <2>2, <2>3, <2>c
  <2>5. Analysed(plain') /\ Analysed(enriched') /\ DOMAIN enriched' = DOMAIN plain'
    BY <2>d, <2>4 DEF Analysed
  <2>6. UNCHANGED <<scan, setups>>
    BY <1>5 DEF Borrow
  <2> QED BY <2>5, <2>6 DEF StrictSetupIsServed, Analysed
<1>6. ASSUME SaveDay PROVE DayScanInvariant'
  <2>1. PICK longs \in TopOf(DayListed("long", "STRICT"), OutputLimit, ByScore),
             shorts \in TopOf(DayListed("short", "STRICT"), OutputLimit, ByScore) :
            scan'.longs = longs /\ scan'.shorts = shorts
    BY <1>6 DEF SaveDay
  <2>2. \A c \in longs \cup shorts : c \in Candidates /\ c.category = "STRICT"
    BY <2>1 DEF TopOf, kSubset, DayListed
  <2>3. setups' = [symbol \in DOMAIN setups \cup {c.symbol : c \in Candidates} |->
                     IF \E c \in Candidates : c.symbol = symbol THEN BestSetup(symbol) ELSE setups[symbol]]
    BY <1>6 DEF SaveDay
  <2>4. StrictSetupIsServed'
    BY <2>1, <2>2, <2>3, StrictIsBest DEF StrictSetupIsServed
  <2>5. plain' = Nothing /\ enriched' = Nothing
    BY <1>6 DEF SaveDay
  <2> QED BY <1>n, <2>4, <2>5 DEF Analysed
<1>7. ASSUME Die PROVE DayScanInvariant'
  BY <1>7, <1>n DEF Die, StrictSetupIsServed, Analysed
<1>8. ASSUME UNCHANGED scanVars PROVE DayScanInvariant'
  BY <1>8, <1>k DEF scanVars
<1> QED BY <1>1, <1>2, <1>3, <1>4, <1>5, <1>6, <1>7, <1>8 DEF ScanNext

\* persist_day_results: whatever passes failed and whatever Coinalyze added,
\* the setup served for a listed strict candidate is that candidate.
THEOREM StrictSetupIsServedHolds == ScanSpec => []StrictSetupIsServed
<1>1. ScanInit => DayScanInvariant
  BY DEF ScanInit, DayScanInvariant, DayScanTypeOK, StrictSetupIsServed, Analysed, Nothing, NoDayScan
<1>2. DayScanInvariant => StrictSetupIsServed
  BY DEF DayScanInvariant
<1> QED BY <1>1, <1>2, DayScanStep, PTL DEF ScanSpec
-----------------------------------------------------------------------------
(* The swing worker and the answer of GET /v1/top-candidates.               *)

Shaped == UNION {[S -> SwingShapes] : S \in SUBSET SwingSymbols}
Drafts ==
    [shape : Shaped, shortable : SUBSET SwingSymbols, targets : SUBSET SwingSymbols,
     derivatives : [SwingSymbols -> SUBSET Fields], errors : BOOLEAN]

SwingTypeOK ==
    /\ swingAt \in {"idle", "borrow", "target", "enrich", "commit"}
    /\ passes \in Nat
    /\ draft \in Drafts
    /\ \/ swingScan = NoScan
       \/ swingScan \in [asOf : Nat \ {0}, d : Drafts]
    /\ reply \in [asOf : Nat, limit : Nat, shown : SUBSET SwingSymbols, joined : Nat]

\* The pass that runs is later than the cached scan, and that no older than the
\* answer.
PassesInOrder ==
    /\ reply.asOf <= swingScan.asOf
    /\ swingScan.asOf <= passes
    /\ swingAt # "idle" => swingScan.asOf < passes

PriorityIsTargeted(d) == PrioritySymbols(d) \subseteq d.targets

SwingInvariant ==
    /\ SwingTypeOK
    /\ PassesInOrder
    /\ swingAt \in {"enrich", "commit"} => PriorityIsTargeted(draft)
    /\ swingScan # NoScan => PriorityIsTargeted(swingScan.d)
    /\ swingScan # NoScan /\ reply.asOf = swingScan.asOf /\ reply.limit <= CompactLimit =>
           reply.shown \subseteq PrioritySymbols(swingScan.d)

\* The lists of a pass are made of its shapes and the coins that can be borrowed.
LEMMA PriorityOfLists ==
    ASSUME NEW d, NEW e, d.shape = e.shape, d.shortable = e.shortable
    PROVE  PrioritySymbols(d) = PrioritySymbols(e)
<1>1. \A s, side : SideExecutable(d, s, side) <=> SideExecutable(e, s, side)
  BY DEF SideExecutable
<1>2. \A s, t : Better(d, s, t) <=> Better(e, s, t)
  BY DEF Better
<1>3. \A s, t : WatchBefore(d, s, t) <=> WatchBefore(e, s, t)
  BY <1>2 DEF WatchBefore
<1>4. \A s, t : ShownBefore(d, s, t) <=> ShownBefore(e, s, t)
  BY <1>3 DEF ShownBefore
<1>5. \A side : Listed(d, side) = Listed(e, side)
  <2> TAKE side
  <2> DEFINE A == {s \in DOMAIN d.shape : SideExecutable(d, s, side)}
  <2>1. A = {s \in DOMAIN e.shape : SideExecutable(e, s, side)}
    BY <1>1
  <2> HIDE DEF A
  <2>2. \A x : {y \in A : Better(d, y, x)} = {y \in A : Better(e, y, x)}
    BY <1>2
  <2>3. Listed(d, side) = {x \in A : Cardinality({y \in A : Better(d, y, x)}) < ScanLimit}
    BY DEF Listed, FirstOf, A
  <2>4. Listed(e, side) = {x \in A : Cardinality({y \in A : Better(e, y, x)}) < ScanLimit}
    BY <2>1 DEF Listed, FirstOf
  <2> QED BY <2>2, <2>3, <2>4
<1>6. Watched(d) = Watched(e)
  <2> DEFINE A == DOMAIN d.shape \ Executables(d)
  <2>1. Executables(d) = Executables(e)
    BY <1>1 DEF Executables
  <2>2. A = DOMAIN e.shape \ Executables(e)
    BY <2>1
  <2> HIDE DEF A
  <2>3. \A x : {y \in A : WatchBefore(d, y, x)} = {y \in A : WatchBefore(e, y, x)}
    BY <1>3
  <2>4. Watched(d) = {x \in A : Cardinality({y \in A : WatchBefore(d, y, x)}) < WatchLimit}
                         \cup {s \in A : ~d.shape[s].tradeable}
    BY DEF Watched, FirstOf, A
  <2>5. Watched(e) = {x \in A : Cardinality({y \in A : WatchBefore(e, y, x)}) < WatchLimit}
                         \cup {s \in A : ~e.shape[s].tradeable}
    BY <2>2 DEF Watched, FirstOf
  <2> QED BY <2>3, <2>4, <2>5
<1>7. \A side : StrictOnes(d, side) = StrictOnes(e, side)
  BY <1>5 DEF StrictOnes
<1>8. \A side : WatchOnes(d, side) = WatchOnes(e, side)
  BY <1>6, <1>7 DEF WatchOnes
<1> DEFINE Section(f, side) ==
        {x \in StrictOnes(f, side) :
            Cardinality({y \in StrictOnes(f, side) : Better(f, y, x)}) < CompactLimit}
        \cup {x \in WatchOnes(f, side) :
            Cardinality({y \in WatchOnes(f, side) : ShownBefore(f, y, x)}) < CompactLimit}
<1>9. PrioritySymbols(d) = UNION {Section(d, side) : side \in Sides}
  BY DEF PrioritySymbols, FirstOf
<1>10. PrioritySymbols(e) = UNION {Section(e, side) : side \in Sides}
  BY DEF PrioritySymbols, FirstOf
<1>11. ASSUME NEW side \in Sides PROVE Section(d, side) = Section(e, side)
  <2>1. \A x : {y \in StrictOnes(d, side) : Better(d, y, x)} = {y \in StrictOnes(e, side) : Better(e, y, x)}
    BY <1>2, <1>7
  <2>2. \A x : {y \in WatchOnes(d, side) : ShownBefore(d, y, x)}
                   = {y \in WatchOnes(e, side) : ShownBefore(e, y, x)}
    BY <1>4, <1>8
  <2> QED BY <1>7, <1>8, <2>1, <2>2
<1> HIDE DEF Section
<1> QED BY <1>9, <1>10, <1>11

\* What the API ranks first of a scan is what its worker made room for.
LEMMA SurfacedIsPriority ==
    ASSUME NEW d \in Drafts, NEW limit \in Nat, limit <= CompactLimit, NEW withWatch \in BOOLEAN
    PROVE  Surfaced(d, limit, withWatch) \subseteq PrioritySymbols(d)
<1> DEFINE Firsts(n, side) ==
        {x \in StrictOnes(d, side) :
            Cardinality({y \in StrictOnes(d, side) : Better(d, y, x)}) < n}
           Watches(n, side) ==
        {x \in WatchOnes(d, side) :
            Cardinality({y \in WatchOnes(d, side) : ShownBefore(d, y, x)}) < n}
<1>1. \A x \in Surfaced(d, limit, withWatch) :
          \E side \in Sides : x \in Firsts(limit, side) \/ x \in Watches(limit, side)
  BY DEF Surfaced, FirstOf, Sides
<1>2. PrioritySymbols(d) = UNION {Firsts(CompactLimit, side) \cup Watches(CompactLimit, side) : side \in Sides}
  BY DEF PrioritySymbols, FirstOf
<1>3. DOMAIN d.shape \subseteq SwingSymbols
  BY DEF Drafts, Shaped
<1>4. ASSUME NEW side PROVE StrictOnes(d, side) \subseteq SwingSymbols /\ WatchOnes(d, side) \subseteq SwingSymbols
  <2>1. Listed(d, side) \subseteq DOMAIN d.shape
    BY DEF Listed, FirstOf
  <2>2. Watched(d) \subseteq DOMAIN d.shape
    BY DEF Watched, FirstOf
  <2> QED BY <1>3, <2>1, <2>2 DEF StrictOnes, WatchOnes
<1>5. \A S : S \subseteq SwingSymbols => Cardinality(S) \in Nat
  BY FS_Subset, FS_CardinalityType, SwingAssumption
<1>6. limit \in Nat /\ CompactLimit \in Nat
  BY SwingAssumption
<1>7. ASSUME NEW side PROVE Firsts(limit, side) \subseteq Firsts(CompactLimit, side)
  <2>1. \A x : Cardinality({y \in StrictOnes(d, side) : Better(d, y, x)}) \in Nat
    <3> TAKE x
    <3>1. {y \in StrictOnes(d, side) : Better(d, y, x)} \subseteq SwingSymbols
      BY <1>4
    <3> QED BY <1>5, <3>1
  <2> QED BY <1>6, <2>1
<1>8. ASSUME NEW side PROVE Watches(limit, side) \subseteq Watches(CompactLimit, side)
  <2>1. \A x : Cardinality({y \in WatchOnes(d, side) : ShownBefore(d, y, x)}) \in Nat
    <3> TAKE x
    <3>1. {y \in WatchOnes(d, side) : ShownBefore(d, y, x)} \subseteq SwingSymbols
      BY <1>4
    <3> QED BY <1>5, <3>1
  <2> QED BY <1>6, <2>1
<1> HIDE DEF Firsts, Watches
<1> QED BY <1>1, <1>2, <1>7, <1>8
\* The swing worker begins in its invariant.
LEMMA SwingBegin == SwingInit => SwingInvariant
<1> SUFFICES ASSUME SwingInit PROVE SwingInvariant
  OBVIOUS
<1>1. EmptyDraft \in Drafts
  <2>1. <<>> \in Shaped
    <3>1. {} \in SUBSET SwingSymbols /\ <<>> \in [{} -> SwingShapes]
      OBVIOUS
    <3> QED BY <3>1 DEF Shaped
  <2> QED BY <2>1 DEF EmptyDraft, Drafts, NoDerivatives
<1>2. SwingTypeOK
  BY <1>1 DEF SwingInit, SwingTypeOK, NoReply
<1> QED BY <1>2 DEF SwingInit, SwingInvariant, PassesInOrder, NoScan, NoReply

\* Every step of worker and clients keeps the invariant of the swing scan.
LEMMA SwingStep == SwingInvariant /\ [SwingNext]_swingVars => SwingInvariant'
<1> SUFFICES ASSUME SwingInvariant, [SwingNext]_swingVars PROVE SwingInvariant'
  OBVIOUS
<1> USE DEF SwingInvariant
<1>e. EmptyDraft \in Drafts
  <2>1. <<>> \in Shaped
    <3>1. {} \in SUBSET SwingSymbols /\ <<>> \in [{} -> SwingShapes]
      OBVIOUS
    <3> QED BY <3>1 DEF Shaped
  <2> QED BY <2>1 DEF EmptyDraft, Drafts, NoDerivatives
\* A step of the pass that leaves the scan and the answer alone.
<1>k. ASSUME UNCHANGED <<swingScan, reply>>, passes' \in Nat, passes' >= passes, draft' \in Drafts,
             swingAt' \in {"idle", "borrow", "target", "enrich", "commit"},
             swingAt' # "idle" => swingAt # "idle" \/ passes' > passes,
             swingAt' \in {"enrich", "commit"} => PriorityIsTargeted(draft')
      PROVE  SwingInvariant'
  <2>1. SwingTypeOK'
    BY <1>k DEF SwingTypeOK
  <2>2. swingScan.asOf \in Nat /\ passes \in Nat /\ reply.asOf \in Nat
    BY DEF SwingTypeOK, NoScan
  <2>3. PassesInOrder'
    BY <1>k, <2>2 DEF PassesInOrder
  <2> QED BY <1>k, <2>1, <2>3 DEF PriorityIsTargeted
<1>1. ASSUME Analyse PROVE SwingInvariant'
  <2>1. PICK analysed \in SUBSET SwingSymbols, shape \in UNION {[S -> SwingShapes] : S \in SUBSET SwingSymbols} :
            /\ draft' = [EmptyDraft EXCEPT !.shape = shape]
            /\ swingAt' = IF analysed = {} THEN "idle" ELSE "borrow"
    BY <1>1 DEF Analyse
  <2>2. draft' \in Drafts
    BY <1>e, <2>1 DEF Drafts, Shaped
  <2>3. passes \in Nat /\ passes' = passes + 1 /\ UNCHANGED <<swingScan, reply>>
    BY <1>1 DEF Analyse, SwingTypeOK
  <2> QED BY <1>k, <2>1, <2>2, <2>3
<1>2. ASSUME ApplyShortability PROVE SwingInvariant'
  <2>1. DOMAIN draft.shape \subseteq SwingSymbols
    BY DEF SwingTypeOK, Drafts, Shaped
  <2>2. PICK known \in BOOLEAN :
            draft' = [draft EXCEPT !.shortable = {s \in DOMAIN draft.shape : known /\ draft.shape[s].borrow}]
    BY <1>2 DEF ApplyShortability
  <2>3. {s \in DOMAIN draft.shape : known /\ draft.shape[s].borrow} \in SUBSET SwingSymbols
    BY <2>1
  <2>4. draft' \in Drafts
    BY <2>2, <2>3 DEF SwingTypeOK, Drafts
  <2>5. /\ swingAt = "borrow" /\ swingAt' = "target" /\ UNCHANGED <<passes, swingScan, reply>>
        /\ passes \in Nat
    BY <1>2 DEF ApplyShortability, SwingTypeOK
  <2> QED BY <1>k, <2>4, <2>5
<1>3. ASSUME SelectTargets PROVE SwingInvariant'
  <2>0. /\ swingAt = "target" /\ UNCHANGED <<passes, swingScan, reply>>
        /\ passes \in Nat /\ draft \in Drafts
    BY <1>3 DEF SelectTargets, SwingTypeOK
  <2>1. ASSUME swingAt' = "idle", UNCHANGED draft PROVE SwingInvariant'
    BY <1>k, <2>0, <2>1
  <2>2. ASSUME NEW room,
               draft' = [draft EXCEPT !.targets =
                    PrioritySymbols(draft) \cup
                        Secondary(draft, room, DOMAIN draft.shape \ PrioritySymbols(draft))],
               swingAt' = "enrich"
        PROVE  SwingInvariant'
    <3> DEFINE more == Secondary(draft, room, DOMAIN draft.shape \ PrioritySymbols(draft))
    <3>1. DOMAIN draft.shape \subseteq SwingSymbols
      BY <2>0 DEF Drafts, Shaped
    <3>2. more \subseteq DOMAIN draft.shape
      BY DEF Secondary, FirstOf
    <3>3. PrioritySymbols(draft) \subseteq DOMAIN draft.shape
      <4>1. \A side : Listed(draft, side) \subseteq DOMAIN draft.shape
        BY DEF Listed, FirstOf
      <4>2. Watched(draft) \subseteq DOMAIN draft.shape
        BY DEF Watched, FirstOf
      <4>3. \A side : StrictOnes(draft, side) \subseteq DOMAIN draft.shape
                          /\ WatchOnes(draft, side) \subseteq DOMAIN draft.shape
        BY <4>1, <4>2 DEF StrictOnes, WatchOnes
      <4> QED BY <4>3 DEF PrioritySymbols, FirstOf
    <3> HIDE DEF more
    <3>4. draft' = [draft EXCEPT !.targets = PrioritySymbols(draft) \cup more]
      BY <2>2 DEF more
    <3>5. PrioritySymbols(draft) \cup more \in SUBSET SwingSymbols
      BY <3>1, <3>2, <3>3
    <3>6. draft' \in Drafts
      BY <2>0, <3>4, <3>5 DEF Drafts
    <3>7. draft'.shape = draft.shape /\ draft'.shortable = draft.shortable
          /\ draft'.targets = PrioritySymbols(draft) \cup more
      BY <2>0, <3>4 DEF Drafts
    <3>8. PriorityIsTargeted(draft')
      <4>1. PrioritySymbols(draft') = PrioritySymbols(draft)
        BY <3>7, PriorityOfLists
      <4> QED BY <3>7, <4>1 DEF PriorityIsTargeted
    <3> QED BY <1>k, <2>0, <2>2, <3>6, <3>8
  <2> QED BY <1>3, <2>1, <2>2 DEF SelectTargets
<1>4. ASSUME EnrichSwing PROVE SwingInvariant'
  <2>1. PICK failed \in SUBSET Fields, nameless \in BOOLEAN :
            \E answers \in [draft.targets -> SUBSET (Fields \ failed)] :
                draft' = [draft EXCEPT
                    !.derivatives = [s \in SwingSymbols |-> IF s \in draft.targets THEN answers[s] ELSE {}],
                    !.errors = failed # {} \/ nameless]
    BY <1>4 DEF EnrichSwing
  <2>2. PICK answers \in [draft.targets -> SUBSET (Fields \ failed)] :
                draft' = [draft EXCEPT
                    !.derivatives = [s \in SwingSymbols |-> IF s \in draft.targets THEN answers[s] ELSE {}],
                    !.errors = failed # {} \/ nameless]
    BY <2>1
  <2> DEFINE all == [s \in SwingSymbols |-> IF s \in draft.targets THEN answers[s] ELSE {}]
             wrong == failed # {} \/ nameless
  <2>3. all \in [SwingSymbols -> SUBSET Fields] /\ wrong \in BOOLEAN
    OBVIOUS
  <2>4. draft' = [draft EXCEPT !.derivatives = all, !.errors = wrong]
    BY <2>2, Zenon
  <2> HIDE DEF all, wrong
  <2>5. /\ swingAt = "enrich" /\ swingAt' = "commit" /\ UNCHANGED <<passes, swingScan, reply>>
        /\ passes \in Nat /\ draft \in Drafts
    BY <1>4 DEF EnrichSwing, SwingTypeOK
  <2>6. draft' \in Drafts
    BY <2>3, <2>4, <2>5 DEF Drafts
  <2>7. draft'.shape = draft.shape /\ draft'.shortable = draft.shortable /\ draft'.targets = draft.targets
    BY <2>4, <2>5 DEF Drafts
  <2>8. PriorityIsTargeted(draft')
    <3>1. PrioritySymbols(draft') = PrioritySymbols(draft)
      BY <2>7, PriorityOfLists
    <3> QED BY <2>5, <2>7, <3>1 DEF PriorityIsTargeted
  <2> QED BY <1>k, <2>5, <2>6, <2>8
<1>5. ASSUME CommitScan PROVE SwingInvariant'
  <2>1. /\ swingAt = "commit" /\ swingAt' = "idle" /\ draft' = EmptyDraft
        /\ UNCHANGED <<passes, reply>> /\ passes \in Nat /\ draft \in Drafts
        /\ swingScan' = [asOf |-> passes, d |-> draft]
    BY <1>5 DEF CommitScan, SwingTypeOK
  <2>2. swingScan.asOf \in Nat /\ reply.asOf \in Nat
    BY DEF SwingTypeOK, NoScan
  <2>3. reply.asOf < passes /\ passes # 0
    BY <2>1, <2>2 DEF PassesInOrder
  <2>4. swingScan'.asOf = passes /\ swingScan'.d = draft /\ swingScan' \in [asOf : Nat \ {0}, d : Drafts]
    BY <2>1, <2>3
  <2>5. SwingTypeOK'
    BY <1>e, <2>1, <2>4 DEF SwingTypeOK
  <2>6. PassesInOrder'
    BY <2>1, <2>2, <2>3, <2>4 DEF PassesInOrder
  <2> QED BY <2>1, <2>2, <2>3, <2>4, <2>5, <2>6 DEF PriorityIsTargeted
<1>6. ASSUME AbortPass PROVE SwingInvariant'
  <2>1. /\ swingAt' = "idle" /\ draft' = EmptyDraft /\ UNCHANGED <<passes, swingScan, reply>>
        /\ passes \in Nat
    BY <1>6 DEF AbortPass, SwingTypeOK
  <2> QED BY <1>e, <1>k, <2>1
<1>7. ASSUME RankCandidates PROVE SwingInvariant'
  <2>1. PICK limit \in 1..AnswerLimit, withWatch \in BOOLEAN :
            reply' = [asOf |-> swingScan.asOf, limit |-> limit, joined |-> 0,
                      shown |-> Surfaced(swingScan.d, limit, withWatch)]
    BY <1>7 DEF RankCandidates
  <2>2. UNCHANGED <<swingAt, passes, draft, swingScan>> /\ swingScan # NoScan
    BY <1>7 DEF RankCandidates, HasScan
  <2>3. swingScan.asOf \in Nat /\ swingScan.d \in Drafts
    BY <2>2 DEF SwingTypeOK
  <2>4. limit \in Nat
    BY SwingAssumption
  <2>5. Surfaced(swingScan.d, limit, withWatch) \subseteq SwingSymbols
    <3> DEFINE d == swingScan.d
    <3>0. DOMAIN d.shape \subseteq SwingSymbols
      BY <2>3 DEF Drafts, Shaped
    <3> HIDE DEF d
    <3>1. \A side : Listed(d, side) \subseteq DOMAIN d.shape
      BY DEF Listed, FirstOf
    <3>2. Watched(d) \subseteq DOMAIN d.shape
      BY DEF Watched, FirstOf
    <3>3. \A side : StrictOnes(d, side) \subseteq SwingSymbols /\ WatchOnes(d, side) \subseteq SwingSymbols
      BY <3>0, <3>1, <3>2 DEF StrictOnes, WatchOnes
    <3>4. Surfaced(d, limit, withWatch) \subseteq SwingSymbols
      BY <3>3 DEF Surfaced, FirstOf
    <3> QED BY <3>4 DEF d
  <2>6. reply'.asOf = swingScan.asOf /\ reply'.limit = limit
        /\ reply'.shown = Surfaced(swingScan.d, limit, withWatch)
        /\ reply' \in [asOf : Nat, limit : Nat, shown : SUBSET SwingSymbols, joined : Nat]
    BY <2>1, <2>3, <2>4, <2>5
  <2>7. SwingTypeOK' /\ PassesInOrder'
    BY <2>2, <2>3, <2>6 DEF SwingTypeOK, PassesInOrder
  <2>8. reply'.limit <= CompactLimit => reply'.shown \subseteq PrioritySymbols(swingScan.d)
    BY <2>3, <2>4, <2>6, SurfacedIsPriority
  <2> QED BY <2>2, <2>7, <2>8 DEF PriorityIsTargeted
<1>8. ASSUME AttachDerivatives PROVE SwingInvariant'
  <2>1. /\ reply' = [reply EXCEPT !.joined = reply'.joined] /\ reply'.joined \in Nat
        /\ UNCHANGED <<swingAt, passes, draft, swingScan>>
    <3>1. \E n : reply' = [reply EXCEPT !.joined = n] /\ n \in Nat
      BY <1>8 DEF AttachDerivatives, SwingTypeOK, NoScan
    <3> QED BY <1>8, <3>1 DEF AttachDerivatives, SwingTypeOK
  <2>2. reply'.asOf = reply.asOf /\ reply'.limit = reply.limit /\ reply'.shown = reply.shown
        /\ reply' \in [asOf : Nat, limit : Nat, shown : SUBSET SwingSymbols, joined : Nat]
    BY <2>1 DEF SwingTypeOK
  <2> QED BY <2>1, <2>2 DEF SwingTypeOK, PassesInOrder, PriorityIsTargeted
<1>9. ASSUME UNCHANGED swingVars PROVE SwingInvariant'
  BY <1>9 DEF swingVars, SwingTypeOK, PassesInOrder, PriorityIsTargeted
<1> QED BY <1>1, <1>2, <1>3, <1>4, <1>5, <1>6, <1>7, <1>8, <1>9 DEF SwingNext

\* select_compact_priority_sections and top-candidates: what an answer up to the
\* compact limit shows was given a share of the budget, for any universe,
\* shapes, limits and passes, whatever failed and was committed in between.
THEOREM AnswerIsCoveredHolds == SwingSpec => []AnswerIsCovered
<1>1. SwingInvariant => AnswerIsCovered
  BY DEF SwingInvariant, AnswerIsCovered, HasScan, PriorityIsTargeted, SourceOk, GoodDerivatives
<1> QED BY <1>1, SwingBegin, SwingStep, PTL DEF SwingSpec
-----------------------------------------------------------------------------
(* The captures of the swing trial.                                         *)

Scans == [at : Nat, build : Nat]
Gatherings ==
    [at : Nat, step : {"away", "collect", "version", "verify", "post", "begun", "written"},
     pre : Scans, scan : Scans, full : BOOLEAN, api : Nat, worker : Nat, start : Nat]
SnapshotRows ==
    [at : Nat, inserted : Nat, full : BOOLEAN, sha : Nat, worker : Nat, origin : Nat]
Milestones == [recorded : Nat, by : Nat, evidence : SUBSET Nat]

CaptureTypeOK ==
    /\ hour \in Nat
    /\ builds \in [{"api", "worker"} -> Nat]
    /\ latestScan \in Scans
    /\ collector \in [Collectors -> Gatherings]
    /\ captures \subseteq SnapshotRows /\ IsFiniteSet(captures)
    /\ milestones \in Seq(Milestones)
    /\ writer \in Collectors \cup {Nobody}

\* Scan x was published before y, or is y.
Older(x, y) == x.at <= y.at /\ x.build <= y.build /\ (x.at = y.at => x = y)

\* What a collector has read is in the order in which it read it.
ReadsInOrder(s, latest) ==
    /\ s.step = "collect" => Older(s.pre, latest)
    /\ s.step \in {"version", "verify"} => Older(s.pre, s.scan) /\ Older(s.scan, latest)
    /\ s.step \in {"away", "collect", "version", "verify"} => s.worker = 0
    /\ s.worker # 0 => s.worker = s.scan.build

LineageInv ==
    /\ latestScan.build <= builds["worker"]
    /\ \A c \in Collectors : ReadsInOrder(collector[c], latestScan)
    /\ LineageIsTrue

\* One transaction at a time writes, and its capture is in the table.
OneWriter ==
    /\ \A c \in Collectors : collector[c].step = "written" <=> writer = c
    /\ writer # Nobody => SnapshotRow(writer) \in captures
    /\ \A r, s \in captures : r.at = s.at => r = s

\* The first two milestones follow the first captures at once, so that no
\* committed capture is newer than a milestone it could have earned.
SecondIsOwn ==
    /\ Len(milestones) = 0 => Committed = {}
    /\ Len(milestones) = 1 => \A r \in Committed : r.inserted <= milestones[1].recorded
    /\ Len(milestones) >= 2 =>
           milestones[2].evidence \subseteq
               {r.at : r \in {s \in Committed : s.inserted <= milestones[2].recorded}}

CaptureInvariant ==
    CaptureTypeOK /\ LineageInv /\ OneWriter /\ CaptureIsWhole /\ SecondIsOwn /\ MilestonesAreEarned

\* Two statuses of one build around a scan, or one with its time, name its build.
LEMMA WorkerBuildIsOrigin ==
    ASSUME NEW pre \in Scans, NEW scan0 \in Scans, NEW post \in Scans,
           Older(pre, scan0), Older(scan0, post)
    PROVE  WorkerBuild(pre, scan0, post) \in {0, scan0.build}
<1> DEFINE exact == {s.build : s \in {x \in {pre, post} : x.at = scan0.at}}
<1>1. \A b \in exact : b = scan0.build
  BY DEF Older
<1>2. pre.build = post.build /\ pre.at <= scan0.at /\ scan0.at <= post.at => pre.build = scan0.build
  BY DEF Older, Scans
<1>3. WorkerBuild(pre, scan0, post) =
          IF exact # {}
          THEN IF Cardinality(exact) = 1 THEN CHOOSE b \in exact : TRUE ELSE 0
          ELSE IF pre.build = post.build /\ pre.at <= scan0.at /\ scan0.at <= post.at
               THEN pre.build ELSE 0
  BY DEF WorkerBuild
<1>4. exact # {} => (CHOOSE b \in exact : TRUE) \in exact
  OBVIOUS
<1> HIDE DEF exact
<1> QED BY <1>1, <1>2, <1>3, <1>4

\* The order of the scans is transitive.
LEMMA OlderIsKept ==
    ASSUME NEW x \in Scans, NEW y \in Scans, NEW z \in Scans, Older(x, y), Older(y, z)
    PROVE  Older(x, z)
BY DEF Older, Scans

\* What a collector does before its transaction writes leaves the tables alone.
LEMMA TablesStay ==
    ASSUME OneWriter, CaptureIsWhole, SecondIsOwn, MilestonesAreEarned,
           CaptureTypeOK, UNCHANGED <<captures, observed, milestones, writer>>,
           \A d \in Collectors : /\ collector'[d].step = "written" <=> collector[d].step = "written"
                                 /\ collector[d].step = "written" => collector'[d] = collector[d]
    PROVE  OneWriter' /\ CaptureIsWhole' /\ SecondIsOwn' /\ MilestonesAreEarned'
<1>1. writer # Nobody => collector'[writer] = collector[writer]
  BY DEF OneWriter, CaptureTypeOK
<1>2. Committed' = Committed
  BY <1>1 DEF Committed
<1>3. OneWriter'
  BY <1>1 DEF OneWriter, SnapshotRow
<1> QED BY <1>2, <1>3 DEF CaptureIsWhole, SecondIsOwn, MilestonesAreEarned

\* The capture of the swing trial begins in its invariant.
LEMMA CaptureBegins == CaptureStart => CaptureInvariant
<1> SUFFICES ASSUME CaptureStart PROVE CaptureInvariant
  OBVIOUS
<1>1. Away \in Gatherings
  BY DEF Away, Unknown, Gatherings, Scans
<1>2. CaptureTypeOK
  BY <1>1, FS_EmptySet DEF CaptureStart, CaptureTypeOK, Scans
<1>3. LineageInv
  BY DEF CaptureStart, LineageInv, ReadsInOrder, LineageIsTrue, Away
<1>4. OneWriter
  BY NobodyAssumption DEF CaptureStart, OneWriter, Away
<1>5. CaptureIsWhole /\ SecondIsOwn /\ MilestonesAreEarned
  BY DEF CaptureStart, CaptureIsWhole, SecondIsOwn, MilestonesAreEarned, Committed
<1> QED BY <1>2, <1>3, <1>4, <1>5 DEF CaptureInvariant
\* A step of a collector outside of its write.
LEMMA CollectorMoves ==
    ASSUME CaptureInvariant, NEW c \in Collectors, NEW s \in Gatherings,
           collector' = [collector EXCEPT ![c] = s],
           collector[c].step # "written", s.step # "written", ReadsInOrder(s, latestScan),
           UNCHANGED <<hour, builds, latestScan, captures, observed, milestones, writer>>
    PROVE  CaptureInvariant'
<1> USE DEF CaptureInvariant
<1>1. collector'[c] = s /\ \A d \in Collectors : d # c => collector'[d] = collector[d]
  BY DEF CaptureTypeOK
<1>2. CaptureTypeOK'
  BY DEF CaptureTypeOK
<1>3. LineageInv'
  BY <1>1 DEF LineageInv, LineageIsTrue
<1>4. \A d \in Collectors : /\ collector'[d].step = "written" <=> collector[d].step = "written"
                            /\ collector[d].step = "written" => collector'[d] = collector[d]
  BY <1>1
<1>5. OneWriter' /\ CaptureIsWhole' /\ SecondIsOwn' /\ MilestonesAreEarned'
  BY <1>4, TablesStay
<1> QED BY <1>2, <1>3, <1>5

\* A collector that is away has read nothing out of order.
LEMMA AwayIsInOrder == Away \in Gatherings /\ ReadsInOrder(Away, latestScan) /\ Away.step = "away"
                           /\ Away.worker = 0
BY DEF Away, Unknown, Gatherings, Scans, ReadsInOrder

\* The steps of a collector up to its transaction.
LEMMA GatherStep ==
    ASSUME CaptureInvariant, NEW c \in Collectors,
           \/ ObserveWorker(c) \/ ReadVersion(c) \/ VerifyLineage(c) \/ BeginPost(c) \/ GiveUpCapture(c)
           \/ \E full \in BOOLEAN : CollectSnapshot(c, full)
    PROVE  CaptureInvariant'
<1> DEFINE s == collector[c]
<1>t. /\ s \in Gatherings /\ latestScan \in Scans /\ hour \in Nat /\ builds["api"] \in Nat
      /\ ReadsInOrder(s, latestScan)
  BY DEF CaptureInvariant, CaptureTypeOK, LineageInv
<1>1. ASSUME ObserveWorker(c) PROVE CaptureInvariant'
  <2> DEFINE r == [Away EXCEPT !.step = "collect", !.pre = latestScan]
  <2>1. /\ r \in Gatherings /\ r.step = "collect" /\ r.pre = latestScan /\ r.worker = 0
    BY <1>t DEF Away, Unknown, Gatherings, Scans
  <2>2. /\ collector' = [collector EXCEPT ![c] = r] /\ s = Away
        /\ UNCHANGED <<hour, builds, latestScan, captures, observed, milestones, writer>>
    BY <1>1 DEF ObserveWorker, Gathers
  <2> HIDE DEF r
  <2>3. ReadsInOrder(r, latestScan)
    BY <1>t, <2>1 DEF ReadsInOrder, Older, Scans
  <2> QED BY <2>1, <2>2, <2>3, AwayIsInOrder, CollectorMoves
<1>2. ASSUME NEW full \in BOOLEAN, CollectSnapshot(c, full) PROVE CaptureInvariant'
  <2> DEFINE next == IF c \in Guarded THEN "version" ELSE "post"
             r == [s EXCEPT !.at = hour, !.scan = latestScan, !.full = full, !.step = next]
  <2>0. s.step \in {"collect", "away"} /\ (s.step = "away" => s = Away)
    BY <1>2, AwayIsInOrder DEF CollectSnapshot
  <2>1. next \in {"version", "post"} /\ (next = "version" => s.step = "collect")
    BY <1>2 DEF CollectSnapshot
  <2>2. /\ collector' = [collector EXCEPT ![c] = r]
        /\ UNCHANGED <<hour, builds, latestScan, captures, observed, milestones, writer>>
    BY <1>2 DEF CollectSnapshot, Gathers
  <2> HIDE DEF next
  <2>3. /\ r \in Gatherings /\ r.step = next /\ r.pre = s.pre /\ r.scan = latestScan
        /\ r.worker = s.worker
    BY <1>t, <2>1 DEF Gatherings
  <2> HIDE DEF r, s
  <2>4. ReadsInOrder(r, latestScan)
    BY <1>t, <2>0, <2>1, <2>3 DEF ReadsInOrder, Older, Scans
  <2> QED BY <2>0, <2>1, <2>2, <2>3, <2>4, CollectorMoves DEF s
<1>3. ASSUME ReadVersion(c) PROVE CaptureInvariant'
  <2> DEFINE r == [s EXCEPT !.api = builds.api, !.step = "verify"]
  <2>1. /\ collector' = [collector EXCEPT ![c] = r] /\ s.step = "version"
        /\ UNCHANGED <<hour, builds, latestScan, captures, observed, milestones, writer>>
    BY <1>3 DEF ReadVersion, Gathers
  <2>2. /\ r \in Gatherings /\ r.step = "verify" /\ r.pre = s.pre /\ r.scan = s.scan
        /\ r.worker = s.worker
    BY <1>t DEF Gatherings
  <2> HIDE DEF r, s
  <2>3. ReadsInOrder(r, latestScan)
    BY <1>t, <2>1, <2>2 DEF ReadsInOrder
  <2> QED BY <2>1, <2>2, <2>3, CollectorMoves DEF s
<1>4. ASSUME VerifyLineage(c) PROVE CaptureInvariant'
  <2> DEFINE worker == WorkerBuild(s.pre, s.scan, latestScan)
             r == [s EXCEPT !.worker = worker, !.step = "post"]
  <2>1. /\ collector' = [collector EXCEPT ![c] = IF worker # 0 /\ worker = s.api THEN r ELSE Away]
        /\ s.step = "verify"
        /\ UNCHANGED <<hour, builds, latestScan, captures, observed, milestones, writer>>
    BY <1>4 DEF VerifyLineage, Gathers
  <2>2. worker \in {0, s.scan.build}
    <3>1. s.pre \in Scans /\ s.scan \in Scans
      BY <1>t DEF Gatherings
    <3>2. Older(s.pre, s.scan) /\ Older(s.scan, latestScan)
      BY <1>t, <2>1 DEF ReadsInOrder
    <3> QED BY <1>t, <3>1, <3>2, WorkerBuildIsOrigin
  <2> HIDE DEF worker
  <2>9. worker \in Nat
    <3>1. s.scan.build \in Nat
      BY <1>t DEF Gatherings, Scans
    <3> QED BY <2>2, <3>1
  <2>3. /\ r \in Gatherings /\ r.step = "post" /\ r.scan = s.scan /\ r.worker = worker
    BY <1>t, <2>9 DEF Gatherings
  <2> HIDE DEF r, s
  <2>4. ReadsInOrder(r, latestScan)
    BY <2>2, <2>3 DEF ReadsInOrder
  <2>5. CASE worker # 0 /\ worker = s.api
    BY <2>1, <2>3, <2>4, <2>5, CollectorMoves DEF s
  <2>6. CASE ~ (worker # 0 /\ worker = s.api)
    BY <2>1, <2>6, AwayIsInOrder, CollectorMoves DEF s
  <2> QED BY <2>5, <2>6
<1>5. ASSUME BeginPost(c) PROVE CaptureInvariant'
  <2> DEFINE r == [s EXCEPT !.start = hour, !.api = builds.api, !.step = "begun"]
  <2>1. /\ collector' = [collector EXCEPT ![c] = r] /\ s.step = "post"
        /\ UNCHANGED <<hour, builds, latestScan, captures, observed, milestones, writer>>
    BY <1>5 DEF BeginPost, Gathers
  <2>2. /\ r \in Gatherings /\ r.step = "begun" /\ r.pre = s.pre /\ r.scan = s.scan
        /\ r.worker = s.worker
    BY <1>t DEF Gatherings
  <2> HIDE DEF r, s
  <2>3. ReadsInOrder(r, latestScan)
    BY <1>t, <2>2 DEF ReadsInOrder
  <2> QED BY <2>1, <2>2, <2>3, CollectorMoves DEF s
<1>6. ASSUME GiveUpCapture(c) PROVE CaptureInvariant'
  BY <1>6, AwayIsInOrder, CollectorMoves DEF GiveUpCapture, Gathers
<1> HIDE DEF s
<1> QED BY <1>1, <1>2, <1>3, <1>4, <1>5, <1>6

\* The clock, the worker and deployments.
LEMMA AroundStep ==
    ASSUME CaptureInvariant, HourPasses \/ PublishScan \/ \E service \in {"api", "worker"} : Deploy(service)
    PROVE  CaptureInvariant'
<1> USE DEF CaptureInvariant
<1>0. UNCHANGED <<collector, captures, observed, milestones, writer>>
  BY DEF HourPasses, PublishScan, Deploy
<1>1. OneWriter' /\ CaptureIsWhole' /\ SecondIsOwn' /\ MilestonesAreEarned'
  BY <1>0, TablesStay
<1>2. CaptureTypeOK' /\ builds'["worker"] >= builds["worker"]
  BY <1>0 DEF CaptureTypeOK, HourPasses, PublishScan, Deploy, Scans
<1>3. ASSUME PublishScan PROVE LineageInv'
  <2>1. /\ latestScan' = [at |-> hour, build |-> builds["worker"]] /\ latestScan.at < hour
        /\ builds' = builds
    BY <1>3 DEF PublishScan
  <2>2. Older(latestScan, latestScan') /\ latestScan \in Scans /\ latestScan' \in Scans
    BY <1>2, <2>1 DEF LineageInv, CaptureTypeOK, Older, Scans
  <2>3. ASSUME NEW c \in Collectors PROVE ReadsInOrder(collector[c], latestScan')
    <3>1. collector[c].pre \in Scans /\ collector[c].scan \in Scans
          /\ ReadsInOrder(collector[c], latestScan)
      BY DEF CaptureTypeOK, Gatherings, LineageInv
    <3> QED BY <2>2, <3>1, OlderIsKept DEF ReadsInOrder
  <2>4. latestScan'.build <= builds'["worker"]
    BY <2>1 DEF CaptureTypeOK
  <2> QED BY <1>0, <2>3, <2>4 DEF LineageInv, LineageIsTrue
<1>4. ASSUME latestScan' = latestScan PROVE LineageInv'
  BY <1>0, <1>2, <1>4 DEF LineageInv, LineageIsTrue, CaptureTypeOK, Scans
<1> QED BY <1>1, <1>2, <1>3, <1>4 DEF HourPasses, Deploy
\* The transaction writes: the capture is in the table, and not yet committed.
LEMMA WriteStep ==
    ASSUME CaptureInvariant, NEW c \in Collectors, WriteCapture(c)
    PROVE  CaptureInvariant'
<1> USE DEF CaptureInvariant
<1> DEFINE s == collector[c]
           own == SnapshotRow(c)
<1>t. /\ s \in Gatherings /\ ReadsInOrder(s, latestScan) /\ captures \subseteq SnapshotRows
      /\ IsFiniteSet(captures)
  BY DEF CaptureTypeOK, LineageInv
<1>0. /\ s.step = "begun" /\ writer = Nobody
      /\ UNCHANGED <<hour, builds, latestScan, milestones>>
  BY DEF WriteCapture
<1>1. ASSUME \E r \in captures : r.at = s.at PROVE CaptureInvariant'
  <2>1. /\ collector' = [collector EXCEPT ![c] = Away]
        /\ UNCHANGED <<hour, builds, latestScan, captures, observed, milestones, writer>>
    BY <1>1 DEF WriteCapture, Gathers
  <2> QED BY <1>0, <2>1, AwayIsInOrder, CollectorMoves
<1>2. ASSUME \A r \in captures : r.at # s.at PROVE CaptureInvariant'
  <2> DEFINE w == [s EXCEPT !.step = "written"]
  <2>1. /\ collector' = [collector EXCEPT ![c] = w]
        /\ captures' = captures \cup {own} /\ observed' = observed \cup {s.at} /\ writer' = c
    BY <1>2 DEF WriteCapture, Gathers
  <2>2. /\ w \in Gatherings /\ w.step = "written" /\ w.at = s.at /\ w.start = s.start
        /\ w.full = s.full /\ w.api = s.api /\ w.worker = s.worker /\ w.scan = s.scan
    BY <1>t DEF Gatherings
  <2> HIDE DEF w
  <2>3. collector'[c] = w /\ \A d \in Collectors : d # c => collector'[d] = collector[d]
    BY <2>1 DEF CaptureTypeOK
  <2>4. /\ own \in SnapshotRows /\ own.at = s.at /\ own.worker = s.worker /\ own.origin = s.scan.build
        /\ own = SnapshotRow(writer)'
    BY <1>t, <2>1, <2>2, <2>3 DEF SnapshotRow, Gatherings, Scans, SnapshotRows
  <2> HIDE DEF own
  <2>5. Committed' = Committed
    BY <1>0, <1>2, <2>1, <2>2, <2>3, <2>4, NobodyAssumption DEF Committed
  <2>6. CaptureTypeOK'
    <3>1. IsFiniteSet(captures')
      BY <1>t, <2>1, FS_AddElement
    <3> QED BY <1>0, <2>1, <2>2, <2>4, <3>1 DEF CaptureTypeOK
  <2>7. LineageInv'
    <3>1. ReadsInOrder(w, latestScan)
      BY <1>t, <2>2 DEF ReadsInOrder
    <3>2. own.worker # 0 => own.worker = own.origin
      BY <1>t, <2>4 DEF ReadsInOrder
    <3> QED BY <1>0, <2>1, <2>3, <3>1, <3>2 DEF LineageInv, LineageIsTrue
  <2>8. OneWriter'
    <3>1. \A d \in Collectors : collector'[d].step = "written" <=> writer' = d
      BY <1>0, <2>1, <2>2, <2>3, NobodyAssumption DEF OneWriter
    <3>2. \A r, q \in captures' : r.at = q.at => r = q
      BY <1>2, <2>1, <2>4 DEF OneWriter
    <3> QED BY <2>1, <2>4, <3>1, <3>2 DEF OneWriter
  <2>9. CaptureIsWhole'
    <3>1. observed' = {r.at : r \in captures'}
      BY <2>1, <2>4 DEF CaptureIsWhole
    <3> QED BY <1>0, <2>5, <3>1 DEF CaptureIsWhole
  <2> QED BY <1>0, <2>5, <2>6, <2>7, <2>8, <2>9 DEF SecondIsOwn, MilestonesAreEarned
<1> QED BY <1>1, <1>2

\* What holds of the capture of the transaction that ends.
LEMMA WriterOwns ==
    ASSUME CaptureInvariant, NEW c \in Collectors, collector[c].step = "written"
    PROVE  /\ writer = c /\ SnapshotRow(c) \in captures /\ SnapshotRow(c).at = collector[c].at
           /\ SnapshotRow(c).inserted = collector[c].start
           /\ Committed = {r \in captures : r.at # collector[c].at}
           /\ captures = Committed \cup {SnapshotRow(c)}
<1>1. writer = c /\ SnapshotRow(c) \in captures
  BY NobodyAssumption DEF CaptureInvariant, OneWriter
<1>2. SnapshotRow(c).at = collector[c].at /\ SnapshotRow(c).inserted = collector[c].start
  BY DEF SnapshotRow
<1>3. Committed = {r \in captures : r.at # collector[c].at}
  BY <1>1, NobodyAssumption DEF Committed
<1> QED BY <1>1, <1>2, <1>3 DEF CaptureInvariant, OneWriter

\* The types and the lineage when the transaction ends, whatever it keeps.
LEMMA WriterLeaves ==
    ASSUME CaptureInvariant, NEW c \in Collectors, collector[c].step = "written",
           collector' = [collector EXCEPT ![c] = Away], writer' = Nobody,
           captures' \subseteq captures, milestones' \in Seq(Milestones),
           UNCHANGED <<hour, builds, latestScan>>
    PROVE  CaptureTypeOK' /\ LineageInv' /\ OneWriter'
<1> USE DEF CaptureInvariant
<1>1. collector'[c] = Away /\ \A d \in Collectors : d # c => collector'[d] = collector[d]
  BY DEF CaptureTypeOK
<1>2. writer = c
  BY WriterOwns
<1>3. CaptureTypeOK'
  <2>1. IsFiniteSet(captures')
    BY FS_Subset DEF CaptureTypeOK
  <2> QED BY <2>1, AwayIsInOrder DEF CaptureTypeOK
<1>4. LineageInv'
  BY <1>1, AwayIsInOrder DEF LineageInv, LineageIsTrue
<1>5. OneWriter'
  BY <1>1, <1>2, AwayIsInOrder, NobodyAssumption DEF OneWriter
<1> QED BY <1>3, <1>4, <1>5

\* A transaction that rolls back keeps the invariant of the captures.
LEMMA RollBackStep ==
    ASSUME CaptureInvariant, NEW c \in Collectors, RollBackCapture(c)
    PROVE  CaptureInvariant'
<1> USE DEF CaptureInvariant
<1>1. /\ collector[c].step = "written" /\ collector' = [collector EXCEPT ![c] = Away]
      /\ captures' = {r \in captures : r.at # collector[c].at}
      /\ observed' = observed \ {collector[c].at} /\ writer' = Nobody
      /\ UNCHANGED <<hour, builds, latestScan, milestones>>
  BY DEF RollBackCapture, Gathers
<1>2. CaptureTypeOK' /\ LineageInv' /\ OneWriter'
  BY <1>1, WriterLeaves DEF CaptureTypeOK
<1>3. Committed = captures' /\ Committed' = captures'
  BY <1>1, WriterOwns DEF Committed
<1>4. observed' = {r.at : r \in captures'}
  BY <1>1 DEF CaptureIsWhole
<1> QED BY <1>1, <1>2, <1>3, <1>4 DEF CaptureIsWhole, SecondIsOwn, MilestonesAreEarned
\* No capture is among the newest none; the only one is the newest.
LEMMA NewestOfFew ==
    /\ \A rows : IsFiniteSet(rows) => NewestCaptures(0, rows) = {}
    /\ \A r \in SnapshotRows : NewestCaptures(1, {r}) = {r}
<1>1. ASSUME NEW rows, IsFiniteSet(rows) PROVE NewestCaptures(0, rows) = {}
  <2> DEFINE Later(r, s) == r.inserted > s.inserted \/ (r.inserted = s.inserted /\ r.at > s.at)
             later(r) == {s \in rows : Later(s, r)}
  <2>1. ASSUME NEW r \in rows PROVE ~ (Cardinality(later(r)) < 0)
    <3>1. IsFiniteSet(later(r))
      BY <1>1, FS_Subset
    <3>2. Cardinality(later(r)) \in Nat
      BY <3>1, FS_CardinalityType
    <3> QED BY <3>2
  <2>2. NewestCaptures(0, rows) = {r \in rows : Cardinality(later(r)) < 0}
    BY DEF NewestCaptures
  <2> HIDE DEF later
  <2> QED BY <2>1, <2>2
<1>2. ASSUME NEW r \in SnapshotRows PROVE NewestCaptures(1, {r}) = {r}
  <2> DEFINE Later(x, y) == x.inserted > y.inserted \/ (x.inserted = y.inserted /\ x.at > y.at)
             later(x) == {y \in {r} : Later(y, x)}
  <2>1. NewestCaptures(1, {r}) = {x \in {r} : Cardinality(later(x)) < 1}
    BY DEF NewestCaptures
  <2>2. r.inserted \in Nat /\ r.at \in Nat
    BY DEF SnapshotRows
  <2>3. ~ Later(r, r)
    BY <2>2
  <2>4. later(r) = {}
    BY <2>3
  <2>5. Cardinality(later(r)) < 1
    BY <2>4, FS_EmptySet
  <2> HIDE DEF later
  <2> QED BY <2>1, <2>5
<1> QED BY <1>1, <1>2

\* As many captures as times of capture: a time names one capture.
LEMMA AsManyTimes ==
    ASSUME NEW rows \in SUBSET SnapshotRows, IsFiniteSet(rows),
           \A r, s \in rows : r.at = s.at => r = s
    PROVE  Cardinality({r.at : r \in rows}) = Cardinality(rows)
<1> DEFINE times == {r.at : r \in rows}
           f == [r \in rows |-> r.at]
<1>1. f \in Bijection(rows, times)
  BY DEF Bijection, Injection, Surjection, IsInjective
<1> QED BY <1>1, FS_Bijection DEF ExistsBijection
\* What a milestone that the transaction adds rests on.
LEMMA EvidenceOf ==
    ASSUME NEW k, NEW rows
    PROVE  EvidenceAfter(k, rows) \subseteq InsertedAfter(k, rows) /\ InsertedAfter(k, rows) \subseteq rows
BY DEF EvidenceAfter, NewestCaptures, InsertedAfter

\* The transaction commits with the milestone that its capture has earned.
LEMMA CommitStep ==
    ASSUME CaptureInvariant, NEW c \in Collectors, CommitCapture(c)
    PROVE  CaptureInvariant'
<1> USE DEF CaptureInvariant
<1> DEFINE s == collector[c]
           own == SnapshotRow(c)
           n == Len(milestones)
           evidence == EvidenceAfter(n, captures)
           next == [recorded |-> s.start, by |-> s.at, evidence |-> {r.at : r \in evidence}]
           old == Committed
<1>1. /\ s.step = "written" /\ collector' = [collector EXCEPT ![c] = Away]
      /\ milestones' = IF Earned(n, captures) THEN Append(milestones, next) ELSE milestones
      /\ writer' = Nobody /\ UNCHANGED <<hour, builds, latestScan, captures, observed>>
  BY DEF CommitCapture, Gathers, Advance
<1>2. /\ own \in captures /\ own.at = s.at /\ own.inserted = s.start
      /\ old = {r \in captures : r.at # s.at} /\ captures = old \cup {own}
  BY <1>1, WriterOwns
<1>3. /\ captures \subseteq SnapshotRows /\ IsFiniteSet(captures) /\ milestones \in Seq(Milestones)
      /\ s.start \in Nat /\ s.at \in Nat /\ n \in Nat /\ own \in SnapshotRows
      /\ \A r, q \in captures : r.at = q.at => r = q
  BY <1>2 DEF CaptureTypeOK, Gatherings, OneWriter
<1>4. Committed' = captures
  BY <1>1 DEF Committed
<1>5. evidence \subseteq captures /\ evidence \subseteq InsertedAfter(n, captures)
  BY EvidenceOf
<1>6. next \in Milestones /\ next.recorded = s.start /\ next.by = s.at
      /\ next.evidence = {r.at : r \in evidence}
  <2>1. {r.at : r \in evidence} \subseteq Nat
    BY <1>3, <1>5 DEF SnapshotRows
  <2> QED BY <1>3, <2>1 DEF Milestones
<1> HIDE DEF next, evidence, own, s, n
<1>7. /\ CaptureTypeOK' /\ LineageInv' /\ OneWriter'
  <2>1. milestones' \in Seq(Milestones)
    BY <1>1, <1>3, <1>6
  <2> QED BY <1>1, <2>1, WriterLeaves DEF s
\* A milestone of before is where it was; a new one is the last.
<1>8. /\ Len(milestones') \in {n, n + 1}
      /\ \A k \in 1..n : milestones'[k] = milestones[k]
      /\ Len(milestones') = n + 1 => milestones'[n + 1] = next /\ Earned(n, captures)
      /\ Len(milestones') = n => ~ Earned(n, captures) /\ milestones' = milestones
      /\ DOMAIN milestones' = 1..Len(milestones') /\ DOMAIN milestones = 1..n
  BY <1>1, <1>3, <1>6 DEF n
<1>15. /\ \A k \in 1..n : milestones[k] \in Milestones /\ milestones[k].recorded \in Nat
       /\ \A r \in captures : r.inserted \in Nat
  <2>1. \A k \in 1..n : milestones[k] \in Milestones
    BY <1>3 DEF n
  <2> QED BY <1>3, <2>1 DEF Milestones, SnapshotRows
<1>9. CaptureIsWhole'
  <2>1. \A k \in 1..n : \E r \in old : r.at = milestones[k].by
    BY <1>8 DEF CaptureIsWhole
  <2>2. \A k \in 1..n : milestones[k].by # s.at /\ \E r \in captures : r.at = milestones[k].by
    BY <1>2, <2>1
  <2>3. ASSUME NEW k \in DOMAIN milestones' PROVE \E r \in captures : r.at = milestones'[k].by
    <3>1. CASE k \in 1..n
      <4>1. milestones'[k] = milestones[k]
        BY <1>8, <3>1
      <4> QED BY <2>2, <3>1, <4>1
    <3>2. CASE k \notin 1..n
      <4>1. Len(milestones') = n + 1 /\ k = n + 1
        <5> DEFINE m == Len(milestones')
        <5>1. m \in {n, n + 1} /\ k \in 1..m
          BY <1>8
        <5> HIDE DEF m
        <5>2. m = n + 1 /\ k = n + 1
          BY <1>3, <3>2, <5>1
        <5> QED BY <5>2 DEF m
      <4>2. milestones'[k] = next
        BY <1>8, <4>1
      <4> QED BY <1>2, <1>6, <4>2
    <3> QED BY <3>1, <3>2
  <2>4. \A j, k \in DOMAIN milestones' : milestones'[j].by = milestones'[k].by => j = k
    <3>1. \A j, k \in 1..n : milestones[j].by = milestones[k].by => j = k
      BY <1>8 DEF CaptureIsWhole
    <3>2. \A k \in 1..n : milestones'[k].by = milestones[k].by /\ milestones[k].by # s.at
      BY <1>8, <2>2
    <3>3. Len(milestones') = n + 1 => milestones'[n + 1].by = s.at
      BY <1>6, <1>8
    <3>4. \A k \in DOMAIN milestones' : k \in 1..n \/ (k = n + 1 /\ Len(milestones') = n + 1)
      <4>1. DOMAIN milestones' = 1..Len(milestones') /\ Len(milestones') \in {n, n + 1}
        BY <1>8
      <4> DEFINE m == Len(milestones')
      <4> HIDE DEF m
      <4>2. DOMAIN milestones' = 1..m /\ m \in {n, n + 1}
        BY <4>1 DEF m
      <4>3. \A k \in 1..m : k \in 1..n \/ (k = n + 1 /\ m = n + 1)
        BY <1>3, <4>2
      <4> QED BY <4>2, <4>3 DEF m
    <3>5. ASSUME NEW j \in DOMAIN milestones', NEW k \in DOMAIN milestones',
                 milestones'[j].by = milestones'[k].by
          PROVE  j = k
      <4>1. CASE j \in 1..n /\ k \in 1..n
        BY <3>1, <3>2, <3>5, <4>1
      <4>2. CASE j \in 1..n /\ k = n + 1 /\ Len(milestones') = n + 1
        BY <3>2, <3>3, <3>5, <4>2
      <4>3. CASE k \in 1..n /\ j = n + 1 /\ Len(milestones') = n + 1
        BY <3>2, <3>3, <3>5, <4>3
      <4> QED BY <3>4, <4>1, <4>2, <4>3
    <3> QED BY <3>5
  <2>5. observed' = {r.at : r \in captures'}
    BY <1>1 DEF CaptureIsWhole
  <2> QED BY <1>4, <2>3, <2>4, <2>5 DEF CaptureIsWhole
<1>10. n = 0 => Earned(n, captures)
  <2>1. ASSUME n = 0 PROVE evidence = {} /\ Needed(n) = 0
    <3>1. InsertedAfter(0, captures) \subseteq captures
      BY DEF InsertedAfter
    <3>2. IsFiniteSet(InsertedAfter(0, captures))
      BY <1>3, <3>1, FS_Subset
    <3>3. Needed(0) = 0
      BY DEF Needed
    <3>4. NewestCaptures(0, InsertedAfter(0, captures)) = {}
      BY <3>2, NewestOfFew
    <3> QED BY <2>1, <3>3, <3>4 DEF evidence, EvidenceAfter
  <2> QED BY <2>1, FS_EmptySet DEF Earned, evidence
<1>11. n = 1 => InsertedAfter(n, captures) = IF own.inserted > milestones[1].recorded THEN {own} ELSE {}
  <2>1. ASSUME n = 1 PROVE \A r \in old : r.inserted <= milestones[1].recorded
    BY <2>1 DEF SecondIsOwn, n
  <2>2. ASSUME n = 1 PROVE InsertedAfter(n, captures) = {r \in captures : r.inserted > milestones[1].recorded}
    BY <2>2 DEF InsertedAfter
  <2>3. ASSUME n = 1 PROVE /\ milestones[1].recorded \in Nat
                           /\ \A r \in captures : r.inserted \in Nat
    BY <1>15, <2>3
  <2> SUFFICES ASSUME n = 1
               PROVE  InsertedAfter(1, captures) =
                          IF own.inserted > milestones[1].recorded THEN {own} ELSE {}
    OBVIOUS
  <2>4. \A r \in captures : r.inserted > milestones[1].recorded <=>
                            r = own /\ own.inserted > milestones[1].recorded
    BY <1>2, <2>1, <2>3
  <2>5. InsertedAfter(1, captures) = {r \in captures : r.inserted > milestones[1].recorded}
    BY <2>2
  <2> QED BY <1>2, <2>4, <2>5
<1>12. n = 1 /\ own.inserted > milestones[1].recorded => Earned(n, captures)
  <2>1. ASSUME n = 1, own.inserted > milestones[1].recorded PROVE evidence = {own} /\ Needed(n) = 1
    BY <1>3, <1>11, <2>1, NewestOfFew DEF evidence, EvidenceAfter, Needed
  <2>2. Cardinality({own}) = 1
    BY FS_Singleton
  <2> QED BY <2>1, <2>2 DEF Earned, evidence
<1>13. SecondIsOwn'
  <2>1. Len(milestones') = 0 => Committed' = {}
    BY <1>3, <1>8, <1>10
  <2>2. Len(milestones') = 1 => \A r \in Committed' : r.inserted <= milestones'[1].recorded
    <3>1. ASSUME n = 0, Len(milestones') = 1 PROVE \A r \in captures : r.inserted <= milestones'[1].recorded
      <4>1. old = {}
        BY <3>1 DEF SecondIsOwn, n
      <4> QED BY <1>2, <1>3, <1>6, <1>8, <3>1, <4>1
    <3>2. ASSUME n = 1, Len(milestones') = 1 PROVE \A r \in captures : r.inserted <= milestones'[1].recorded
      <4>1. \A r \in old : r.inserted <= milestones[1].recorded
        BY <3>2 DEF SecondIsOwn, n
      <4>2. own.inserted \in Nat /\ milestones[1].recorded \in Nat
        BY <1>2, <1>15, <3>2
      <4> QED BY <1>2, <1>8, <1>12, <3>2, <4>1, <4>2
    <3> QED BY <1>3, <1>4, <1>8, <3>1, <3>2
  <2>3. ASSUME Len(milestones') >= 2
        PROVE  milestones'[2].evidence \subseteq
                   {r.at : r \in {q \in captures : q.inserted <= milestones'[2].recorded}}
    <3>1. ASSUME n >= 2
          PROVE  milestones[2].evidence \subseteq {r.at : r \in {q \in captures : q.inserted <= milestones[2].recorded}}
      <4>1. milestones[2].evidence \subseteq {r.at : r \in {q \in old : q.inserted <= milestones[2].recorded}}
        BY <3>1 DEF SecondIsOwn, n
      <4> QED BY <1>2, <4>1
    <3>2. ASSUME n = 1, Len(milestones') = 2
          PROVE  next.evidence \subseteq {r.at : r \in {q \in captures : q.inserted <= next.recorded}}
      <4>1. \A r \in evidence : r = own
        BY <1>5, <1>11, <3>2
      <4>2. own.inserted <= next.recorded
        BY <1>2, <1>3, <1>6
      <4> QED BY <1>2, <1>6, <4>1, <4>2
    <3>3. ASSUME n >= 2 PROVE milestones'[2] = milestones[2]
      <4>1. 2 \in 1..n
        BY <1>3, <3>3
      <4> QED BY <1>8, <4>1
    <3>4. ASSUME ~ n >= 2 PROVE n = 1 /\ Len(milestones') = 2 /\ milestones'[2] = next
      <4>1. n = 1 /\ Len(milestones') = n + 1 /\ n + 1 = 2
        <5>1. Len(milestones') \in {n, n + 1}
          BY <1>8
        <5> QED BY <1>3, <2>3, <3>4, <5>1
      <4> QED BY <1>8, <4>1
    <3> QED BY <3>1, <3>2, <3>3, <3>4
  <2> QED BY <1>4, <2>1, <2>2, <2>3 DEF SecondIsOwn
<1>14. MilestonesAreEarned'
  <2>1. ASSUME n = 2, Len(milestones') = 3
        PROVE  /\ milestones[2].evidence \cap next.evidence = {}
               /\ Cardinality(next.evidence) = MinConsecutive
               /\ \A at \in next.evidence : \E r \in captures : r.at = at /\ r.full
    <3>1. /\ Cardinality(evidence) = Needed(n) /\ \A r \in evidence : r.full
      BY <1>8, <2>1 DEF Earned, evidence
    <3>2. Needed(n) = MinConsecutive
      BY <2>1 DEF Needed
    <3>3. Cardinality(next.evidence) = Cardinality(evidence)
      <4>1. IsFiniteSet(evidence) /\ evidence \in SUBSET SnapshotRows
        BY <1>3, <1>5, FS_Subset
      <4> QED BY <1>3, <1>5, <1>6, <4>1, AsManyTimes
    <3>4. \A r \in evidence : r.inserted > milestones[2].recorded /\ r.inserted \in Nat
      BY <1>3, <1>5, <2>1 DEF InsertedAfter, SnapshotRows
    <3>5. milestones[2].evidence \subseteq {r.at : r \in {q \in captures : q.inserted <= milestones[2].recorded}}
      BY <1>2, <2>1 DEF SecondIsOwn, n
    <3>6. milestones[2].recorded \in Nat
      BY <1>15, <2>1
    <3>7. milestones[2].evidence \cap next.evidence = {}
      BY <1>3, <1>5, <1>6, <3>4, <3>5, <3>6
    <3> QED BY <1>5, <1>6, <3>1, <3>2, <3>3, <3>7
  <2>2. ASSUME n >= 3
        PROVE  /\ milestones[2].evidence \cap milestones[3].evidence = {}
               /\ Cardinality(milestones[3].evidence) = MinConsecutive
               /\ \A at \in milestones[3].evidence : \E r \in captures : r.at = at /\ r.full
    BY <1>2, <2>2 DEF MilestonesAreEarned, n
  <2>3. ASSUME Len(milestones') >= 3 PROVE n >= 3 \/ (n = 2 /\ Len(milestones') = 3)
    <3> DEFINE m == Len(milestones')
    <3>1. m \in {n, n + 1} /\ m >= 3
      BY <1>8, <2>3
    <3> HIDE DEF m
    <3>2. n >= 3 \/ (n = 2 /\ m = 3)
      BY <1>3, <3>1
    <3> QED BY <3>2 DEF m
  <2>4. ASSUME n >= 2 PROVE milestones'[2] = milestones[2]
    <3>1. 2 \in 1..n
      BY <1>3, <2>4
    <3> QED BY <1>8, <3>1
  <2>5. ASSUME n >= 3 PROVE milestones'[3] = milestones[3]
    <3>1. 3 \in 1..n
      BY <1>3, <2>5
    <3> QED BY <1>8, <3>1
  <2>6. ASSUME n = 2, Len(milestones') = 3 PROVE milestones'[3] = next
    <3>1. n + 1 = 3
      BY <2>6
    <3> QED BY <1>8, <2>6, <3>1
  <2>7. CASE n >= 3
    <3>1. milestones'[2] = milestones[2] /\ milestones'[3] = milestones[3]
      <4>1. n >= 2
        BY <1>3, <2>7
      <4> QED BY <2>4, <2>5, <2>7, <4>1
    <3> QED BY <1>4, <2>2, <2>7, <3>1 DEF MilestonesAreEarned
  <2>8. CASE n = 2 /\ Len(milestones') = 3
    <3>1. milestones'[2] = milestones[2] /\ milestones'[3] = next
      BY <2>4, <2>6, <2>8
    <3> QED BY <1>4, <2>1, <2>8, <3>1 DEF MilestonesAreEarned
  <2>9. CASE ~ (Len(milestones') >= 3)
    BY <2>9 DEF MilestonesAreEarned
  <2> QED BY <2>3, <2>7, <2>8, <2>9
<1> QED BY <1>7, <1>9, <1>13, <1>14

\* Every step of the collectors keeps the invariant of the captures.
LEMMA CaptureStepHolds == CaptureInvariant /\ [CaptureStep]_captureVars => CaptureInvariant'
<1> SUFFICES ASSUME CaptureInvariant, [CaptureStep]_captureVars PROVE CaptureInvariant'
  OBVIOUS
<1>1. ASSUME UNCHANGED captureVars PROVE CaptureInvariant'
  BY <1>1 DEF captureVars, CaptureInvariant, CaptureTypeOK, LineageInv, LineageIsTrue, OneWriter,
              SnapshotRow, CaptureIsWhole, SecondIsOwn, MilestonesAreEarned, Committed
<1> QED BY <1>1, GatherStep, AroundStep, WriteStep, CommitStep, RollBackStep DEF CaptureStep

\* collect_snapshot_with_worker_lineage, persist_forward_snapshot and
\* record_lifecycle_on_capture_persistence: captures and observations are
\* written together, milestones rest on distinct complete captures, and a named
\* worker made the scan, for any number of collectors, deployments and scans.
THEOREM CapturesAreSoundHolds == CaptureSpec => []CapturesAreSound
<1>1. CaptureInvariant => CapturesAreSound
  BY DEF CaptureInvariant, CapturesAreSound, LineageInv
<1> QED BY <1>1, CaptureBegins, CaptureStepHolds, PTL DEF CaptureSpec
-----------------------------------------------------------------------------
(* The label-blind events of the swing trial.                               *)

TriggerEvents == [key : TriggerKeys, bar : Nat, source : Nat]
TriggerBars == UNION {[S -> BarCloses] : S \in SUBSET Nat}
TriggerSnapshots == [at : Nat, available : Nat, candidate : Candidates4h]

TriggersTypeOK ==
    /\ slot \in Nat \ {0}
    /\ closes \in TriggerBars
    /\ snapshots4h \subseteq TriggerSnapshots /\ IsFiniteSet(snapshots4h)
    /\ posting = NoSnapshot \/ posting \in TriggerSnapshots
    /\ klines \in [bars : TriggerBars, failed : SUBSET TriggerKeys, at : Nat]
    /\ IsFiniteSet(DOMAIN klines.bars)

\* The bars that have closed are those of the clock.
BarsOfClock(n) == DOMAIN closes = 1..n /\ CloseOf(n) <= slot /\ slot < CloseOf(n + 1)
BarsAreClosed == \E n \in Nat : BarsOfClock(n)

\* What is on its way is not old: a capture is stored, and klines are reported
\* on, in the slot after at the latest; a bar that had closed at the fetch is
\* final in them, and none is missing while the bars fit.
NothingIsLate ==
    /\ posting # NoSnapshot => slot <= posting.available + 1
    /\ klines # NoKlines =>
        /\ klines.at <= slot /\ slot <= klines.at + 1
        /\ \A b \in DOMAIN klines.bars :
               CloseOf(b) <= klines.at => b \in DOMAIN closes /\ klines.bars[b] = closes[b]
        /\ Cardinality(DOMAIN closes) <= KlineLimit =>
               \A b \in DOMAIN closes : CloseOf(b) <= klines.at => b \in DOMAIN klines.bars

\* The matured events of all captures and bars: what no later one changes.
MaturedEvents(rows, bars, now) ==
    {e \in TriggerEvents :
        /\ e.bar \in DOMAIN bars /\ Matured(e, now)
        /\ \E s \in Selected(rows, e.key, e.bar) :
               s.at = e.source /\ Triggers(s.candidate[e.key], bars[e.bar][e.key])}
MaturedNow == MaturedEvents(snapshots4h, closes, slot)

FirstOnes(events) == {e \in events : Cardinality({d \in events : Precedes4h(d, e)}) < DevelopmentSize}

\* What has been shown has matured, and the cohort is the first of it.
CohortOfMatured ==
    /\ settled \subseteq MaturedNow
    /\ cohort # {} => DevelopmentSize <= Cardinality(MaturedNow) /\ cohort = FirstOnes(MaturedNow)

TriggersInvariant ==
    TriggersTypeOK /\ BarsAreClosed /\ NothingIsLate /\ CohortOfMatured /\ SwingCohortIsStable

\* Closes of bars are numbers and in their order.
LEMMA CloseIsNatural ==
    /\ \A b \in Nat : CloseOf(b) \in Nat
    /\ \A b, c \in Nat : b <= c => CloseOf(b) <= CloseOf(c)
    /\ \A b \in Nat : CloseOf(b + 1) = CloseOf(b) + BarSlots
<1>1. BarSlots \in Nat
  BY TriggerAssumption
<1> QED BY <1>1 DEF CloseOf

\* A capture that came too late for a bar does not change what is selected.
LEMMA LateIsNotSelected ==
    ASSUME NEW rows, NEW s, NEW key, NEW bar, ~ Pretrigger(s, bar)
    PROVE  Selected(rows \cup {s}, key, bar) = Selected(rows, key, bar)
<1>1. {x \in rows \cup {s} : key \in DOMAIN x.candidate /\ Pretrigger(x, bar)}
          = {x \in rows : key \in DOMAIN x.candidate /\ Pretrigger(x, bar)}
  OBVIOUS
<1> QED BY <1>1 DEF Selected

\* Events of finitely many keys, bars and captures are finitely many.
LEMMA EventsAreFinite ==
    ASSUME NEW K, NEW B, NEW T, IsFiniteSet(K), IsFiniteSet(B), IsFiniteSet(T)
    PROVE  IsFiniteSet([key : K, bar : B, source : T])
<1> DEFINE all == [key : K, bar : B, source : T]
           f == [e \in all |-> <<<<e.key, e.bar>>, e.source>>]
<1>1. IsFiniteSet((K \X B) \X T)
  BY FS_Product
<1>2. f \in Injection(all, (K \X B) \X T)
  BY DEF Injection, IsInjective
<1> HIDE DEF f, all
<1>3. IsFiniteSet(all)
  BY <1>1, <1>2, FS_Injection
<1> QED BY <1>3 DEF all

\* Finitely many snapshots have finitely many times.
LEMMA TimesAreFinite ==
    ASSUME NEW rows, IsFiniteSet(rows)
    PROVE  IsFiniteSet({s.at : s \in rows})
<1> DEFINE f == [s \in rows |-> s.at]
<1>1. f \in Surjection(rows, {s.at : s \in rows})
  BY DEF Surjection
<1> QED BY <1>1, FS_Surjection

\* Later events do not move the first ones once these are enough.
LEMMA FirstOnesStay ==
    ASSUME NEW I \in SUBSET TriggerEvents, NEW J \in SUBSET TriggerEvents, I \subseteq J, IsFiniteSet(J),
           \A d \in J \ I, e \in I : e.bar < d.bar,
           DevelopmentSize <= Cardinality(I)
    PROVE  FirstOnes(J) = FirstOnes(I)
<1>1. \A e \in TriggerEvents : e.bar \in Nat /\ e.key \in Nat
  BY TriggerAssumption DEF TriggerEvents
<1>2. ASSUME NEW e \in I PROVE {d \in J : Precedes4h(d, e)} = {d \in I : Precedes4h(d, e)}
  BY <1>1 DEF Precedes4h
<1>3. ASSUME NEW e \in J \ I PROVE ~ (Cardinality({d \in J : Precedes4h(d, e)}) < DevelopmentSize)
  <2> DEFINE before == {d \in J : Precedes4h(d, e)}
  <2>1. I \subseteq before /\ before \subseteq J
    BY <1>1 DEF Precedes4h
  <2>2. IsFiniteSet(before)
    BY <2>1, FS_Subset
  <2>3. Cardinality(I) <= Cardinality(before) /\ Cardinality(I) \in Nat /\ Cardinality(before) \in Nat
    BY <2>1, <2>2, FS_Subset, FS_CardinalityType
  <2>4. DevelopmentSize \in Nat
    BY TriggerAssumption
  <2> HIDE DEF before
  <2>5. ~ (Cardinality(before) < DevelopmentSize)
    BY <2>3, <2>4
  <2> QED BY <2>5 DEF before
<1> QED BY <1>2, <1>3 DEF FirstOnes

\* The first ones are before the others.
LEMMA FirstOnesPrecede ==
    ASSUME NEW J \in SUBSET TriggerEvents, IsFiniteSet(J), NEW d \in FirstOnes(J), NEW v \in J \ FirstOnes(J)
    PROVE  Precedes4h(d, v)
<1>1. /\ d.bar \in Nat /\ d.key \in Nat /\ v.bar \in Nat /\ v.key \in Nat
      /\ \A x \in J : x.bar \in Nat /\ x.key \in Nat
  BY TriggerAssumption DEF TriggerEvents, FirstOnes
<1> DEFINE ofD == {x \in J : Precedes4h(x, d)}
           ofV == {x \in J : Precedes4h(x, v)}
<1> SUFFICES ASSUME ~ Precedes4h(d, v) PROVE FALSE
  OBVIOUS
<1>2. ofV \subseteq ofD
  BY <1>1 DEF Precedes4h
<1>3. IsFiniteSet(ofD) /\ IsFiniteSet(ofV)
  BY FS_Subset
<1>4. Cardinality(ofV) <= Cardinality(ofD) /\ Cardinality(ofV) \in Nat /\ Cardinality(ofD) \in Nat
  BY <1>2, <1>3, FS_Subset, FS_CardinalityType
<1>5. Cardinality(ofD) < DevelopmentSize /\ ~ (Cardinality(ofV) < DevelopmentSize)
  BY DEF FirstOnes
<1>6. DevelopmentSize \in Nat
  BY TriggerAssumption
<1> HIDE DEF ofD, ofV
<1> QED BY <1>4, <1>5, <1>6

\* The matured events are finitely many.
LEMMA MaturedIsFinite ==
    ASSUME NEW rows, NEW bars, NEW now, IsFiniteSet(rows), IsFiniteSet(DOMAIN bars)
    PROVE  IsFiniteSet(MaturedEvents(rows, bars, now)) /\ MaturedEvents(rows, bars, now) \subseteq TriggerEvents
<1> DEFINE T == {s.at : s \in rows}
           all == [key : TriggerKeys, bar : DOMAIN bars, source : T]
<1>1. IsFiniteSet(T) /\ IsFiniteSet(TriggerKeys)
  BY TimesAreFinite, TriggerAssumption
<1>2. IsFiniteSet(all)
  BY <1>1, EventsAreFinite
<1>3. MaturedEvents(rows, bars, now) \subseteq all
  BY DEF MaturedEvents, Selected, TriggerEvents
<1> QED BY <1>2, <1>3, FS_Subset DEF MaturedEvents

\* The triggers begin in their invariant.
LEMMA TriggersBegin == TriggersInit => TriggersInvariant
<1> SUFFICES ASSUME TriggersInit PROVE TriggersInvariant
  OBVIOUS
<1>1. <<>> \in TriggerBars /\ DOMAIN <<>> = 1..0
  <2>1. {} \in SUBSET Nat /\ <<>> \in [{} -> BarCloses] /\ DOMAIN <<>> = {}
    OBVIOUS
  <2> QED BY <2>1 DEF TriggerBars
<1>2. TriggersTypeOK
  BY <1>1, FS_EmptySet DEF TriggersInit, TriggersTypeOK, NoKlines
<1>3. BarsAreClosed
  <2>1. BarsOfClock(0)
    BY <1>1, TriggerAssumption DEF TriggersInit, BarsOfClock, CloseOf
  <2> QED BY <2>1 DEF BarsAreClosed
<1> QED BY <1>2, <1>3 DEF TriggersInit, TriggersInvariant, NothingIsLate, CohortOfMatured,
                         SwingCohortIsStable, MaturedStays, CohortStays, NoReport

\* A capture comes and is stored.
LEMMA PostStep ==
    ASSUME TriggersInvariant,
           PostFeatures \/ \E candidate \in Candidates4h, available \in {slot, slot + 1} :
                               CollectFeatures(candidate, available)
    PROVE  TriggersInvariant'
<1> USE DEF TriggersInvariant
<1>t. slot \in Nat \ {0} /\ slot + 1 \in Nat
  BY DEF TriggersTypeOK
<1>1. ASSUME NEW candidate \in Candidates4h, NEW available \in {slot, slot + 1},
             CollectFeatures(candidate, available)
      PROVE  TriggersInvariant'
  <2>1. /\ posting' = [at |-> slot, available |-> available, candidate |-> candidate]
        /\ UNCHANGED <<slot, closes, snapshots4h, klines, report, settled, cohort>>
    BY <1>1 DEF CollectFeatures
  <2>2. posting' \in TriggerSnapshots /\ slot <= posting'.available + 1
    BY <1>t, <2>1 DEF TriggerSnapshots
  <2>3. TriggersTypeOK' /\ BarsAreClosed' /\ NothingIsLate'
    BY <2>1, <2>2 DEF TriggersTypeOK, BarsAreClosed, BarsOfClock, NothingIsLate
  <2> QED BY <2>1, <2>3 DEF CohortOfMatured, MaturedNow, SwingCohortIsStable, MaturedStays, CohortStays
<1>2. ASSUME PostFeatures PROVE TriggersInvariant'
  <2>1. /\ posting # NoSnapshot /\ snapshots4h' = snapshots4h \cup {posting} /\ posting' = NoSnapshot
        /\ UNCHANGED <<slot, closes, klines, report, settled, cohort>>
    BY <1>2 DEF PostFeatures
  <2>2. posting \in TriggerSnapshots /\ slot <= posting.available + 1 /\ posting.available \in Nat
    BY <2>1 DEF TriggersTypeOK, NothingIsLate, TriggerSnapshots
  <2>3. TriggersTypeOK'
    BY <2>1, <2>2, FS_AddElement DEF TriggersTypeOK
  <2>4. BarsAreClosed' /\ NothingIsLate'
    BY <2>1 DEF BarsAreClosed, BarsOfClock, NothingIsLate
  <2>5. MaturedNow' = MaturedNow
    <3>1. ASSUME NEW e \in TriggerEvents, Matured(e, slot)
          PROVE  Selected(snapshots4h', e.key, e.bar) = Selected(snapshots4h, e.key, e.bar)
      <4>1. CloseOf(e.bar) \in Nat /\ CloseOf(e.bar) + OutcomeHorizon <= slot
        BY <3>1, CloseIsNatural DEF TriggerEvents, Matured
      <4>2. CloseOf(e.bar) <= posting.available
        BY <1>t, <2>2, <4>1, TriggerAssumption
      <4>3. ~ Pretrigger(posting, e.bar)
        BY <2>2, <4>1, <4>2 DEF Pretrigger
      <4> QED BY <2>1, <4>3, LateIsNotSelected
    <3> QED BY <2>1, <3>1 DEF MaturedNow, MaturedEvents
  <2> QED BY <2>1, <2>3, <2>4, <2>5 DEF CohortOfMatured, SwingCohortIsStable, MaturedStays, CohortStays
<1> QED BY <1>1, <1>2
\* The bar that closes with the slot is the next one.
LEMMA BarThatCloses ==
    ASSUME NEW now \in Nat, NEW n \in Nat, CloseOf(n) <= now, now < CloseOf(n + 1)
    PROVE  IF (now + 1) % BarSlots = 0
           THEN (now + 1) \div BarSlots = n + 1 /\ CloseOf(n + 1) = now + 1
           ELSE now + 1 < CloseOf(n + 1)
<1> DEFINE q == (now + 1) \div BarSlots
           r == (now + 1) % BarSlots
<1>1. BarSlots \in Nat /\ BarSlots > 1
  BY TriggerAssumption
<1>2. q \in Nat /\ r \in 0..BarSlots - 1 /\ now + 1 = q * BarSlots + r
  BY <1>1
<1>3. CloseOf(q) + r = now + 1
  BY <1>2 DEF CloseOf
<1> HIDE DEF q, r
<1>4. CloseOf(n) \in Nat /\ CloseOf(n + 1) = CloseOf(n) + BarSlots /\ CloseOf(q) \in Nat
      /\ CloseOf(q + 1) = CloseOf(q) + BarSlots
  BY <1>2, CloseIsNatural
<1>5. CASE r = 0
  <2>1. q <= n => CloseOf(q) <= CloseOf(n)
    BY <1>2, CloseIsNatural
  <2>2. n + 2 <= q => CloseOf(n + 2) <= CloseOf(q)
    BY <1>2, CloseIsNatural
  <2>3. CloseOf(n + 2) = CloseOf(n + 1) + BarSlots
    BY CloseIsNatural
  <2>4. q = n + 1
    BY <1>1, <1>2, <1>3, <1>4, <1>5, <2>1, <2>2, <2>3
  <2>5. CloseOf(n + 1) = now + 1
    BY <1>3, <1>4, <1>5, <2>4
  <2> QED BY <1>5, <2>4, <2>5 DEF q, r
<1>6. CASE r # 0
  <2>1. n + 1 <= q => CloseOf(n + 1) <= CloseOf(q)
    BY <1>2, CloseIsNatural
  <2>2. q <= n
    BY <1>1, <1>2, <1>3, <1>4, <1>6, <2>1
  <2>3. now + 1 # CloseOf(n + 1)
    <3>1. CloseOf(q) <= CloseOf(n)
      BY <1>2, <2>2, CloseIsNatural
    <3> QED BY <1>1, <1>2, <1>3, <1>4, <3>1
  <2>4. now + 1 < CloseOf(n + 1)
    BY <1>1, <1>4, <2>3
  <2> QED BY <1>6, <2>4 DEF r
<1> QED BY <1>5, <1>6

\* A slot passes: what matures now is of later bars than what had matured.
LEMMA SlotStep ==
    ASSUME TriggersInvariant, NEW close \in BarCloses, NextSlot(close)
    PROVE  TriggersInvariant'
<1> USE DEF TriggersInvariant
<1>1. /\ posting # NoSnapshot => slot <= posting.available
      /\ klines # NoKlines => slot = klines.at
      /\ slot' = slot + 1 /\ slot \in Nat \ {0}
      /\ UNCHANGED <<posting, snapshots4h, klines, report, settled, cohort>>
  BY DEF NextSlot, TriggersTypeOK
<1>2. PICK n \in Nat : BarsOfClock(n)
  BY DEF BarsAreClosed
<1> DEFINE closing == (slot + 1) % BarSlots = 0
<1>3. IF closing THEN (slot + 1) \div BarSlots = n + 1 /\ CloseOf(n + 1) = slot + 1
                 ELSE slot + 1 < CloseOf(n + 1)
  BY <1>1, <1>2, BarThatCloses DEF BarsOfClock
<1>4. closes' = IF closing THEN [b \in 1..(n + 1) |-> IF b \in DOMAIN closes THEN closes[b] ELSE close]
                           ELSE closes
  BY <1>1, <1>3 DEF NextSlot
<1> HIDE DEF closing
<1>n. n + 1 \in Nat /\ CloseOf(n) \in Nat /\ CloseOf(n + 1) \in Nat
      /\ CloseOf((n + 1) + 1) = CloseOf(n + 1) + BarSlots /\ BarSlots \in Nat /\ BarSlots > 1
  <2>1. n + 1 \in Nat
    OBVIOUS
  <2> QED BY <2>1, CloseIsNatural, TriggerAssumption
<1>5. DOMAIN closes = 1..n /\ CloseOf(n) <= slot /\ slot < CloseOf(n + 1)
  BY <1>2 DEF BarsOfClock
<1>6. /\ \A b \in DOMAIN closes : b \in DOMAIN closes' /\ closes'[b] = closes[b]
      /\ \A b \in DOMAIN closes' : b \in Nat /\ (b \notin DOMAIN closes => CloseOf(b) = slot + 1)
  BY <1>3, <1>4, <1>5, <1>n
<1>7. /\ closes' \in TriggerBars
      /\ BarsOfClock(n)' \/ BarsOfClock(n + 1)'
      /\ Cardinality(DOMAIN closes') >= Cardinality(DOMAIN closes)
      /\ IsFiniteSet(DOMAIN closes')
  <2>1. CASE closing
    <3>1. DOMAIN closes' = 1..(n + 1)
      BY <1>4, <2>1
    <3>2. closes' \in [1..(n + 1) -> BarCloses]
      <4>1. \A b \in DOMAIN closes : closes[b] \in BarCloses
        <5>1. PICK S \in SUBSET Nat : closes \in [S -> BarCloses]
          BY DEF TriggersTypeOK, TriggerBars
        <5> QED BY <5>1
      <4> QED BY <1>4, <2>1, <4>1
    <3>3. closes' \in TriggerBars
      <4>1. 1..(n + 1) \in SUBSET Nat
        OBVIOUS
      <4> QED BY <3>2, <4>1 DEF TriggerBars
    <3>4. BarsOfClock(n + 1)'
      BY <1>1, <1>3, <1>n, <2>1, <3>1 DEF BarsOfClock
    <3>5. Cardinality(1..(n + 1)) = n + 1 /\ Cardinality(1..n) = n
      BY FS_Interval
    <3> QED BY <1>5, <3>1, <3>3, <3>4, <3>5, FS_Interval
  <2>2. CASE ~ closing
    <3>1. closes' = closes /\ BarsOfClock(n)'
      BY <1>1, <1>3, <1>4, <1>5, <1>n, <2>2 DEF BarsOfClock
    <3>2. Cardinality(1..n) = n /\ IsFiniteSet(1..n)
      BY FS_Interval
    <3> QED BY <1>5, <3>1, <3>2 DEF TriggersTypeOK
  <2> QED BY <2>1, <2>2
<1>8. TriggersTypeOK' /\ BarsAreClosed'
  BY <1>1, <1>7, <1>n DEF TriggersTypeOK, BarsAreClosed
<1>9. NothingIsLate'
  <2>1. klines # NoKlines => klines.at = slot
    BY <1>1
  <2>2. klines # NoKlines =>
           \A b \in DOMAIN klines.bars : CloseOf(b) <= klines.at => b \in DOMAIN closes' /\ klines.bars[b] = closes'[b]
    BY <1>6 DEF NothingIsLate
  <2>3. ASSUME klines # NoKlines, Cardinality(DOMAIN closes') <= KlineLimit
        PROVE  \A b \in DOMAIN closes' : CloseOf(b) <= klines.at => b \in DOMAIN klines.bars
    <3>1. Cardinality(DOMAIN closes) <= KlineLimit
      <4>1. Cardinality(DOMAIN closes) \in Nat /\ Cardinality(DOMAIN closes') \in Nat /\ KlineLimit \in Nat
        BY <1>5, <1>7, FS_CardinalityType, FS_Interval, TriggerAssumption
      <4> QED BY <1>7, <2>3, <4>1
    <3> QED BY <1>1, <1>6, <2>1, <2>3, <3>1 DEF NothingIsLate
  <2>4. /\ posting' # NoSnapshot => slot' <= posting'.available + 1
        /\ klines' # NoKlines => klines'.at <= slot' /\ slot' <= klines'.at + 1
    <3>1. posting # NoSnapshot => posting.available \in Nat
      BY DEF TriggersTypeOK, TriggerSnapshots
    <3> QED BY <1>1, <2>1, <3>1
  <2> QED BY <1>1, <2>2, <2>3, <2>4 DEF NothingIsLate
<1>10. CohortOfMatured'
  <2>1. ASSUME NEW e \in MaturedNow PROVE e \in MaturedNow' /\ CloseOf(e.bar) + OutcomeHorizon <= slot
    <3>1. /\ e \in TriggerEvents /\ e.bar \in DOMAIN closes /\ Matured(e, slot) /\ e.bar \in Nat
      BY DEF MaturedNow, MaturedEvents, TriggerEvents
    <3>2. CloseOf(e.bar) \in Nat /\ CloseOf(e.bar) + OutcomeHorizon <= slot /\ OutcomeHorizon \in Nat
      BY <3>1, CloseIsNatural, TriggerAssumption DEF Matured
    <3>3. Matured(e, slot')
      BY <1>1, <3>2 DEF Matured
    <3> QED BY <1>1, <1>6, <3>1, <3>2, <3>3 DEF MaturedNow, MaturedEvents
  <2>2. ASSUME NEW e \in MaturedNow' \ MaturedNow PROVE ~ (CloseOf(e.bar) + OutcomeHorizon <= slot) /\ e.bar \in Nat
    <3>1. /\ e \in TriggerEvents /\ e.bar \in DOMAIN closes' /\ Matured(e, slot') /\ e.bar \in Nat
      BY DEF MaturedNow, MaturedEvents, TriggerEvents
    <3>2. e.bar \in DOMAIN closes
      <4>1. CloseOf(e.bar) + OutcomeHorizon <= slot + 1 /\ CloseOf(e.bar) \in Nat
        BY <1>1, <3>1, CloseIsNatural DEF Matured
      <4> QED BY <1>1, <1>6, <3>1, <4>1, TriggerAssumption
    <3>3. closes'[e.bar] = closes[e.bar]
      BY <1>6, <3>2
    <3>4. ~ Matured(e, slot)
      BY <1>1, <3>1, <3>2, <3>3 DEF MaturedNow, MaturedEvents
    <3> QED BY <3>1, <3>4 DEF Matured
  <2>3. \A d \in MaturedNow' \ MaturedNow, e \in MaturedNow : e.bar < d.bar
    <3> SUFFICES ASSUME NEW d \in MaturedNow' \ MaturedNow, NEW e \in MaturedNow PROVE e.bar < d.bar
      OBVIOUS
    <3>1. d.bar \in Nat /\ e.bar \in Nat
      BY <2>2 DEF MaturedNow, MaturedEvents, TriggerEvents
    <3>2. CloseOf(d.bar) \in Nat /\ CloseOf(e.bar) \in Nat /\ OutcomeHorizon \in Nat
      BY <3>1, CloseIsNatural, TriggerAssumption
    <3>3. ~ (CloseOf(d.bar) <= CloseOf(e.bar))
      BY <1>1, <2>1, <2>2, <3>2
    <3> QED BY <3>1, <3>3, CloseIsNatural
  <2>4. IsFiniteSet(MaturedNow') /\ MaturedNow' \subseteq TriggerEvents /\ MaturedNow \subseteq TriggerEvents
        /\ MaturedNow \subseteq MaturedNow' /\ IsFiniteSet(MaturedNow)
    <3>1. IsFiniteSet(MaturedNow') /\ MaturedNow' \subseteq TriggerEvents
      BY <1>7, <1>8, MaturedIsFinite DEF MaturedNow, TriggersTypeOK
    <3> QED BY <2>1, <3>1, FS_Subset
  <2>5. ASSUME cohort # {}
        PROVE  DevelopmentSize <= Cardinality(MaturedNow') /\ cohort = FirstOnes(MaturedNow')
    <3>1. DevelopmentSize <= Cardinality(MaturedNow) /\ cohort = FirstOnes(MaturedNow)
      BY <2>5 DEF CohortOfMatured
    <3>2. FirstOnes(MaturedNow') = FirstOnes(MaturedNow)
      BY <2>3, <2>4, <3>1, FirstOnesStay
    <3>3. Cardinality(MaturedNow) <= Cardinality(MaturedNow') /\ Cardinality(MaturedNow) \in Nat
          /\ Cardinality(MaturedNow') \in Nat /\ DevelopmentSize \in Nat
      BY <2>4, FS_Subset, FS_CardinalityType, TriggerAssumption
    <3> QED BY <3>1, <3>2, <3>3
  <2> QED BY <1>1, <2>4, <2>5 DEF CohortOfMatured, FirstOnes
<1> QED BY <1>1, <1>8, <1>9, <1>10 DEF SwingCohortIsStable, MaturedStays, CohortStays
\* The klines come: the bars that have closed are final in them.
LEMMA FetchStep ==
    ASSUME TriggersInvariant, NEW price \in BarCloses, NEW failed \in SUBSET TriggerKeys,
           FetchKlines(price, failed)
    PROVE  TriggersInvariant'
<1> USE DEF TriggersInvariant
<1>2. PICK n \in Nat : BarsOfClock(n)
  BY DEF BarsAreClosed
<1> DEFINE last == {i \in DOMAIN closes : i + KlineLimit > Cardinality(DOMAIN closes)}
           bars == [b \in last \cup {n + 1} |-> IF b = n + 1 THEN price ELSE closes[b]]
<1>3. DOMAIN closes = 1..n /\ CloseOf(n) <= slot /\ slot < CloseOf(n + 1)
      /\ Cardinality(DOMAIN closes) = n /\ IsFiniteSet(DOMAIN closes)
  BY <1>2, FS_Interval DEF BarsOfClock
<1>4. /\ UNCHANGED <<slot, closes, posting, snapshots4h, report, settled, cohort>>
      /\ klines' = [bars |-> bars, failed |-> failed, at |-> slot]
  <2>1. DOMAIN LastBars(closes) = last
    BY DEF LastBars
  <2> QED BY <1>3, <2>1 DEF FetchKlines
<1>5. last \subseteq 1..n /\ DOMAIN bars = last \cup {n + 1} /\ n + 1 \in Nat /\ slot \in Nat
  BY <1>3 DEF TriggersTypeOK
<1>6. \A b \in last : bars[b] = closes[b]
  BY <1>5
<1>7. IsFiniteSet(DOMAIN bars)
  BY <1>3, <1>5, FS_Subset, FS_AddElement
<1>8. bars \in TriggerBars
  <2>1. PICK S \in SUBSET Nat : closes \in [S -> BarCloses]
    BY DEF TriggersTypeOK, TriggerBars
  <2>2. bars \in [last \cup {n + 1} -> BarCloses]
    BY <2>1
  <2>3. last \cup {n + 1} \in SUBSET Nat
    BY <1>5
  <2> QED BY <2>2, <2>3 DEF TriggerBars
<1>9. KlineLimit \in Nat /\ (n <= KlineLimit => last = DOMAIN closes)
  BY <1>3, TriggerAssumption
<1> HIDE DEF bars, last
<1>10. TriggersTypeOK'
  BY <1>4, <1>5, <1>7, <1>8 DEF TriggersTypeOK
<1>11. BarsAreClosed'
  BY <1>2, <1>4 DEF BarsAreClosed, BarsOfClock
<1>12. NothingIsLate'
  <2>1. klines'.bars = bars /\ klines'.at = slot
    BY <1>4
  <2>2. \A b \in DOMAIN bars : CloseOf(b) <= slot => b \in DOMAIN closes /\ bars[b] = closes[b]
    <3>1. ~ (CloseOf(n + 1) <= slot)
      BY <1>3, <1>5, CloseIsNatural
    <3> QED BY <1>3, <1>5, <1>6, <3>1
  <2>3. Cardinality(DOMAIN closes) <= KlineLimit =>
            \A b \in DOMAIN closes : CloseOf(b) <= slot => b \in DOMAIN bars
    BY <1>3, <1>5, <1>9
  <2> QED BY <1>4, <1>5, <2>1, <2>2, <2>3 DEF NothingIsLate
<1> QED BY <1>4, <1>10, <1>11, <1>12 DEF CohortOfMatured, MaturedNow, SwingCohortIsStable, MaturedStays, CohortStays

\* A report: its matured events are final, and a complete one shows them all.
LEMMA ReportStep ==
    ASSUME TriggersInvariant, Report
    PROVE  TriggersInvariant'
<1> USE DEF TriggersInvariant
<1> DEFINE kept == {i \in DOMAIN klines.bars : CloseOf(i) <= slot}
           fetched == [klines EXCEPT !.bars = [b \in kept |-> klines.bars[b]]]
           events == Built(snapshots4h, fetched)
           matured == {e \in events : Matured(e, slot)}
           development == DevelopmentOf(events, slot)
           complete == klines.failed = {} /\ Cardinality(DOMAIN closes) <= KlineLimit
           validation == IF development = {} THEN {} ELSE events \ development
<1>1. /\ klines # NoKlines /\ klines' = NoKlines
      /\ report' = [events |-> events, development |-> development, complete |-> complete,
                    validation |-> validation]
      /\ settled' = settled \cup matured
      /\ cohort' = IF complete /\ cohort = {} THEN development ELSE cohort
      /\ UNCHANGED <<slot, closes, posting, snapshots4h>>
  BY DEF Report
<1>2. /\ slot \in Nat \ {0} /\ klines.failed \subseteq TriggerKeys /\ klines.bars \in TriggerBars
      /\ klines.at \in Nat /\ kept \subseteq Nat /\ IsFiniteSet(kept)
      /\ fetched.bars = [b \in kept |-> klines.bars[b]] /\ fetched.failed = klines.failed
  <2>1. PICK S \in SUBSET Nat : klines.bars \in [S -> BarCloses]
    BY DEF TriggersTypeOK, TriggerBars
  <2>2. DOMAIN klines.bars \subseteq Nat
    BY <2>1
  <2>3. IsFiniteSet(kept)
    BY FS_Subset DEF TriggersTypeOK
  <2> QED BY <2>2, <2>3 DEF TriggersTypeOK
<1>3. \A e : e \in events <=>
          /\ e \in [key : TriggerKeys \ klines.failed, bar : kept, source : {s.at : s \in snapshots4h}]
          /\ \E s \in Selected(snapshots4h, e.key, e.bar) :
                 s.at = e.source /\ Triggers(s.candidate[e.key], klines.bars[e.bar][e.key])
  <2>1. DOMAIN fetched.bars = kept /\ \A b \in kept : fetched.bars[b] = klines.bars[b]
    BY <1>2
  <2>2. fetched.failed = klines.failed
    BY <1>2
  <2> HIDE DEF fetched, kept
  <2> QED BY <2>1, <2>2 DEF Built
<1>4. development = IF Cardinality(matured) < DevelopmentSize THEN {} ELSE FirstOnes(events)
  BY DEF DevelopmentOf, FirstOnes
<1> HIDE DEF fetched, events, development, complete, validation
<1>5. \A s \in snapshots4h : s.at \in Nat
  BY DEF TriggersTypeOK, TriggerSnapshots
<1>6. events \subseteq TriggerEvents /\ IsFiniteSet(events)
  <2>1. events \subseteq TriggerEvents
    BY <1>2, <1>3, <1>5 DEF TriggerEvents
  <2>2. IsFiniteSet({s.at : s \in snapshots4h}) /\ IsFiniteSet(TriggerKeys \ klines.failed)
    BY TimesAreFinite, TriggerAssumption, FS_Difference DEF TriggersTypeOK
  <2>3. IsFiniteSet([key : TriggerKeys \ klines.failed, bar : kept, source : {s.at : s \in snapshots4h}])
    BY <1>2, <2>2, EventsAreFinite
  <2> QED BY <1>3, <2>1, <2>3, FS_Subset
\* A bar whose events have matured had closed at the fetch.
<1>7. \A b \in Nat : CloseOf(b) + OutcomeHorizon <= slot => CloseOf(b) <= klines.at /\ CloseOf(b) <= slot
  <2>1. slot <= klines.at + 1 /\ OutcomeHorizon \in Nat /\ OutcomeHorizon > 0
    BY <1>1, TriggerAssumption DEF NothingIsLate
  <2>2. ASSUME NEW b \in Nat, CloseOf(b) + OutcomeHorizon <= slot
        PROVE  CloseOf(b) <= klines.at /\ CloseOf(b) <= slot
    <3>1. CloseOf(b) \in Nat /\ slot \in Nat /\ klines.at \in Nat
      BY <1>2, CloseIsNatural
    <3> QED BY <2>1, <2>2, <3>1
  <2> QED BY <2>2
<1>8. matured \subseteq MaturedNow
  <2>1. ASSUME NEW e \in matured PROVE e \in MaturedNow
    <3>1. e \in events /\ Matured(e, slot) /\ e \in TriggerEvents /\ e.bar \in kept
      BY <1>3, <1>6
    <3>2. e.bar \in DOMAIN closes /\ klines.bars[e.bar] = closes[e.bar]
      BY <1>1, <1>2, <1>7, <3>1 DEF NothingIsLate, Matured
    <3>3. \E s \in Selected(snapshots4h, e.key, e.bar) :
                 s.at = e.source /\ Triggers(s.candidate[e.key], closes[e.bar][e.key])
      BY <1>3, <3>1, <3>2
    <3> QED BY <3>1, <3>2, <3>3 DEF MaturedNow, MaturedEvents
  <2> QED BY <2>1
<1>9. complete => matured = MaturedNow
  <2>1. ASSUME complete, NEW e \in MaturedNow PROVE e \in matured
    <3>1. /\ e \in TriggerEvents /\ e.bar \in DOMAIN closes /\ Matured(e, slot) /\ e.bar \in Nat
          /\ \E s \in Selected(snapshots4h, e.key, e.bar) :
                 s.at = e.source /\ Triggers(s.candidate[e.key], closes[e.bar][e.key])
      BY DEF MaturedNow, MaturedEvents, TriggerEvents
    <3>2. CloseOf(e.bar) <= klines.at /\ CloseOf(e.bar) <= slot
      BY <1>7, <3>1 DEF Matured
    <3>3. e.bar \in kept /\ klines.bars[e.bar] = closes[e.bar]
      BY <1>1, <2>1, <3>1, <3>2 DEF NothingIsLate, complete
    <3>4. e \in [key : TriggerKeys \ klines.failed, bar : kept, source : {s.at : s \in snapshots4h}]
      BY <2>1, <3>1, <3>3 DEF TriggerEvents, complete, Selected
    <3> QED BY <1>3, <3>1, <3>3, <3>4
  <2> QED BY <1>8, <2>1
<1>10. complete => \A d \in events \ MaturedNow, e \in MaturedNow : e.bar < d.bar
  <2> SUFFICES ASSUME complete, NEW d \in events \ MaturedNow, NEW e \in MaturedNow PROVE e.bar < d.bar
    OBVIOUS
  <2>1. ~ Matured(d, slot) /\ Matured(e, slot) /\ d.bar \in Nat /\ e.bar \in Nat
    BY <1>6, <1>9 DEF TriggerEvents
  <2>2. CloseOf(d.bar) \in Nat /\ CloseOf(e.bar) \in Nat /\ OutcomeHorizon \in Nat
    BY <2>1, CloseIsNatural, TriggerAssumption
  <2>3. ~ (CloseOf(d.bar) <= CloseOf(e.bar))
    BY <1>2, <2>1, <2>2 DEF Matured
  <2> QED BY <2>1, <2>3, CloseIsNatural
<1>11. complete /\ DevelopmentSize <= Cardinality(MaturedNow) => FirstOnes(events) = FirstOnes(MaturedNow)
  BY <1>6, <1>8, <1>9, <1>10, FirstOnesStay
<1>12. IsFiniteSet(MaturedNow) /\ Cardinality(MaturedNow) \in Nat /\ DevelopmentSize \in Nat
  <2>1. IsFiniteSet(DOMAIN closes)
    BY FS_Interval DEF BarsAreClosed, BarsOfClock
  <2> QED BY <2>1, MaturedIsFinite, FS_CardinalityType, TriggerAssumption DEF MaturedNow, TriggersTypeOK
<1> HIDE DEF matured
<1>13. complete => development = IF DevelopmentSize <= Cardinality(MaturedNow) THEN FirstOnes(MaturedNow) ELSE {}
  BY <1>4, <1>9, <1>11, <1>12
<1>14. MaturedNow' = MaturedNow
  BY <1>1 DEF MaturedNow
<1>15. CohortOfMatured'
  <2>1. cohort' # {} => DevelopmentSize <= Cardinality(MaturedNow) /\ cohort' = FirstOnes(MaturedNow)
    BY <1>1, <1>13 DEF CohortOfMatured
  <2> QED BY <1>1, <1>8, <1>14, <2>1 DEF CohortOfMatured
<1>16. report'.complete = complete /\ report'.events = events /\ report'.development = development
       /\ report'.validation = validation
  BY <1>1
<1>17. MaturedStays'
  BY <1>1, <1>8, <1>9, <1>16 DEF MaturedStays, CohortOfMatured, matured
<1>18. CohortStays'
  <2> SUFFICES ASSUME complete, cohort' # {}
               PROVE  /\ development = cohort'
                      /\ \A d \in development, v \in validation : Precedes4h(d, v)
                      /\ development \subseteq settled'
    BY <1>16 DEF CohortStays
  <2>1. development = cohort'
    BY <1>1, <1>13, <1>15, <1>14 DEF CohortOfMatured
  <2>2. development = FirstOnes(events) /\ validation = events \ FirstOnes(events)
    BY <1>4, <2>1 DEF validation
  <2>3. \A d \in development, v \in validation : Precedes4h(d, v)
    BY <1>6, <2>2, FirstOnesPrecede
  <2>4. development \subseteq MaturedNow
    BY <1>14, <1>15, <2>1 DEF CohortOfMatured, FirstOnes
  <2> QED BY <1>1, <1>9, <2>1, <2>3, <2>4
<1>19. TriggersTypeOK' /\ BarsAreClosed' /\ NothingIsLate'
  <2>1. NoKlines \in [bars : TriggerBars, failed : SUBSET TriggerKeys, at : Nat] /\ IsFiniteSet(DOMAIN NoKlines.bars)
    <3>1. {} \in SUBSET Nat /\ <<>> \in [{} -> BarCloses] /\ DOMAIN <<>> = {}
      OBVIOUS
    <3> QED BY <3>1, FS_EmptySet DEF TriggerBars, NoKlines
  <2> QED BY <1>1, <2>1 DEF TriggersTypeOK, BarsAreClosed, BarsOfClock, NothingIsLate
<1> QED BY <1>15, <1>17, <1>18, <1>19 DEF SwingCohortIsStable

\* Every step keeps the invariant of the triggers.
LEMMA TriggersStep == TriggersInvariant /\ [TriggersNext]_triggerVars => TriggersInvariant'
<1> SUFFICES ASSUME TriggersInvariant, [TriggersNext]_triggerVars PROVE TriggersInvariant'
  OBVIOUS
<1>1. ASSUME UNCHANGED triggerVars PROVE TriggersInvariant'
  BY <1>1 DEF triggerVars, TriggersInvariant, TriggersTypeOK, BarsAreClosed, BarsOfClock, NothingIsLate,
              CohortOfMatured, MaturedNow, SwingCohortIsStable, MaturedStays, CohortStays
<1> QED BY <1>1, PostStep, SlotStep, FetchStep, ReportStep DEF TriggersNext

\* forward_event_status, build_trigger_events and
\* build_label_blind_cohort_partition: built anew from the captures and the
\* klines, a matured event and the development cohort are nevertheless the
\* same in every complete report, for any captures, prices, posts and fetches.
THEOREM SwingCohortIsStableHolds == TriggersSpec => []SwingCohortIsStable
<1>1. TriggersInvariant => SwingCohortIsStable
  BY DEF TriggersInvariant
<1> QED BY <1>1, TriggersBegin, TriggersStep, PTL DEF TriggersSpec
=============================================================================
