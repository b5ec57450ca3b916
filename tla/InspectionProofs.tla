-------------------------- MODULE InspectionProofs --------------------------
(***************************************************************************)
(* Theorems about JobInspection, for any events, processes, page size and   *)
(* filters: a row that stays as it is is listed exactly once, a row that    *)
(* moves is not listed again unless it is replayed, and every page moves    *)
(* the cursor on.                                                           *)
(***************************************************************************)
EXTENDS JobInspection, WebhookClaimProofs

\* A position in the order of the listing.
Positions == [updated_at : Nat, id : Nat, status : Statuses \cup {None}]

\* The row of e is not listed before the cursor's.
Passed(e) == ~Ahead(cursor, CursorAt(e, filter))

\* What has been listed when the scan stands at its cursor: the rows that were
\* not rewritten and that the cursor has passed.
ScanInv ==
    /\ scan \in {"idle", "open", "complete"}
    /\ filter \in Statuses \cup {None}
    /\ times \in [Events -> Nat]
    /\ rewritten \in SUBSET Events
    /\ scan = "idle" => /\ cursor = None
                        /\ \A e \in Events : times[e] = 0
    /\ scan = "open" =>
           /\ cursor \in Cursor /\ cursor.status = filter
           /\ \A e \in Events \ rewritten :
                  times[e] = IF Admitted(e) /\ Passed(e) THEN 1 ELSE 0
    /\ scan = "complete" => StableJobsListedOnce

-----------------------------------------------------------------------------
(* The order of the listing.                                                *)

\* ORDER BY updated_at DESC, id DESC is a strict order ...
LEMMA AheadStrict ==
    ASSUME NEW a \in Positions, NEW b \in Positions, Ahead(a, b)
    PROVE  ~Ahead(b, a)
BY DEF Ahead, Positions

\* ... that is transitive ...
LEMMA AheadTransitive ==
    ASSUME NEW a \in Positions, NEW b \in Positions, NEW c \in Positions,
           Ahead(a, b), Ahead(b, c)
    PROVE  Ahead(a, c)
BY DEF Ahead, Positions

\* The position of an existing row.
LEMMA RowPosition ==
    ASSUME TypeOK, NEW e \in Events, Exists(e), NEW s \in Statuses \cup {None}
    PROVE  CursorAt(e, s) \in Cursor /\ CursorAt(e, s) \in Positions
<1>1. jobs[e] \in JobRow
    BY DEF TypeOK, Exists
<1>2. Id[e] \in Nat /\ jobs[e].updated_at \in Instants
    BY <1>1, InspectionAssumption DEF JobRow
<1>3. Instants \subseteq Nat
    BY SettingsAssumption DEF Instants
<1> QED
    BY <1>2, <1>3 DEF CursorAt, Cursor, Positions

\* ... and total, because no two rows share an id.
LEMMA AheadTotal ==
    ASSUME TypeOK, NEW d \in Events, NEW e \in Events, Exists(d), Exists(e), d # e,
           NEW s \in Statuses \cup {None}
    PROVE  Ahead(CursorAt(d, s), CursorAt(e, s)) \/ Ahead(CursorAt(e, s), CursorAt(d, s))
<1>1. Id[d] # Id[e]
    BY InspectionAssumption DEF IsInjective
<1>2. CursorAt(d, s) \in Positions /\ CursorAt(e, s) \in Positions
    BY RowPosition
<1> QED
    BY <1>1, <1>2 DEF Ahead, Positions, CursorAt

\* The status in a position does not matter to the order.
LEMMA ListedBeforeIsAhead ==
    ASSUME NEW d, NEW e, NEW s
    PROVE  ListedBefore(d, e) <=> Ahead(CursorAt(d, s), CursorAt(e, s))
BY DEF ListedBefore, Ahead, CursorAt

\* A page holds exactly the matching rows up to its last one.
LEMMA PageEndsAtLast ==
    ASSUME TypeOK, NEW s \in Statuses \cup {None}, NEW last \in Page(s),
           \A e \in Page(s) \ {last} : ListedBefore(e, last)
    PROVE  \A e \in Matching(s) :
               e \in Page(s) <=> ~Ahead(CursorAt(last, s), CursorAt(e, s))
<1> DEFINE Earlier(e) == {d \in Matching(s) : ListedBefore(d, e)}
<1>1. \A e \in Matching(s) : e \in Events /\ CursorAt(e, s) \in Positions
    BY RowPosition DEF Matching
<1>2. last \in Matching(s) /\ Cardinality(Earlier(last)) < PageLimit
    BY DEF Page
<1>3. ASSUME NEW e \in Matching(s), e \in Page(s)
      PROVE  ~Ahead(CursorAt(last, s), CursorAt(e, s))
    <2>1. CASE e = last
        BY <1>1, <1>2, <2>1, AheadStrict
    <2>2. CASE e # last
        BY <1>1, <1>2, <1>3, <2>2, AheadStrict, ListedBeforeIsAhead
    <2> QED
        BY <2>1, <2>2
<1>4. ASSUME NEW e \in Matching(s), ~Ahead(CursorAt(last, s), CursorAt(e, s))
      PROVE  e \in Page(s)
    <2>1. CASE e = last
        BY <2>1
    <2>2. CASE e # last
        <3>1. Ahead(CursorAt(e, s), CursorAt(last, s))
            BY <1>2, <1>4, <2>2, AheadTotal DEF Matching
        <3>2. ASSUME NEW d \in Earlier(e) PROVE d \in Earlier(last)
            <4>1. Ahead(CursorAt(d, s), CursorAt(e, s))
                BY <3>2, ListedBeforeIsAhead
            <4>2. Ahead(CursorAt(d, s), CursorAt(last, s))
                BY <1>1, <1>2, <3>1, <4>1, AheadTransitive
            <4> QED
                BY <4>2, ListedBeforeIsAhead
        <3>3. IsFiniteSet(Earlier(last))
            <4>1. Earlier(last) \subseteq Events
                BY <1>1
            <4> QED
                BY <4>1, EventsAssumption, FS_Subset
        <3>4. Cardinality(Earlier(e)) <= Cardinality(Earlier(last))
            <4>1. Earlier(e) \subseteq Earlier(last)
                BY <3>2
            <4> QED
                BY <4>1, <3>3, FS_Subset
        <3>5. /\ Cardinality(Earlier(e)) \in Nat
              /\ Cardinality(Earlier(last)) \in Nat
            <4>1. Earlier(e) \subseteq Earlier(last)
                BY <3>2
            <4> QED
                BY <4>1, <3>3, FS_Subset, FS_CardinalityType
        <3>6. PageLimit \in Nat
            BY InspectionAssumption
        <3>7. Cardinality(Earlier(e)) < PageLimit
            BY <1>2, <3>4, <3>5, <3>6
        <3> QED
            BY <3>7 DEF Page
    <2> QED
        BY <2>1, <2>2
<1> QED
    BY <1>3, <1>4

-----------------------------------------------------------------------------
(* The steps.                                                               *)

LEMMA ScanInvInit == InitInspected => ScanInv
BY InspectionAssumption DEF InitInspected, ScanInv

\* A step of the core leaves what has been listed of the rows it does not touch.
LEMMA CoreStepScan ==
    ASSUME ScanInv, CoreStep
    PROVE  ScanInv'
<1>1. scan' = scan /\ filter' = filter /\ cursor' = cursor /\ times' = times
    BY DEF CoreStep
<1>2. rewritten' \in SUBSET Events
    BY DEF CoreStep, ScanInv
<1>3. ASSUME scan = "open"
      PROVE  \A e \in Events \ rewritten' :
                 times[e] = IF (Admitted(e) /\ Passed(e))' THEN 1 ELSE 0
    <2> SUFFICES ASSUME NEW e \in Events \ rewritten'
                 PROVE  times[e] = IF (Admitted(e) /\ Passed(e))' THEN 1 ELSE 0
        OBVIOUS
    <2>1. e \notin rewritten /\ jobs'[e] = jobs[e]
        BY <1>3 DEF CoreStep
    <2>2. Admitted(e)' <=> Admitted(e)
        BY <1>1, <2>1 DEF Admitted, Exists
    <2>3. Passed(e)' <=> Passed(e)
        BY <1>1, <2>1 DEF Passed, CursorAt
    <2>4. times[e] = IF Admitted(e) /\ Passed(e) THEN 1 ELSE 0
        BY <1>3, <2>1 DEF ScanInv
    <2> QED
        BY <2>2, <2>3, <2>4
<1>4. scan # "complete"
    BY DEF CoreStep
<1> QED
    BY <1>1, <1>2, <1>3, <1>4 DEF ScanInv

\* Before a page is read, the rows it may show have not been listed, and every
\* other stable row that the filter admits has been listed once.
LEMMA BeforePage ==
    ASSUME ScanInv, NEW s \in Filters, FetchPage(s)
    PROVE  /\ filter' = s /\ s \in Statuses \cup {None}
           /\ cursor = None \/ cursor \in Cursor
           /\ \A e \in Events \ rewritten :
                  times[e] = IF Admitted(e)' /\ e \notin Matching(s) THEN 1 ELSE 0
<1>1. s \in Statuses \cup {None}
    BY InspectionAssumption
<1>2. \A e \in Events : Admitted(e)' <=> Exists(e) /\ (filter' = None \/ jobs[e].status = filter')
    BY DEF FetchPage, Admitted, Exists, vars
<1>3. CASE scan = "idle"
    <2>1. cursor = None /\ filter' = s /\ \A e \in Events : times[e] = 0
        BY <1>3 DEF ScanInv, FetchPage
    <2>2. \A e \in Events : Admitted(e)' => e \in Matching(s)
        BY <1>2, <2>1 DEF Matching
    <2> QED
        BY <1>1, <2>1, <2>2
<1>4. CASE scan = "open"
    <2>1. cursor \in Cursor /\ cursor.status = filter /\ cursor # None
        BY <1>4, CursorAssumption DEF ScanInv
    <2>2. filter = s /\ filter' = s
        BY <2>1 DEF FetchPage, Accepted
    <2>3. \A e \in Events : Admitted(e)' <=> Admitted(e)
        BY <1>2, <2>2 DEF Admitted
    <2>4. \A e \in Events : e \in Matching(s) <=> Admitted(e) /\ ~Passed(e)
        BY <2>1, <2>2 DEF Matching, Admitted, Passed
    <2>5. \A e \in Events \ rewritten :
              times[e] = IF Admitted(e) /\ Passed(e) THEN 1 ELSE 0
        BY <1>4 DEF ScanInv
    <2> QED
        BY <1>1, <2>1, <2>2, <2>3, <2>4, <2>5
<1> QED
    BY <1>3, <1>4 DEF ScanInv, FetchPage

\* A page that is not the last puts the cursor on its last row: of the rows that
\* could be listed it passes those of the page, and none is ahead of it again.
LEMMA PageCursor ==
    ASSUME TypeOK, ScanInv, NEW s \in Filters, FetchPage(s), scan' = "open"
    PROVE  /\ cursor' \in Cursor /\ cursor'.status = filter'
           /\ \A e \in Matching(s) : e \in Page(s) <=> Passed(e)'
           /\ \A e \in Events : Exists(e) /\ cursor # None /\ ~Ahead(cursor, CursorAt(e, s))
                  => Passed(e)'
<1>1. /\ filter' = s /\ s \in Statuses \cup {None}
      /\ cursor = None \/ cursor \in Cursor
    BY BeforePage
<1>2. jobs' = jobs /\ Page(s) \subseteq Matching(s)
    BY DEF FetchPage, vars, Page
<1>3. \A e \in Matching(s) : e \in Events /\ Exists(e)
    BY DEF Matching
<1>4. PICK last \in Page(s) :
          /\ \A e \in Page(s) \ {last} : ListedBefore(e, last)
          /\ cursor' = CursorAt(last, s)
    BY DEF FetchPage, NextCursor
<1>5. last \in Matching(s)
    BY <1>2
<1>6. cursor' \in Cursor /\ cursor' \in Positions /\ cursor'.status = filter'
    BY <1>1, <1>3, <1>4, <1>5, RowPosition DEF CursorAt
<1>7. \A e \in Events : Passed(e)' <=> ~Ahead(cursor', CursorAt(e, s))
    BY <1>1, <1>2 DEF Passed, CursorAt
<1>8. \A e \in Matching(s) : e \in Page(s) <=> Passed(e)'
    BY <1>1, <1>3, <1>4, <1>7, PageEndsAtLast
<1>9. ASSUME NEW e \in Events, Exists(e), cursor # None, ~Ahead(cursor, CursorAt(e, s))
      PROVE  Passed(e)'
    <2>1. CursorAt(e, s) \in Positions
        BY <1>1, <1>9, RowPosition
    <2>2. cursor \in Positions
        BY <1>1, <1>9, SettingsAssumption DEF Cursor, Positions, Instants
    <2>3. Ahead(cursor, cursor')
        BY <1>4, <1>5, <1>9 DEF Matching
    <2> QED
        BY <1>6, <1>7, <1>9, <2>1, <2>2, <2>3, AheadTransitive
<1> QED
    BY <1>6, <1>8, <1>9

\* A page lists the stable rows between the old cursor and the new one.
LEMMA FetchPageScan ==
    ASSUME TypeOK, ScanInv, NEW s \in Filters, FetchPage(s)
    PROVE  ScanInv'
<1>1. /\ filter' = s /\ s \in Statuses \cup {None}
      /\ cursor = None \/ cursor \in Cursor
      /\ \A e \in Events \ rewritten :
             times[e] = IF Admitted(e)' /\ e \notin Matching(s) THEN 1 ELSE 0
    BY BeforePage
<1>2. /\ rewritten' = rewritten /\ jobs' = jobs
      /\ times' = [e \in Events |-> IF e \in Page(s) THEN times[e] + 1 ELSE times[e]]
    BY DEF FetchPage, vars
<1>3. times' \in [Events -> Nat] /\ rewritten' \in SUBSET Events
    BY <1>2 DEF ScanInv
<1>4. \A e \in Matching(s) : e \in Events /\ Exists(e) /\ Admitted(e)'
    BY <1>1, <1>2 DEF Matching, Admitted, Exists
<1>5. Page(s) \subseteq Matching(s)
    BY DEF Page
<1>6. \A e \in Events \ rewritten :
          times'[e] = IF Admitted(e)' /\ (e \in Matching(s) => e \in Page(s)) THEN 1 ELSE 0
    BY <1>1, <1>2, <1>4, <1>5
<1>7. CASE Page(s) = Matching(s) /\ scan' = "complete"
    <2>1. StableJobsListedOnce'
        BY <1>2, <1>6, <1>7 DEF StableJobsListedOnce
    <2> QED
        BY <1>1, <1>3, <1>7, <2>1 DEF ScanInv
<1>8. CASE scan' = "open"
    <2>1. /\ cursor' \in Cursor /\ cursor'.status = filter'
          /\ \A e \in Matching(s) : e \in Page(s) <=> Passed(e)'
        BY <1>8, PageCursor
    <2>2. ASSUME NEW e \in Events, Admitted(e)', e \notin Matching(s)
          PROVE  Passed(e)'
        <3>1. Exists(e) /\ cursor # None /\ ~Ahead(cursor, CursorAt(e, s))
            BY <1>1, <1>2, <2>2 DEF Admitted, Exists, Matching
        <3> QED
            BY <1>8, <3>1, PageCursor
    <2>3. \A e \in Events \ rewritten' :
              times'[e] = IF Admitted(e)' /\ Passed(e)' THEN 1 ELSE 0
        BY <1>2, <1>6, <2>1, <2>2
    <2> QED
        BY <1>1, <1>3, <1>8, <2>1, <2>3 DEF ScanInv
<1> QED
    BY <1>7, <1>8 DEF FetchPage

\* Every step of the system preserves the types of the core and the scan.
LEMMA InspectedStep ==
    TypeInv /\ ScanInv /\ [InspectedNext]_inspected_vars => (TypeInv /\ ScanInv)'
<1> SUFFICES ASSUME TypeInv, ScanInv, [InspectedNext]_inspected_vars
             PROVE  (TypeInv /\ ScanInv)'
    OBVIOUS
<1>1. CASE CoreStep
    BY <1>1, CoreStepScan, TypeInvStep DEF CoreStep
<1>2. CASE \E s \in Filters : FetchPage(s)
    <2>1. TypeInv'
        BY <1>2, TypeInvStep DEF FetchPage
    <2> QED
        BY <1>2, <2>1, FetchPageScan DEF TypeInv
<1>3. CASE UNCHANGED inspected_vars
    <2>1. UNCHANGED <<vars, scan, filter, cursor, times, rewritten>>
        BY <1>3 DEF inspected_vars, scan_vars
    <2>2. TypeInv'
        BY <2>1, TypeInvStep
    <2>3. ScanInv'
        BY <2>1 DEF ScanInv, StableJobsListedOnce, Admitted, Passed, CursorAt, Exists, vars
    <2> QED
        BY <2>2, <2>3
<1> QED
    BY <1>1, <1>2, <1>3 DEF InspectedNext

\* A row that no transaction touched from the first page to the last is listed
\* exactly once if the filter admits it, else never: whatever the other rows,
\* the workers and the replays do, for any page size
\* (list_webhook_delivery_jobs).
THEOREM StableJobsAreListedOnce == InspectedSpec => []StableJobsListedOnce
<1>1. InitInspected => TypeInv /\ ScanInv
    BY ScanInvInit, TypeInvInit DEF InitInspected
<1>2. ScanInv => StableJobsListedOnce
    BY DEF ScanInv, StableJobsListedOnce
<1> QED
    BY <1>1, <1>2, InspectedStep, PTL DEF InspectedSpec

\* Every page but the last moves the cursor strictly on in the order of the
\* listing, whichever filter it is asked for.
THEOREM ScanAlwaysAdvances == InspectedSpec => ScanAdvances
<1>1. ASSUME [InspectedNext]_inspected_vars
      PROVE  [times' # times => scan' = "complete" \/ cursor = None
                                    \/ Ahead(cursor, cursor')]_inspected_vars
    <2>1. CASE CoreStep
        BY <2>1 DEF CoreStep
    <2>2. ASSUME NEW s \in Filters, FetchPage(s), scan' # "complete", cursor # None
          PROVE  Ahead(cursor, cursor')
        <3>1. PICK last \in Page(s) : cursor' = CursorAt(last, s)
            BY <2>2 DEF FetchPage, NextCursor
        <3> QED
            BY <2>2, <3>1 DEF Page, Matching
    <2> QED
        BY <1>1, <2>1, <2>2 DEF InspectedNext
<1> QED
    BY <1>1, PTL DEF InspectedSpec, ScanAdvances

-----------------------------------------------------------------------------
(* A job is listed again only if it was replayed.                           *)

\* A job that was not replayed since it was listed was listed once, and the
\* cursor stays past its row.
ListedInv ==
    \A e \in Events \ replayed :
        times[e] > 0 => /\ times[e] = 1 /\ Exists(e)
                        /\ scan = "complete" \/ (scan = "open" /\ Passed(e))

LEMMA ListedInvInit == InitInspected => ListedInv
BY DEF InitInspected, ListedInv

\* Every step of the scan is a step of the core or leaves it alone.
LEMMA ScanIsBesideTheCore == [InspectedNext]_inspected_vars => [Next]_vars
BY DEF InspectedNext, CoreStep, FetchPage, inspected_vars

LEMMA RowsHold == ASSUME Timely PROVE InspectedSpec => []RowsInv
BY Timely, RowsInvInit, RowsInvStep, ScanIsBesideTheCore, PTL DEF InspectedSpec, InitInspected

\* A row that the cursor has passed stays behind it while its timestamp grows.
LEMMA StaysPassed ==
    ASSUME NEW e \in Events, cursor \in Cursor, Passed(e),
           jobs[e].updated_at \in Nat, jobs'[e].updated_at \in Nat,
           jobs[e].updated_at <= jobs'[e].updated_at,
           cursor' = cursor, filter' = filter
    PROVE  Passed(e)'
<1>1. cursor.updated_at \in Nat /\ cursor.id \in Nat /\ Id[e] \in Nat
    BY SettingsAssumption, InspectionAssumption DEF Cursor, Instants
<1>2. ~Ahead(cursor, CursorAt(e, filter))
    BY DEF Passed
<1>3. /\ cursor.updated_at <= jobs[e].updated_at
      /\ cursor.updated_at = jobs[e].updated_at => cursor.id <= Id[e]
    BY <1>1, <1>2 DEF Ahead, CursorAt
<1>4. ~Ahead(cursor, CursorAt(e, filter)')
    BY <1>1, <1>3 DEF Ahead, CursorAt
<1> QED
    BY <1>4 DEF Passed, Ahead

LEMMA CoreStepListed ==
    ASSUME RowsInv, ScanInv, ListedInv, CoreStep
    PROVE  ListedInv'
<1>1. scan' = scan /\ filter' = filter /\ cursor' = cursor /\ times' = times
    BY DEF CoreStep
<1> SUFFICES ASSUME NEW e \in Events \ replayed', times[e] > 0
             PROVE  times[e] = 1 /\ Exists(e)' /\ scan = "open" /\ Passed(e)'
    BY <1>1 DEF ListedInv
<1>2. times[e] = 1 /\ Exists(e) /\ scan = "open" /\ Passed(e)
    BY DEF ListedInv, CoreStep
<1>3. [Next]_vars
    BY DEF CoreStep
<1>4. /\ Exists(e)'
      /\ \/ jobs[e].updated_at <= jobs'[e].updated_at
         \/ \E r \in Replays : CommitReplay(r) /\ Current(r) = e
    BY <1>2, <1>3, RowsStampedForward DEF RowsInv
<1>5. jobs[e].updated_at <= jobs'[e].updated_at
    <2> SUFFICES ASSUME NEW r \in Replays, CommitReplay(r), Current(r) = e
                 PROVE  FALSE
        BY <1>4
    <2>1. pc[r] = "commit_replay" /\ pc'[r] = "done"
        <3>1. pc \in [Procs -> PCs] /\ r \in Procs
            BY DEF RowsInv, TypeInv, TypeOK, Procs, Requests
        <3> QED
            BY <3>1 DEF CommitReplay, Goto
    <2>2. e \in replayed'
        BY <2>1 DEF CoreStep
    <2> QED
        BY <2>2
<1>6. jobs[e].updated_at \in Nat /\ jobs'[e].updated_at \in Nat
    <2>1. TypeOK /\ TypeOK'
        BY <1>3, TypeInvStep DEF RowsInv, TypeInv
    <2>2. jobs[e] \in JobRow /\ jobs'[e] \in JobRow
        BY <1>2, <1>4, <2>1 DEF TypeOK, Exists
    <2> QED
        BY <2>2, SettingsAssumption DEF JobRow, Instants
<1>7. cursor \in Cursor
    BY <1>2 DEF ScanInv
<1> QED
    BY <1>1, <1>2, <1>4, <1>5, <1>6, <1>7, StaysPassed

LEMMA FetchPageListed ==
    ASSUME TypeOK, ScanInv, ListedInv, NEW s \in Filters, FetchPage(s)
    PROVE  ListedInv'
<1>1. /\ scan # "complete" /\ replayed' = replayed /\ jobs' = jobs
      /\ times' = [e \in Events |-> IF e \in Page(s) THEN times[e] + 1 ELSE times[e]]
      /\ scan' \in {"complete", "open"}
    BY DEF FetchPage, vars
<1> SUFFICES ASSUME NEW e \in Events \ replayed, times'[e] > 0
             PROVE  /\ times'[e] = 1 /\ Exists(e)
                    /\ scan' = "complete" \/ (scan' = "open" /\ Passed(e)')
    BY <1>1 DEF ListedInv, Exists
<1>2. times[e] > 0 => /\ times[e] = 1 /\ Exists(e) /\ scan = "open" /\ cursor # None
                      /\ ~Ahead(cursor, CursorAt(e, s))
    <2> SUFFICES ASSUME times[e] > 0
                 PROVE  /\ times[e] = 1 /\ Exists(e) /\ scan = "open" /\ cursor # None
                        /\ ~Ahead(cursor, CursorAt(e, s))
        OBVIOUS
    <2>1. times[e] = 1 /\ Exists(e) /\ scan = "open" /\ Passed(e)
        BY <1>1 DEF ListedInv
    <2>2. cursor # None
        BY <2>1, CursorAssumption DEF ScanInv
    <2>3. ~Ahead(cursor, CursorAt(e, s))
        BY <2>1 DEF Passed, Ahead, CursorAt
    <2> QED
        BY <2>1, <2>2, <2>3
<1>3. CASE e \in Page(s)
    <2>1. e \in Matching(s)
        BY <1>3 DEF Page
    <2>2. times[e] = 0
        <3>1. ~(times[e] > 0)
            BY <1>2, <2>1 DEF Matching
        <3> QED
            BY <3>1 DEF ScanInv
    <2>3. scan' = "open" => Passed(e)'
        BY <1>3, <2>1, PageCursor
    <2> QED
        BY <1>1, <1>3, <2>1, <2>2, <2>3 DEF Matching
<1>4. CASE e \notin Page(s)
    <2>1. times'[e] = times[e]
        BY <1>1, <1>4
    <2>2. scan' = "open" => Passed(e)'
        BY <1>2, <2>1, PageCursor
    <2> QED
        BY <1>1, <1>2, <2>1, <2>2
<1> QED
    BY <1>3, <1>4

LEMMA ListedStep ==
    RowsInv /\ ScanInv /\ ListedInv /\ [InspectedNext]_inspected_vars => ListedInv'
<1> SUFFICES ASSUME RowsInv, ScanInv, ListedInv, [InspectedNext]_inspected_vars
             PROVE  ListedInv'
    OBVIOUS
<1>1. CASE CoreStep
    BY <1>1, CoreStepListed
<1>2. CASE \E s \in Filters : FetchPage(s)
    BY <1>2, FetchPageListed DEF RowsInv, TypeInv
<1>3. CASE UNCHANGED inspected_vars
    <2>1. /\ jobs' = jobs /\ scan' = scan /\ filter' = filter /\ cursor' = cursor
          /\ times' = times /\ replayed' = replayed
        BY <1>3 DEF inspected_vars, scan_vars, vars
    <2> QED
        BY <2>1 DEF ListedInv, Passed, CursorAt, Exists
<1> QED
    BY <1>1, <1>2, <1>3 DEF InspectedNext

\* While iterations are timely, a job appears a second time in the pages of one
\* scan only if it was replayed after it was listed: recoveries, claims and
\* completions stamp a row no earlier than it was stamped, so it stays behind
\* the cursor (list_webhook_delivery_jobs).
THEOREM RelistingNeedsReplay == ASSUME Timely PROVE InspectedSpec => []RelistedOnlyAfterReplay
<1>1. InitInspected => TypeInv /\ ScanInv /\ ListedInv
    BY ListedInvInit, ScanInvInit, TypeInvInit DEF InitInspected
<1>2. ScanInv /\ ListedInv => RelistedOnlyAfterReplay
    <2> SUFFICES ASSUME ScanInv, ListedInv, NEW e \in Events, times[e] > 1, e \notin replayed
                 PROVE  FALSE
        BY DEF RelistedOnlyAfterReplay
    <2>1. times[e] \in Nat
        BY DEF ScanInv
    <2> QED
        BY <2>1 DEF ListedInv
<1> QED
    BY <1>1, <1>2, RowsHold, InspectedStep, ListedStep, PTL DEF InspectedSpec
=============================================================================
