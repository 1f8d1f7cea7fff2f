------------------------------- MODULE Queries -------------------------------
(***************************************************************************)
(* Reads of the storage API server that take several statements while      *)
(* others write: a list in pages (internal/storage/repository/list.go) and *)
(* the scan status of a container of a WorkloadScanReport, counted from    *)
(* two tables (workloadscanreport_repository.go).  The reader does one of  *)
(* the two at a time.                                                      *)
(***************************************************************************)
EXTENDS Naturals, Sequences, FiniteSets, Functions

CONSTANTS
    Images,   \* names of Image objects; all are platforms of one image
    MaxId,    \* bound: row ids drawn
    NoLabel,  \* the object has labels, but none under the key
    NoLabels, \* the object has no labels at all
    NoList    \* no list is going on

VARIABLES
    nextId,    \* the sequence behind the id column
    id,        \* id[i]: the row of image i, 0: none
    drawn,     \* drawn[i]: id of a row whose insertion is not committed, 0: none
    label,     \* label[i]: the label of the object under the key
    reports,   \* images with a VulnerabilityReport
    page,      \* the list: its options, the pages so far
    steady,    \* history: rows that matched all along since the list began
    status     \* the read of the scan status

tableVars == <<nextId, id, drawn, label, reports>>
vars == <<tableVars, page, steady, status>>

Values == {"a", "b"}
Labels == Values \cup {NoLabel, NoLabels}

Operators == {"Equals", "NotEquals", "In", "NotIn", "Exists", "DoesNotExist"}

\* A label selector with one requirement; "Everything" has none.
Selectors == [op : Operators, values : {{"a"}}] \cup [op : {"Everything"}, values : {{}}]

Lists == [sel : Selectors, limit : 0..2, token : 0..MaxId, items : Seq(1..MaxId),
          done : BOOLEAN]

Claims == {"", "WaitingForScan", "ScanInProgress", "ScanComplete"}

ASSUME QueriesAssumption ==
    IsFiniteSet(Images) /\ MaxId \in Nat /\ NoList \notin Lists

TypeOK ==
    /\ nextId \in 1..MaxId + 1
    /\ id \in [Images -> 0..MaxId] /\ drawn \in [Images -> 0..MaxId]
    /\ label \in [Images -> Labels]
    /\ reports \subseteq Images
    /\ page \in Lists \cup {NoList}
    /\ steady \subseteq 1..MaxId
    /\ status \in [step : {"idle", "counted", "read"}, images : 0..Cardinality(Images),
                   claim : Claims, truth : Claims, calm : BOOLEAN, orphans : BOOLEAN]

Init ==
    /\ nextId = 1
    /\ id = [i \in Images |-> 0] /\ drawn = [i \in Images |-> 0]
    /\ label = [i \in Images |-> "a"]
    /\ reports = {}
    /\ page = NoList
    /\ steady = {}
    /\ status = [step |-> "idle", images |-> 0, claim |-> "", truth |-> "",
                 calm |-> TRUE, orphans |-> FALSE]

-----------------------------------------------------------------------------
\* The value of the WHERE expression of a selector.  The label read from the
\* object is NULL when it is missing, and so is every comparison with it;
\* jsonb_exists of missing labels is NULL, and so is its negation.
Where(sel, l) ==
    LET Value(b) == IF b THEN "true" ELSE "false"
    IN  CASE sel.op = "Everything" -> "true"
          [] sel.op \in {"Equals", "In"} ->
                IF l \in Values THEN Value(l \in sel.values) ELSE "null"
          [] sel.op \in {"NotEquals", "NotIn"} ->
                IF l \in Values THEN Value(l \notin sel.values) ELSE "null"
          [] sel.op = "Exists" ->
                IF l # NoLabels THEN Value(l \in Values) ELSE "null"
          [] sel.op = "DoesNotExist" ->
                IF l # NoLabels THEN Value(l \notin Values) ELSE "null"

\* A row whose expression is NULL is left out, like one where it is false.
Rows(sel) == {id[i] : i \in {i \in Images : id[i] # 0 /\ Where(sel, label[i]) = "true"}}

\* What Kubernetes says a selector means: an object without the label matches
\* the selectors that exclude a value of it, or the label itself.
Means(sel, l) ==
    CASE sel.op = "Everything"             -> TRUE
      [] sel.op \in {"Equals", "In"}       -> l \in sel.values
      [] sel.op \in {"NotEquals", "NotIn"} -> l \notin sel.values
      [] sel.op = "Exists"                 -> l \in Values
      [] sel.op = "DoesNotExist"           -> l \notin Values

\* The objects that a list owes its reader: those that Kubernetes says match,
\* except where SQL comes to no verdict.  There the code departs from
\* Kubernetes: Means holds, and the row is left out.
Meant(sel, l) == Means(sel, l) /\ Where(sel, l) # "null"

\* Their rows.
Lasting(sel) == {id[i] : i \in {i \in Images : id[i] # 0 /\ Meant(sel, label[i])}}

\* The numbers of S, each after the smaller ones.
InOrder(S) ==
    CHOOSE s \in [1..Cardinality(S) -> S] :
        \A m, n \in 1..Cardinality(S) : m < n => s[m] < s[n]

\* Mutant: the page starts with the last row of the page before.
PageRowsFrom(sel, token) == InOrder({n \in Rows(sel) : token = 0 \/ n >= token})

\* The rows after the continue token, in the order of their ids.
PageRows(sel, token) == InOrder({n \in Rows(sel) : n > token})

\* LIMIT fetches one row more than asked for; that row only says that there
\* is another page.
Take(rows, limit) ==
    [items |-> IF limit > 0 /\ Len(rows) > limit THEN SubSeq(rows, 1, limit) ELSE rows,
     more |-> limit > 0 /\ Len(rows) > limit]

\* One call of list; without more pages there is no continue token.
ReadPage(p) ==
    LET t == Take(PageRows(p.sel, p.token), p.limit)
    IN  [p EXCEPT !.items = @ \o t.items,
                  !.token = IF t.more THEN t.items[Len(t.items)] ELSE 0,
                  !.done = ~t.more]

StartList ==
    /\ page = NoList /\ status.step = "idle"
    /\ \E sel \in Selectors, limit \in 0..2 :
          /\ page' = ReadPage([sel |-> sel, limit |-> limit, token |-> 0,
                               items |-> <<>>, done |-> FALSE])
          /\ steady' = Lasting(sel)
    /\ UNCHANGED <<tableVars, status>>

ContinueList ==
    /\ page # NoList /\ ~page.done
    /\ page' = ReadPage(page)
    /\ UNCHANGED <<tableVars, steady, status>>

EndList ==
    /\ page # NoList /\ page.done
    /\ page' = NoList /\ steady' = {}
    /\ UNCHANGED <<tableVars, status>>

-----------------------------------------------------------------------------
(* The two queries behind the status of one container.                     *)

Stored == {i \in Images : id[i] # 0}

\* Mutant: one report is as good as all.
computeScanStatusAny(imageCount, vulnReportCount) ==
    IF imageCount = 0 THEN "WaitingForScan"
    ELSE IF vulnReportCount = 0 THEN "ScanInProgress" ELSE "ScanComplete"

computeScanStatus(imageCount, vulnReportCount) ==
    IF imageCount = 0 THEN "WaitingForScan"
    ELSE IF vulnReportCount < imageCount THEN "ScanInProgress" ELSE "ScanComplete"

\* Mutant: a join counts an image once more for each of its reports.
fetchImageCountsJoined ==
    /\ status.step = "idle" /\ page = NoList
    /\ status' = [status EXCEPT !.step = "counted", !.calm = TRUE,
                    !.images = Cardinality(Stored) + Cardinality(reports)]
    /\ UNCHANGED <<tableVars, page, steady>>

fetchImageCounts ==
    /\ status.step = "idle" /\ page = NoList
    /\ status' = [status EXCEPT !.step = "counted", !.images = Cardinality(Stored),
                                !.calm = TRUE]
    /\ UNCHANGED <<tableVars, page, steady>>

\* What the status is to say: which images have a report of their own.
Truth == IF Stored = {} THEN "WaitingForScan"
         ELSE IF Stored \subseteq reports THEN "ScanComplete" ELSE "ScanInProgress"

fetchVulnerabilityReports ==
    /\ status.step = "counted"
    /\ status' = [status EXCEPT
          !.step = "read",
          !.claim = computeScanStatus(status.images, Cardinality(reports)),
          !.truth = Truth,
          !.orphans = ~(reports \subseteq Stored)]
    /\ UNCHANGED <<tableVars, page, steady>>

Answered ==
    /\ status.step = "read"
    /\ status' = [status EXCEPT !.step = "idle", !.images = 0, !.claim = "",
                                !.truth = "", !.calm = TRUE, !.orphans = FALSE]
    /\ UNCHANGED <<tableVars, page, steady>>

-----------------------------------------------------------------------------
(* Writers.  A write between the two queries is noted.                      *)

Disturbs == status' = [status EXCEPT !.calm = @ /\ status.step # "counted"]

\* INSERT draws the id; the row is visible once the transaction commits.
DrawId(i) ==
    /\ id[i] = 0 /\ drawn[i] = 0 /\ nextId <= MaxId
    /\ drawn' = [drawn EXCEPT ![i] = nextId]
    /\ nextId' = nextId + 1
    /\ UNCHANGED <<id, label, reports, page, steady, status>>

CommitInsert(i) ==
    /\ drawn[i] # 0
    /\ id' = [id EXCEPT ![i] = drawn[i]]
    /\ drawn' = [drawn EXCEPT ![i] = 0]
    /\ Disturbs
    /\ UNCHANGED <<nextId, label, reports, page, steady>>

\* The catalogue no longer has the image.
DeleteImage(i) ==
    /\ id[i] # 0
    /\ id' = [id EXCEPT ![i] = 0]
    /\ label' = [label EXCEPT ![i] = "a"]
    /\ steady' = steady \ {id[i]}
    /\ Disturbs
    /\ UNCHANGED <<nextId, drawn, reports, page>>

\* An update keeps the row and its id.
Relabel(i) ==
    /\ id[i] # 0
    /\ \E l \in Labels : label' = [label EXCEPT ![i] = l]
    /\ steady' = IF page # NoList /\ ~Meant(page.sel, label'[i])
                 THEN steady \ {id[i]} ELSE steady
    /\ UNCHANGED <<nextId, id, drawn, reports, page, status>>

\* The worker writes the report of an image it found.
WriteReport(i) ==
    /\ id[i] # 0 /\ i \notin reports
    /\ reports' = reports \cup {i}
    /\ Disturbs
    /\ UNCHANGED <<nextId, id, drawn, label, page, steady>>

\* The garbage collector removes a report some time after its image.
CollectReport(i) ==
    /\ i \in reports /\ id[i] = 0
    /\ reports' = reports \ {i}
    /\ Disturbs
    /\ UNCHANGED <<nextId, id, drawn, label, page, steady>>

Write(i) == \/ DrawId(i) \/ CommitInsert(i) \/ DeleteImage(i)
            \/ Relabel(i) \/ WriteReport(i) \/ CollectReport(i)

Next ==
    \/ StartList \/ ContinueList \/ EndList
    \/ fetchImageCounts \/ fetchVulnerabilityReports \/ Answered
    \/ \E i \in Images : Write(i)

Spec == Init /\ [][Next]_vars

-----------------------------------------------------------------------------
\* A list that is complete has every row that was there and matched from the
\* first page to the last, and no row twice, although rows were inserted
\* (also with ids drawn long before), deleted and relabelled between pages.
PagesExact ==
    page # NoList =>
        /\ IsInjective(page.items)
        /\ page.done => steady \subseteq Range(page.items)

\* The status read agrees with the images and their reports, when nothing was
\* written between the two queries and every report has its image.
StatusExact ==
    status.step = "read" /\ status.calm /\ ~status.orphans
        => status.claim = status.truth

-----------------------------------------------------------------------------
(* What makes the two hold.                                                *)

\* A row id is drawn once, and belongs to one image.
IdsApart ==
    /\ \A i \in Images : id[i] < nextId /\ drawn[i] < nextId /\ (id[i] = 0 \/ drawn[i] = 0)
    /\ \A i, j \in Images : i # j =>
          /\ id[i] # 0 => id[i] # id[j] /\ id[i] # drawn[j]
          /\ drawn[i] # 0 => drawn[i] # drawn[j]

Increasing(s) == \A m, n \in 1..Len(s) : m < n => s[m] < s[n]

\* Rows of S up to the continue token are among the items, which end there.
Paged(p, S) ==
    /\ Increasing(p.items)
    /\ ~p.done => \A n \in 1..Len(p.items) : p.items[n] <= p.token
    /\ \A n \in S : p.done \/ n <= p.token => n \in Range(p.items)

ReadsInv ==
    /\ TypeOK /\ IdsApart /\ StatusExact
    /\ page # NoList => Paged(page, steady) /\ steady \subseteq Lasting(page.sel)
    /\ status.step = "counted" /\ status.calm => status.images = Cardinality(Stored)
=============================================================================
