---------------------------- MODULE Projections ----------------------------
(***************************************************************************)
(* What follows a commit: domain events are queued by a transaction and    *)
(* published in memory once it has committed (server/src/platform/events), *)
(* and their subscribers project the row as it then is into the search     *)
(* index (server/src/search.ts) and the customer's timeline                *)
(* (server/src/customer-timeline.ts).  An event is lost with its server;   *)
(* a server rebuilds the index before its first search, and the timeline   *)
(* is completed whenever it is read.                                       *)
(*                                                                         *)
(* The row is a customer, which may be removed and then leaves the index,  *)
(* or an invoice, which a receipt matched at the bank pays without any     *)
(* event.  Some of its commits are facts that the timeline shows.          *)
(*                                                                         *)
(* Both lists are read page by page while they change.  The cursor of the  *)
(* timeline is the last row shown, that of search a number of results.  A  *)
(* fact is the number its timeline row has in the order of row ids; a      *)
(* match is the number it has in JavaScript's order of score, title and    *)
(* id.  What a search matches is an indexed document or an entry of the    *)
(* Black Book.                                                             *)
(***************************************************************************)
EXTENDS Integers, Sequences, FiniteSets

LOCAL INSTANCE SequencesExt

CONSTANTS Servers, Handlers, LastVersion

ASSUME ProjectionConstants == LastVersion \in Nat \ {0}

VARIABLES
  kind,       \* of the row: customer or invoice
  version,    \* of the row, 0 before it exists; every commit makes a new one
  removed,    \* the row is soft-deleted
  facts,      \* the versions that are facts for the timeline
  indexed,    \* search_documents: the version indexed, 0 for none
  timeline,   \* customer_timeline_events
  rebuilt,    \* reconciledTenants and pendingReconciliations of every server
  rebuild,    \* the rows a server's pending rebuild has read
  handler,    \* the request every handler has under way
  torn        \* history: a projection was overtaken or lost since the last rebuild

projectionVars == <<kind, version, removed, facts, indexed, timeline, rebuilt, rebuild, handler, torn>>

Resting == [step |-> "IDLE", saw |-> 0]

ProjectionInit ==
  /\ kind \in {"customer", "invoice"}
  /\ version = 0 /\ removed = FALSE /\ facts = {}
  /\ indexed = 0 /\ timeline = {}
  /\ rebuilt = [s \in Servers |-> "NO"]
  /\ rebuild = [s \in Servers |-> 0]
  /\ handler = [h \in Handlers |-> Resting]
  /\ torn = FALSE

\* What a document of the row would be made of: nothing of a removed one.
Current == IF removed THEN 0 ELSE version

Projecting == {h \in Handlers : handler[h].step \in {"COMMITTED", "READ"}}
Rebuilding == {s \in Servers : rebuilt[s] = "PENDING"}
Quiet == Projecting = {} /\ Rebuilding = {}
Alone(h) == Projecting \subseteq {h} /\ Rebuilding = {}

----------------------------------------------------------------------------
(* Requests.                                                               *)

\* A transaction that queues its events.
Commit(h, isFact) ==
  /\ handler[h].step = "IDLE" /\ version < LastVersion /\ ~removed
  /\ version' = version + 1
  /\ facts' = IF isFact THEN facts \cup {version'} ELSE facts
  /\ handler' = [handler EXCEPT ![h].step = "COMMITTED"]
  /\ torn' = (torn \/ ~Alone(h))
  /\ UNCHANGED <<kind, removed, indexed, timeline, rebuilt, rebuild>>

RemoveCustomer(h) ==
  /\ handler[h].step = "IDLE" /\ kind = "customer" /\ version > 0 /\ ~removed
  /\ removed' = TRUE
  /\ handler' = [handler EXCEPT ![h].step = "COMMITTED"]
  /\ torn' = (torn \/ ~Alone(h))
  /\ UNCHANGED <<kind, version, facts, indexed, timeline, rebuilt, rebuild>>

\* A receipt matched at the bank pays an invoice and queues no event.
CommitSilently ==
  /\ kind = "invoice" /\ version \in 1..(LastVersion - 1)
  /\ version' = version + 1 /\ facts' = facts \cup {version'}
  /\ torn' = TRUE
  /\ UNCHANGED <<kind, removed, indexed, timeline, rebuilt, rebuild, handler>>

\* reindexCustomer, reindexInvoice and the others read the row, then write its
\* document or delete it.
ReindexRead(h) ==
  /\ handler[h].step = "COMMITTED"
  /\ handler' = [handler EXCEPT ![h] = [step |-> "READ", saw |-> Current]]
  /\ UNCHANGED <<kind, version, removed, facts, indexed, timeline, rebuilt, rebuild, torn>>

\* A subscriber that fails is reported, and the next one is called.
ReindexWrite(h) ==
  /\ handler[h].step = "READ"
  /\ \/ indexed' = handler[h].saw /\ torn' = torn
     \/ indexed' = indexed /\ torn' = TRUE
  /\ handler' = [handler EXCEPT ![h] = [step |-> "INDEXED", saw |-> 0]]
  /\ UNCHANGED <<kind, version, removed, facts, timeline, rebuilt, rebuild>>

\* The timeline's subscriber upserts the fact the event is about.
ProjectTimeline(h) ==
  /\ handler[h].step = "INDEXED"
  /\ timeline' \in {timeline, timeline \cup facts}
  /\ handler' = [handler EXCEPT ![h] = Resting]
  /\ UNCHANGED <<kind, version, removed, facts, indexed, rebuilt, rebuild, torn>>

----------------------------------------------------------------------------
(* Rebuilding and reading.                                                 *)

\* reconcileTenant: searches that come while it runs wait for the same promise.
RebuildRead(s) ==
  /\ rebuilt[s] = "NO"
  /\ rebuilt' = [rebuilt EXCEPT ![s] = "PENDING"]
  /\ rebuild' = [rebuild EXCEPT ![s] = Current]
  /\ torn' = ~Quiet
  /\ UNCHANGED <<kind, version, removed, facts, indexed, timeline, handler>>

\* A plausible slip: the rebuild inserts without deleting.
ReplacedNever(old, saw) == IF saw = 0 THEN old ELSE saw

\* rebuildTenant deletes the tenant's documents and inserts those it has read.
Replaced(old, saw) == saw

\* A document written since the deletion makes the insertion fail, and the next
\* search tries again.
RebuildCommit(s) ==
  /\ rebuilt[s] = "PENDING"
  /\ \/ /\ indexed' = Replaced(indexed, rebuild[s])
        /\ rebuilt' = [rebuilt EXCEPT ![s] = "DONE"]
        /\ torn' = torn
     \/ /\ rebuilt' = [rebuilt EXCEPT ![s] = "NO"]
        /\ torn' = TRUE /\ UNCHANGED indexed
  /\ rebuild' = [rebuild EXCEPT ![s] = 0]
  /\ UNCHANGED <<kind, version, removed, facts, timeline, handler>>

\* The route reconciles the customer, then reads: everything that is a fact and
\* still has a customer.
ReadTimeline ==
  /\ ~removed
  /\ timeline' = timeline \cup facts
  /\ UNCHANGED <<kind, version, removed, facts, indexed, rebuilt, rebuild, handler, torn>>

\* A server restarts: its memory is gone, and so are the events of its requests.
Restart(s) ==
  /\ rebuilt' = [rebuilt EXCEPT ![s] = "NO"]
  /\ rebuild' = [rebuild EXCEPT ![s] = 0]
  /\ \E lost \in SUBSET {h \in Handlers : handler[h].step # "IDLE"} :
       /\ handler' = [h \in Handlers |-> IF h \in lost THEN Resting ELSE handler[h]]
       /\ torn' = (torn \/ rebuilt[s] = "PENDING" \/ lost \cap Projecting # {})
  /\ UNCHANGED <<kind, version, removed, facts, indexed, timeline>>

ProjectionNext ==
  \/ \E h \in Handlers :
       \/ \E isFact \in BOOLEAN : Commit(h, isFact)
       \/ RemoveCustomer(h) \/ ReindexRead(h) \/ ReindexWrite(h) \/ ProjectTimeline(h)
  \/ CommitSilently \/ ReadTimeline
  \/ \E s \in Servers : RebuildRead(s) \/ RebuildCommit(s) \/ Restart(s)

----------------------------------------------------------------------------
(* Reading page by page.                                                   *)

CONSTANTS
  Facts, Voids,          \* what may happen to the customer; the voided invoices among it
  Moments,
  Documents, BookEntries,    \* what a search may match
  Folded,                \* the place of a match in a database that folds case
  PageSize,
  Never

ASSUME PagingConstants ==
  /\ Voids \subseteq Facts /\ Facts \subseteq Int /\ Moments \subseteq Int
  /\ Documents \cup BookEntries \subseteq Int /\ Documents \cap BookEntries = {}
  /\ PageSize \in Nat \ {0}

VARIABLES
  happened,     \* when a fact happened, as its own row says
  placed,       \* customer_timeline_events: where its row stands in time
  reader,       \* somebody who reads the timeline page by page
  shifted,      \* history: the facts that changed place while they read
  listed,       \* search_documents and blackbook_entries that match
  collation,    \* the order the database sorts titles in
  searcher,     \* somebody who searches page by page
  still         \* history: no match came or went since their first page

timelineVars == <<happened, placed, reader, shifted>>
searchVars == <<listed, collation, searcher, still>>
pagingVars == <<timelineVars, searchVars>>

\* present: what had happened when the reading began.
Unread == [step |-> "IDLE", after |-> Never, more |-> TRUE, shown |-> <<>>, present |-> {}]
Unsearched == [types |-> {}, offset |-> 0, more |-> TRUE, shown |-> <<>>]

PagingInit ==
  /\ happened = [f \in Facts |-> Never] /\ placed = [f \in Facts |-> Never]
  /\ reader = Unread /\ shifted = {}
  /\ listed \in SUBSET (Documents \cup BookEntries)
  /\ collation \in {"C", "folded"}
  /\ searcher = Unsearched /\ still = TRUE

----------------------------------------------------------------------------
(* The timeline.                                                           *)

Past == {f \in Facts : happened[f] # Never}
OnTimeline == {f \in Facts : placed[f] # Never}

Begun == reader # Unread
Shifted(rows) == IF Begun THEN {f \in OnTimeline : rows[f] # placed[f]} ELSE {}

\* An invoice is issued or voided, a payment recorded, an activity noted: dates of
\* invoices and payments may lie back.
Happen(f, at) ==
  /\ happened[f] = Never
  /\ happened' = [happened EXCEPT ![f] = at]
  /\ UNCHANGED <<placed, reader, shifted>>

\* The event's subscriber upserts the row; that of a void takes the event's own
\* time, a little after the audit's.
ProjectFact(f) ==
  /\ f \in Past
  /\ \E at \in {happened[f]} \cup (IF f \in Voids THEN {happened[f] + 1} ELSE {}) :
       placed' = [placed EXCEPT ![f] = at]
  /\ shifted' = shifted \cup Shifted(placed')
  /\ UNCHANGED <<happened, reader>>

\* The route reconciles the customer before every page: all rows as their sources
\* say.
Reconcile ==
  /\ reader.step = "IDLE" /\ reader.more
  /\ placed' = happened
  /\ shifted' = shifted \cup Shifted(placed')
  /\ reader' = [reader EXCEPT !.step = "RECONCILED",
                              !.present = IF Begun THEN @ ELSE Past]
  /\ UNCHANGED happened

\* Newest first, and by id among rows of one moment.
Later(x, y) == x.at > y.at \/ (x.at = y.at /\ x.id > y.id)
RowOf(f) == [at |-> placed[f], id |-> f]

Behind(cursor) == {f \in OnTimeline : cursor = Never \/ Later(cursor, RowOf(f))}

NewestFirst(S) == SetToSortSeq(S, LAMBDA f, g : Later(RowOf(f), RowOf(g)))

\* getCustomerTimeline: one row more than the page tells whether there are more,
\* and the last row shown is the next cursor.
ReadPage ==
  /\ reader.step = "RECONCILED"
  /\ LET rows == NewestFirst(Behind(reader.after))
         page == SubSeq(rows, 1, IF Len(rows) < PageSize THEN Len(rows) ELSE PageSize)
     IN reader' = [reader EXCEPT
          !.step = "IDLE", !.shown = @ \o page,
          !.more = Len(rows) > PageSize,
          !.after = IF Len(rows) > PageSize THEN RowOf(Last(page)) ELSE Never]
  /\ UNCHANGED <<happened, placed, shifted>>

LeaveTimeline ==
  /\ Begun /\ reader.step = "IDLE"
  /\ reader' = Unread /\ shifted' = {}
  /\ UNCHANGED <<happened, placed>>

TimelineNext ==
  \/ \E f \in Facts : ProjectFact(f) \/ \E at \in Moments : Happen(f, at)
  \/ Reconcile \/ ReadPage \/ LeaveTimeline

----------------------------------------------------------------------------
(* Search.                                                                 *)

\* A match is indexed, renamed so that it fits no more, imported or retired.
Relist(d) ==
  /\ listed' = SymDiff(listed, {d})
  /\ still' = (searcher = Unsearched)
  /\ UNCHANGED <<collation, searcher>>

Place(d) == IF collation = "C" THEN d ELSE Folded[d]
First(S, n) == {d \in S : Cardinality({e \in S : Place(e) < Place(d)}) < n}

\* Each source is asked for all up to the end of the page and one more.
Fetched(S, offset) == First(S, offset + PageSize + 1)

\* PostgresSearchProvider.search: the sources the caller may see are fetched in the
\* database's order, ranked together in JavaScript's, and cut.  The cursor holds
\* the query and those sources; another set of them refuses it.
SearchPage(types) ==
  /\ types # {} /\ searcher.more
  /\ searcher # Unsearched => searcher.types = types
  /\ LET offset == searcher.offset
         ranked == SetToSortSeq(
           (IF "indexed" \in types THEN Fetched(listed \cap Documents, offset) ELSE {}) \cup
           (IF "blackbook" \in types THEN Fetched(listed \cap BookEntries, offset) ELSE {}),
           LAMBDA d, e : d < e)
         end == IF Len(ranked) < offset + PageSize THEN Len(ranked) ELSE offset + PageSize
     IN searcher' = [types |-> types, offset |-> offset + PageSize,
                     more |-> Len(ranked) > offset + PageSize,
                     shown |-> searcher.shown \o SubSeq(ranked, offset + 1, end)]
  /\ UNCHANGED <<listed, collation, still>>

LeaveSearch ==
  /\ searcher # Unsearched
  /\ searcher' = Unsearched /\ still' = TRUE
  /\ UNCHANGED <<listed, collation>>

SearchNext ==
  \/ \E d \in Documents \cup BookEntries : Relist(d)
  \/ \E types \in SUBSET {"indexed", "blackbook"} : SearchPage(types)
  \/ LeaveSearch

----------------------------------------------------------------------------
(* Properties.                                                             *)

\* While nothing has overtaken or lost a projection since a rebuild that ran alone,
\* what searches find is the row as it is, and a removed one is not found: every
\* loss is healed by the next server that rebuilds.  The timeline never shows what
\* did not happen.
IndexFollowsRow ==
  /\ Quiet /\ ~torn => indexed = Current
  /\ indexed <= version /\ timeline \subseteq facts

Times(f, s) == Cardinality({i \in DOMAIN s : s[i] = f})

\* Whoever turns the pages of a timeline sees a fact whose row did not change place
\* once at most, and at the end every one that had happened when they began -
\* whatever is dated before, between or behind the pages meanwhile.
TimelineWhole ==
  \A f \in Facts \ shifted :
    /\ Times(f, reader.shown) <= 1
    /\ ~reader.more /\ f \in reader.present => Times(f, reader.shown) = 1

Matches ==
  {d \in listed : \/ d \in Documents /\ "indexed" \in searcher.types
                  \/ d \in BookEntries /\ "blackbook" \in searcher.types}

\* As long as nothing it matches came or went, the pages of a search put together
\* are the matches in order, although each is cut from two sources anew.
SearchWhole ==
  still /\ collation = "C" =>
    LET all == SetToSortSeq(Matches, LAMBDA d, e : d < e)
    IN IF searcher.more THEN IsPrefix(searcher.shown, all) ELSE searcher.shown = all
=============================================================================
