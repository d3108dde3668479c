----------------------------- MODULE ListingPages -----------------------------
(* A client that pages through a list while the list changes. modules/user    *)
(* has three lists with a cursor (the user's bids, wins and auctions),        *)
(* modules/auction one with page numbers. Each page is read for itself: a     *)
(* cursor page in one statement, a numbered page in two, the rows and their   *)
(* count, which READ COMMITTED lets see different tables. Row stands for a    *)
(* bid or an auction. What a page shows is a set: the order within it follows *)
(* from the keys.                                                            *)
EXTENDS Naturals, FiniteSets, Functions

CONSTANTS
  Rows, NoRow,
  Keys,        \* the values of ORDER BY, whose last column (id) is unique
  MaxChanges,  \* bound: changes of the table during a walk
  Limits       \* the page sizes

ASSUME PageAssumption ==
  /\ IsFiniteSet(Rows) /\ Rows # {} /\ NoRow \notin Rows
  /\ Keys \subseteq Nat /\ MaxChanges \in Nat /\ Limits \subseteq Nat \ {0}

VARIABLES
  key,      \* key[row]: where the query's ORDER BY puts the row
  status,   \* status[row], "ABSENT" before it is committed; a bid has none
            \* and stays "SCHEDULED"
  query,    \* the list that the client walks through
  walk,     \* how far it has come, and what it was shown
  history   \* history: what happened to the list since the walk began

pageVars == <<key, status, query, walk, history>>

Statuses  == {"SCHEDULED", "LIVE", "ENDED", "CANCELLED"}
Edges     == {<<"SCHEDULED", "LIVE">>, <<"SCHEDULED", "CANCELLED">>, <<"LIVE", "ENDED">>}

(* bids and wins are lists without a filter of the client's own: the user's   *)
(* bids, and the auctions that ENDED with the user as winner. resorted: the   *)
(* list is sorted by a key that can change (prices, and times by an edit).    *)
Query ==
  [list: {"bids"}, filter: {"ANY"}, limit: Limits, resorted: {FALSE}]
    \cup [list: {"wins"}, filter: {"ENDED"}, limit: Limits, resorted: {FALSE}]
    \cup [list: {"auctions"}, filter: Statuses \cup {"ANY"}, limit: Limits, resorted: {FALSE}]
    \cup [list: {"public"}, filter: Statuses \cup {"ANY"}, limit: Limits, resorted: BOOLEAN]
Numbered == query.list = "public"

(* cursor: the last row shown. page: the number of the next page. shown[row]: *)
(* how often the row was on a page.                                          *)
Walk == [stage: {"start", "next", "count", "done"}, cursor: Rows \cup {NoRow},
         page: 1 .. Cardinality(Rows), shown: [Rows -> Nat]]
(* steady: the rows that have been in the list ever since the walk began, and *)
(* have kept their place. joined, left: how often a row came to a place in    *)
(* the list or gave one up. lost: how often a page was asked for after a row  *)
(* that was no longer in the list.                                           *)
History == [steady: SUBSET Rows, changes: 0 .. MaxChanges, joined: Nat, left: Nat, lost: Nat]

In(row, table) ==
  table[row] # "ABSENT" /\ (query.filter = "ANY" \/ table[row] = query.filter)
Listed == {row \in Rows : In(row, status)}

(* A row has its key (the time and the id of its INSERT) before it is there.  *)
PagesInit ==
  /\ query \in Query
  /\ key \in Injection(Rows, Keys)
  /\ status \in [Rows -> Statuses \cup {"ABSENT"}]
  /\ query.filter = "ANY" => \A row \in Rows : status[row] \in {"SCHEDULED", "ABSENT"}
  /\ walk = [stage |-> "start", cursor |-> NoRow, page |-> 1, shown |-> [row \in Rows |-> 0]]
  /\ history = [steady |-> Rows, changes |-> 0, joined |-> 0, left |-> 0, lost |-> 0]
------------------------------------------------------------------------------
(* What the other requests and the jobs do to the list; a change before the   *)
(* first page or after the last is none.                                     *)
Walking == walk.stage \in {"next", "count"}

Count(b) == IF b THEN 1 ELSE 0
Changed(row, table, moved) ==
  LET was == In(row, status)
      is  == In(row, table) IN
  /\ Walking
  /\ history.changes < MaxChanges
  /\ status' = table
  /\ history' = [history EXCEPT
       !.changes = @ + 1,
       !.steady = IF moved \/ ~is THEN @ \ {row} ELSE @,
       !.joined = @ + Count(is /\ (moved \/ ~was)),
       !.left   = @ + Count(was /\ (moved \/ ~is))]
  /\ UNCHANGED <<query, walk>>

(* createAuction, placeBid. A row may be committed after one that sorts       *)
(* before it.                                                                *)
Insert(row) ==
  \E s \in {"SCHEDULED", "LIVE"} :
    /\ status[row] = "ABSENT"
    /\ query.filter = "ANY" => s = "SCHEDULED"
    /\ Changed(row, [status EXCEPT ![row] = s], FALSE)
    /\ UNCHANGED key

(* START, END and cancellation; without a filter it does not matter.         *)
ChangeStatus(row) ==
  \E s \in Statuses :
    /\ query.filter # "ANY"
    /\ <<status[row], s>> \in Edges
    /\ Changed(row, [status EXCEPT ![row] = s], FALSE)
    /\ UNCHANGED key

(* A bid raises the price by which a list is sorted, an edit moves a time: a  *)
(* change of the list only when the row passes another.                      *)
Move(row) ==
  \E k \in Keys \ Range(key) :
    /\ query.resorted
    /\ status[row] # "ABSENT"
    /\ \E other \in Rows \ {row} :
         status[other] # "ABSENT" /\ (key[row] < key[other] <=> k > key[other])
    /\ key' = [key EXCEPT ![row] = k]
    /\ Changed(row, status, TRUE)
------------------------------------------------------------------------------
(* findMany: skip and take.                                                  *)
Offset(row, rows) == Cardinality({other \in rows : key[other] < key[row]})
Slice(rows, skip, take) == {row \in rows : Offset(row, rows) \in skip .. skip + take - 1}

(* findSellerAuctions, findUserBids, findUserWonAuctions ask for one row more  *)
(* than the page holds. Prisma starts at the key of the cursor's row, whether *)
(* or not that row is in the list, takes the rows of the list from there on,  *)
(* and skips one.                                                            *)
From(cursor) == {row \in Listed : key[row] >= key[cursor]}

FaultyFindAfter(cursor) ==                   \* without skip: 1
  Slice(IF cursor = NoRow THEN Listed ELSE From(cursor), 0, query.limit + 1)
FindAfter(cursor) ==
  IF cursor = NoRow THEN Slice(Listed, 0, query.limit + 1)
  ELSE Slice(From(cursor), 1, query.limit + 1)

LastOf(page) == CHOOSE row \in page : \A other \in page : key[other] <= key[row]
Show(page) == [row \in Rows |-> walk.shown[row] + Count(row \in page)]

(* getSellerAuctionHistoryService and its two sisters.                       *)
CursorPage ==
  LET rows    == FindAfter(walk.cursor)
      hasMore == Cardinality(rows) > query.limit
      page    == IF hasMore THEN Slice(rows, 0, query.limit) ELSE rows IN
  /\ ~Numbered
  /\ walk.stage \in {"start", "next"}
  /\ walk' = [walk EXCEPT
       !.stage = IF hasMore THEN "next" ELSE "done",
       !.cursor = IF hasMore THEN LastOf(page) ELSE NoRow,
       !.shown = Show(page)]
  /\ history' = [history EXCEPT
       !.steady = IF walk.stage = "start" THEN Listed ELSE @,
       !.lost = @ + Count(walk.cursor # NoRow /\ ~In(walk.cursor, status))]
  /\ UNCHANGED <<key, status, query>>

(* findAuctions: skip and take, and in the next statement the count.          *)
FaultySkipped == walk.page * query.limit     \* forgets that pages begin at 1
Skipped == (walk.page - 1) * query.limit

FindAuctions ==
  /\ Numbered
  /\ walk.stage \in {"start", "next"}
  /\ walk' = [walk EXCEPT !.stage = "count", !.shown = Show(Slice(Listed, Skipped, query.limit))]
  /\ history' = [history EXCEPT !.steady = IF walk.stage = "start" THEN Listed ELSE @]
  /\ UNCHANGED <<key, status, query>>

(* getAuctionsService. *)
FaultyHasNextPage(total) == (walk.page - 1) * query.limit < total
HasNextPage(total) == walk.page * query.limit < total

CountAuctions ==
  /\ walk.stage = "count"
  /\ walk' = IF HasNextPage(Cardinality(Listed))
             THEN [walk EXCEPT !.stage = "next", !.page = @ + 1]
             ELSE [walk EXCEPT !.stage = "done"]
  /\ UNCHANGED <<key, status, query, history>>

PagesNext ==
  \/ CursorPage \/ FindAuctions \/ CountAuctions
  \/ \E row \in Rows : Insert(row) \/ ChangeStatus(row) \/ Move(row)

PagesSpec == PagesInit /\ [][PagesNext]_pageVars
------------------------------------------------------------------------------
(* Every variable has its type, no two rows have the same place, and no page  *)
(* is asked for beyond the last one that the rows could fill.                *)
PagesTypeOK ==
  /\ key \in Injection(Rows, Keys)
  /\ status \in [Rows -> Statuses \cup {"ABSENT"}]
  /\ query \in Query
  /\ walk \in Walk
  /\ history \in History

Missed   == {row \in history.steady : walk.shown[row] = 0}
Repeated == {row \in history.steady : walk.shown[row] > 1}

(* findSellerAuctions, findUserBids, findUserWonAuctions: whatever is added,  *)
(* started, ended or cancelled between two pages, no row is shown twice, and  *)
(* a row that was there all the time is missed only if the page was asked for *)
(* after a row that had left the list: one row for each such page. So the     *)
(* lists that no row leaves are shown completely, and hasMore is kept there:  *)
(* the next page is not empty.                                               *)
KeepsRows == query.filter \in {"ANY", "ENDED", "CANCELLED"}
CursorPagesAreExact ==
  ~Numbered =>
    /\ \A row \in Rows : walk.shown[row] <= 1
    /\ walk.stage = "done" => Cardinality(Missed) <= history.lost
    /\ KeepsRows /\ walk.stage = "done" => Missed = {}
    /\ KeepsRows /\ walk.stage = "next" => FindAfter(walk.cursor) # {}

(* findAuctions, getAuctionsService: a numbered page has no memory of the one *)
(* before. A row that comes to a place before the client's shows it one row   *)
(* again, a row that leaves one hides one, and that is all: without changes   *)
(* every row is shown once.                                                  *)
PageNumbersCostOneRowPerChange ==
  Numbered =>
    /\ Cardinality(Repeated) <= history.joined
    /\ walk.stage = "done" => Cardinality(Missed) <= history.left
==============================================================================
