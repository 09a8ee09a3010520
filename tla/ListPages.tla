----------------------------- MODULE ListPages -----------------------------
(***************************************************************************)
(* The list pages of both clients: a search field, filters, page numbers,  *)
(* the list the API answers with, and the operations on its rows.  A page  *)
(* is a record of the choices its component makes; the steps are those of  *)
(* the hooks and handlers all of them share.  Rows are abstracted to the   *)
(* query an answer is for and to which of the page's own operations it     *)
(* shows.                                                                  *)
(***************************************************************************)
EXTENDS Naturals, FiniteSets

CONSTANTS
    Pages,            \* the pages looked at, among those described below
    Words, NoWord,    \* what the search field may hold
    Picks, NoPick,    \* what the filters and the sort order may be
    LastPages,        \* how many pages of rows match a word and a pick
    Operations,       \* operations the user starts (bound)
    MaxInputs,        \* times the user types, picks, turns or retries (bound)
    MaxFaults         \* requests that fail (bound)

MaxPage == 2
Queries == [word : Words, pick : Picks, number : 1..MaxPage]

ASSUME WordsAssumption == NoWord \in Words /\ NoPick \in Picks
ASSUME LastPagesAssumption == LastPages \in [Words -> [Picks -> 0..MaxPage]]
ASSUME BoundsAssumption == MaxInputs \in Nat /\ MaxFaults \in Nat

-----------------------------------------------------------------------------
(* What distinguishes the pages:                                           *)
(*   latest   only the answer to the latest request is taken               *)
(*   field    the search field: none, debounced, url, or local (it narrows *)
(*            the rows already here)                                       *)
(*   picks    filters or a sort order are part of the query                *)
(*   resets   picking one goes back to the first page                      *)
(*   paging   who cuts the list into pages: server, client, none           *)
(*   turns    the page numbers can be used while a list is being loaded    *)
(*   writes   how operations end up in the list: retry (the hook asks      *)
(*            again), load (the handler's own load), again and home (loads *)
(*            that show no placeholder, home after going to the first      *)
(*            page), merge (the answer is merged), optimistic (the list    *)
(*            changes first and is put back on failure)                    *)
(*   acts     operations can be started while the list is being loaded     *)
(*   single   one operation at a time, on the page as a whole              *)
(*   refresh  asking again: never, after an error, always                  *)

Fields   == {"none", "debounced", "url", "local"}
Pagings  == {"none", "server", "client"}
Modes    == {"retry", "load", "again", "home", "merge", "optimistic"}
Refreshs == {"never", "error", "always"}

PageTypes ==
    [latest : BOOLEAN, field : Fields, picks : BOOLEAN, resets : BOOLEAN,
     paging : Pagings, turns : BOOLEAN, writes : SUBSET Modes, acts : BOOLEAN,
     single : BOOLEAN, refresh : Refreshs]

(* A page that uses useAsync has no load of its own.                       *)
OwnLoads == {"load", "again", "home"}

ASSUME PagesAssumption ==
    Pages \subseteq {p \in PageTypes : p.latest => p.writes \cap OwnLoads = {}}

(* A page that loads one list by useAsync and offers to retry.             *)
AsyncPage ==
    [latest |-> TRUE, field |-> "none", picks |-> FALSE, resets |-> TRUE,
     paging |-> "none", turns |-> TRUE, writes |-> {}, acts |-> FALSE,
     single |-> FALSE, refresh |-> "error"]

(* A page that keeps its list in its own state and takes every answer.     *)
LoadPage == [AsyncPage EXCEPT !.latest = FALSE, !.refresh = "never"]

(* The admin's pages.                                                      *)
BooksPage == [AsyncPage EXCEPT !.field = "debounced", !.picks = TRUE,
                               !.paging = "server", !.writes = {"retry"}]
BorrowingsPage == [AsyncPage EXCEPT !.field = "debounced", !.picks = TRUE,
                                    !.paging = "server"]
UsersPage      == [AsyncPage EXCEPT !.field = "debounced", !.picks = TRUE,
                                    !.paging = "server"]
AuditLogsPage  == [AsyncPage EXCEPT !.field = "debounced", !.picks = TRUE,
                                    !.paging = "server"]
ChaptersPage   == [AsyncPage EXCEPT !.writes = {"optimistic", "merge"}]
DashboardPage  == AsyncPage
ReportsPage    == AsyncPage
UserBorrowingsSection     == [AsyncPage EXCEPT !.refresh = "never"]
UserReadingHistorySection == [AsyncPage EXCEPT !.refresh = "never"]
UserPicker     == [AsyncPage EXCEPT !.field = "debounced", !.refresh = "never"]
BookCopyPicker == UserPicker
VouchersPage   == [LoadPage EXCEPT !.paging = "client", !.writes = {"load"}, !.acts = TRUE]
BannersPage    == [LoadPage EXCEPT !.writes = {"load"}, !.acts = TRUE]
RolesPage      == [LoadPage EXCEPT !.writes = {"load"}, !.acts = TRUE]
ModerationPage == [LoadPage EXCEPT !.picks = TRUE, !.paging = "server", !.writes = {"load"}]
TransactionsPage   == [LoadPage EXCEPT !.field = "local", !.paging = "client"]
EmailCampaignsPage == [LoadPage EXCEPT !.writes = {"merge"}, !.acts = TRUE]
SettingsPage       == [LoadPage EXCEPT !.writes = {"merge"}, !.single = TRUE]

(* The reader's pages.                                                     *)
CategoriesPage     == [LoadPage EXCEPT !.field = "local"]
CategoryDetailPage == [LoadPage EXCEPT !.picks = TRUE, !.resets = FALSE, !.paging = "server"]
SearchPage == [AsyncPage EXCEPT !.field = "url", !.picks = TRUE, !.paging = "server"]
ReviewsSection == [LoadPage EXCEPT !.picks = TRUE, !.paging = "server", !.turns = FALSE,
                                   !.writes = {"again", "home"}, !.acts = TRUE]
ProfileContainer  == [LoadPage EXCEPT !.writes = {"optimistic", "load"}, !.acts = TRUE]
BannerCarousel    == LoadPage
ReadingHistoryTab == [LoadPage EXCEPT !.paging = "client"]
PaymentHistoryTab == [LoadPage EXCEPT !.paging = "client", !.turns = FALSE,
                                      !.refresh = "always"]

-----------------------------------------------------------------------------
VARIABLES
    page,       \* the page that is open
    box, timer, \* the search field, and whether its 400 ms are running
    cleared,    \* the filters were cleared after the last word was typed
    query,      \* what the page's state, or its address, asks for
    loads,      \* requests for the list whose answer will be taken
    begun,      \* how many were sent
    shown,      \* the list on the screen
    loading, failed,
    ops,        \* operations under way
    written,    \* operations the API has stored
    acked,      \* operations the page was told of
    inputs, faults,
    crossed     \* history: two requests of a page that takes every answer,
                \* or an operation and a request, ran at once

vars == <<page, box, timer, cleared, query, loads, begun, shown, loading, failed, ops,
          written, acked, inputs, faults, crossed>>

FirstQuery == [word |-> NoWord, pick |-> NoPick, number |-> 1]
Load(n, q) == [id |-> n, query |-> q, answered |-> FALSE, has |-> {}]

Init ==
    /\ page \in Pages
    /\ query \in IF page.field = "url" THEN Queries ELSE {FirstQuery}
    /\ box = query.word /\ timer = FALSE /\ cleared = FALSE
    /\ loads = {Load(1, query)} /\ begun = 1
    /\ shown = [loaded |-> FALSE, query |-> query, has |-> {}]
    /\ loading = TRUE /\ failed = FALSE
    /\ ops = {} /\ written = {} /\ acked = {}
    /\ inputs = 0 /\ faults = 0 /\ crossed = FALSE

InUrl == page.field = "url"

LastPage(word, pick) == LastPages[word][pick]

(* What the API is asked: it does not know the page numbers of a client.   *)
Asked(q) == IF page.paging = "server" THEN q ELSE [q EXCEPT !.number = 1]

-----------------------------------------------------------------------------
(* Requests.  useAsync forgets the request under way, and a navigation the *)
(* one before it; the other pages take whatever comes.                     *)
Forgotten == IF page.latest THEN {} ELSE loads

Begin(q) ==
    /\ loads' = Forgotten \cup {Load(begun + 1, q)}
    /\ begun' = begun + 1

ChangesAtOnce == \E u \in ops : u.mode = "optimistic"

Crossing == (loads # {} /\ (InUrl \/ ~page.latest)) \/ ChangesAtOnce

(* The effect of a page whose query has changed, or that asks again.       *)
Reload(q) ==
    /\ Begin(q)
    /\ loading' = TRUE /\ failed' = FALSE
    /\ crossed' = (crossed \/ Crossing)

Keep == UNCHANGED <<loads, begun, loading, failed, crossed>>

ReloadIfChanged(q) == IF Asked(q) # Asked(query) THEN Reload(q) ELSE Keep

Input ==
    /\ inputs < MaxInputs /\ inputs' = inputs + 1
    /\ UNCHANGED <<page, shown, ops, written, acked, faults>>

(* The field changes at once and the page number with it; the word itself  *)
(* follows when nothing was typed for 400 ms.                              *)
Type(w) ==
    /\ page.field = "debounced" /\ w # box
    /\ box' = w /\ timer' = TRUE
    /\ query' = [query EXCEPT !.number = 1] /\ ReloadIfChanged(query')
    /\ Input /\ UNCHANGED cleared

\* Mutant: the timer ends without the word.
TimerStops ==
    /\ timer /\ timer' = FALSE
    /\ Keep /\ UNCHANGED <<page, box, cleared, query, shown, ops, written,
                           acked, inputs, faults>>

TimerFires ==
    /\ timer /\ timer' = FALSE
    /\ query' = [query EXCEPT !.word = box] /\ ReloadIfChanged(query')
    /\ UNCHANGED <<page, box, cleared, shown, ops, written, acked, inputs,
                   faults>>

TypeLocally(w) ==
    /\ page.field = "local" /\ w # box
    /\ box' = w
    /\ query' = [query EXCEPT !.number = 1] /\ ReloadIfChanged(query')
    /\ Input /\ UNCHANGED <<timer, cleared>>

(* A change is written over the address the browser shows now.             *)
Navigate(q) == Reload(q) /\ UNCHANGED query

TypeInUrl(w) ==
    /\ InUrl /\ shown.loaded /\ w # box
    /\ box' = w /\ cleared' = FALSE
    /\ Navigate([word |-> w, pick |-> query.pick, number |-> 1])
    /\ Input /\ UNCHANGED timer

Pick(p) ==
    /\ page.picks /\ p # query.pick
    /\ InUrl => shown.loaded
    /\ LET q == [word |-> query.word, pick |-> p,
                 number |-> IF page.resets THEN 1 ELSE query.number] IN
       IF InUrl THEN Navigate(q) ELSE query' = q /\ Reload(q)
    /\ Input /\ UNCHANGED <<box, timer, cleared>>

(* The button that clears the filters takes the word out of the address as *)
(* well; the field of the search page is its own and keeps what it says.   *)
ClearFilters ==
    /\ InUrl /\ shown.loaded
    /\ cleared' = TRUE /\ Navigate(FirstQuery)
    /\ Input /\ UNCHANGED <<box, timer>>

(* The page numbers offered are those of the list on the screen.           *)
TurnPage(n) ==
    /\ page.paging # "none" /\ n # query.number
    /\ shown.loaded /\ (page.turns \/ ~loading)
    /\ n <= LastPage(IF page.field = "local" THEN box ELSE shown.query.word, shown.query.pick)
    /\ LET q == [query EXCEPT !.number = n] IN
       IF InUrl THEN Navigate(q) ELSE query' = q /\ ReloadIfChanged(q)
    /\ Input /\ UNCHANGED <<box, timer, cleared>>

Refresh ==
    /\ \/ page.refresh = "error" /\ failed
       \/ page.refresh = "always" /\ shown.loaded /\ ~loading
    /\ Reload(query)
    /\ Input /\ UNCHANGED <<box, timer, cleared, query>>

-----------------------------------------------------------------------------
(* Answers.                                                                *)

Serve(l) ==
    /\ ~l.answered
    /\ loads' = (loads \ {l})
          \cup {[id |-> l.id, query |-> l.query, answered |-> TRUE, has |-> written]}
    /\ UNCHANGED <<page, box, timer, cleared, query, begun, shown, loading,
                   failed, ops, written, acked, inputs, faults, crossed>>

(* The address follows the page; one past the last page is redirected.     *)
PastTheEnd(q) ==
    LET last == LastPage(q.word, q.pick) IN last > 0 /\ q.number > last

Redirect(l) ==
    /\ l.answered /\ InUrl /\ PastTheEnd(l.query)
    /\ Begin([l.query EXCEPT !.number = LastPage(l.query.word, l.query.pick)])
    /\ UNCHANGED <<page, box, timer, cleared, query, shown, loading, failed,
                   ops, written, acked, inputs, faults, crossed>>

Take(l) ==
    /\ l.answered /\ ~(InUrl /\ PastTheEnd(l.query))
    /\ loads' = loads \ {l}
    /\ shown' = [loaded |-> TRUE, query |-> l.query, has |-> l.has]
    /\ query' = IF InUrl THEN l.query ELSE query
    /\ loading' = FALSE
    /\ UNCHANGED <<page, box, timer, cleared, begun, failed, ops, written,
                   acked, inputs, faults, crossed>>

(* useAsync drops the list it had, and an error page replaces the search   *)
(* page and its field; the others keep the list.                           *)
LoadFails(l) ==
    /\ faults < MaxFaults /\ faults' = faults + 1
    /\ loads' = loads \ {l}
    /\ loading' = FALSE /\ failed' = TRUE
    /\ shown' = [shown EXCEPT !.loaded = @ /\ ~page.latest]
    /\ query' = IF InUrl THEN l.query ELSE query
    /\ box' = IF InUrl THEN l.query.word ELSE box
    /\ cleared' = (cleared /\ ~InUrl)
    /\ UNCHANGED <<page, timer, begun, ops, written, acked, inputs, crossed>>

-----------------------------------------------------------------------------
(* Operations.  A handler goes on with the query, and for a list changed   *)
(* at once with the list, it saw when it started.                          *)

Submit(o, mode) ==
    /\ mode \in page.writes
    /\ o \notin written \cup {u.id : u \in ops}
    /\ page.single => ops = {}
    /\ page.acts \/ ~loading
    /\ page.acts \/ page.single \/ shown.loaded
    /\ mode = "optimistic" => shown.loaded
    /\ ops' = ops \cup {[id |-> o, mode |-> mode, query |-> query, before |-> shown.has]}
    /\ shown' = IF mode = "optimistic" THEN [shown EXCEPT !.has = @ \cup {o}] ELSE shown
    /\ crossed' = (crossed \/ ("optimistic" \in page.writes /\ (ops # {} \/ loads # {})))
    /\ UNCHANGED <<page, box, timer, cleared, query, loads, begun, loading,
                   failed, written, acked, inputs, faults>>

Commit(u) ==
    /\ u.id \notin written
    /\ written' = written \cup {u.id}
    /\ UNCHANGED <<page, box, timer, cleared, query, loads, begun, shown,
                   loading, failed, ops, acked, inputs, faults, crossed>>

Acknowledge(u) ==
    /\ u.id \in written
    /\ ops' = ops \ {u} /\ acked' = acked \cup {u.id}

Unloaded == UNCHANGED <<page, box, timer, cleared, written, inputs, faults>>

\* Mutant: the operation ends without asking for the list again.
NotRetried(u) ==
    /\ u.mode = "retry" /\ Acknowledge(u)
    /\ Keep /\ Unloaded /\ UNCHANGED <<query, shown>>

(* retry() of the hook asks with the fetcher of the day.                   *)
Retried(u) ==
    /\ u.mode = "retry" /\ Acknowledge(u)
    /\ Reload(query) /\ Unloaded /\ UNCHANGED <<query, shown>>

(* await load() asks with the query of the handler's closure.              *)
Loaded(u) ==
    /\ u.mode = "load" /\ Acknowledge(u)
    /\ Begin(u.query) /\ loading' = TRUE /\ failed' = FALSE
    /\ crossed' = (crossed \/ Crossing \/ u.query # query)
    /\ Unloaded /\ UNCHANGED <<query, shown>>

(* await loadReviews(): as above, but the list stays on the screen.        *)
LoadedAgain(u) ==
    /\ u.mode = "again" /\ Acknowledge(u)
    /\ Begin(u.query)
    /\ crossed' = (crossed \/ Crossing \/ u.query # query)
    /\ Unloaded /\ UNCHANGED <<query, shown, loading, failed>>

(* setPage(1) as well: the effect loads the first page at the same time.   *)
WentHome(u) ==
    /\ u.mode = "home" /\ Acknowledge(u)
    /\ query' = [query EXCEPT !.number = 1]
    /\ IF query.number = 1
       THEN Begin(u.query) /\ crossed' = (crossed \/ Crossing \/ u.query # query)
                           /\ UNCHANGED <<loading, failed>>
       ELSE /\ loads' = loads \cup {Load(begun + 1, u.query), Load(begun + 2, query')}
            /\ begun' = begun + 2
            /\ crossed' = TRUE /\ loading' = TRUE /\ failed' = FALSE
    /\ Unloaded /\ UNCHANGED shown

Merged(u) ==
    /\ u.mode = "merge" /\ Acknowledge(u)
    /\ shown' = [shown EXCEPT !.has = @ \cup {u.id}]
    /\ crossed' = (crossed \/ loads # {})
    /\ Unloaded /\ UNCHANGED <<query, loads, begun, loading, failed>>

Confirmed(u) ==
    /\ u.mode = "optimistic" /\ Acknowledge(u)
    /\ Unloaded /\ UNCHANGED <<query, loads, begun, shown, loading, failed,
                               crossed>>

OperationFails(u) ==
    /\ faults < MaxFaults /\ faults' = faults + 1
    /\ ops' = ops \ {u}
    /\ shown' = IF u.mode = "optimistic" THEN [shown EXCEPT !.has = u.before] ELSE shown
    /\ UNCHANGED <<page, box, timer, cleared, query, loads, begun, loading,
                   failed, written, acked, inputs, crossed>>

-----------------------------------------------------------------------------
UserActs ==
    \/ \E w \in Words : Type(w) \/ TypeLocally(w) \/ TypeInUrl(w)
    \/ \E p \in Picks : Pick(p)
    \/ ClearFilters
    \/ \E n \in 1..MaxPage : TurnPage(n)
    \/ Refresh
    \/ \E o \in Operations, mode \in Modes : Submit(o, mode)

Arrives(l) == Serve(l) \/ Redirect(l) \/ Take(l)

Ends(u) ==
    \/ Retried(u) \/ Loaded(u) \/ LoadedAgain(u) \/ WentHome(u)
    \/ Merged(u) \/ Confirmed(u)

(* Timers fire, and requests that do not fail are answered.                *)
Progress ==
    \/ TimerFires
    \/ \E l \in loads : Arrives(l)
    \/ \E u \in ops : Commit(u) \/ Ends(u)

Fails == (\E l \in loads : LoadFails(l)) \/ (\E u \in ops : OperationFails(u))

Next == UserActs \/ Progress \/ Fails

Spec == Init /\ [][Next]_vars /\ WF_vars(Progress)

-----------------------------------------------------------------------------
(* Properties.                                                             *)

(* What the variables hold.                                                *)
LoadTypes == [id : Nat, query : Queries, answered : BOOLEAN, has : SUBSET Operations]
OpTypes   == [id : Operations, mode : Modes, query : Queries, before : SUBSET Operations]

TypeOK ==
    /\ page \in Pages
    /\ box \in Words /\ timer \in BOOLEAN /\ cleared \in BOOLEAN
    /\ query \in Queries
    /\ loads \subseteq LoadTypes /\ begun \in Nat
    /\ shown \in [loaded : BOOLEAN, query : Queries, has : SUBSET Operations]
    /\ loading \in BOOLEAN /\ failed \in BOOLEAN
    /\ ops \subseteq OpTypes
    /\ written \subseteq Operations /\ acked \subseteq written
    /\ inputs \in 0..MaxInputs /\ faults \in 0..MaxFaults
    /\ crossed \in BOOLEAN

(* Why the properties below hold, part by part.  What is written contains  *)
(* what answers and confirmed operations show; a request under way asks    *)
(* what the page asks; a list changed at once is changed by one operation, *)
(* with no request under way; useAsync never crosses.                      *)
AnswersAreStored == \A l \in loads : l.has \subseteq written
ModesOfThePage   == \A u \in ops : u.mode \in page.writes

LoadsAskTheQuery ==
    (~crossed \/ page.latest) /\ ~InUrl
       => \A l \in loads : Asked(l.query) = Asked(query)

AnswersAreRecent ==
    ~crossed => \A l \in loads : l.answered => acked \subseteq l.has

ListIsTheAnswer ==
    ~crossed /\ loads = {} /\ ~failed =>
       shown.loaded /\ Asked(shown.query) = Asked(query) /\ acked \subseteq shown.has

OneChangeAtOnce ==
    ~crossed => \A u \in ops : u.mode = "optimistic" =>
       /\ loads = {} /\ ops = {u} /\ u.id \in shown.has
       /\ u.before \subseteq written /\ shown.has \subseteq u.before \cup {u.id}
       /\ ~failed => acked \subseteq u.before

ListIsStored == ~crossed /\ ~ChangesAtOnce => shown.has \subseteq written

AsyncNeverCrosses == page.latest /\ ~InUrl /\ page.writes \subseteq {"retry"} => ~crossed

ListInv ==
    /\ TypeOK /\ AnswersAreStored /\ ModesOfThePage /\ LoadsAskTheQuery
    /\ AnswersAreRecent /\ ListIsTheAnswer /\ OneChangeAtOnce /\ ListIsStored
    /\ AsyncNeverCrosses

Settled == loads = {} /\ ops = {} /\ ~timer

(* When nothing is under way the list is the answer to what the page asks  *)
(* for, or there is an error: useAsync always (it never crosses), the      *)
(* other pages if no two of their requests ever ran at once.               *)
AnswersTheQuery ==
    Settled /\ ~crossed /\ ~failed => shown.loaded /\ Asked(shown.query) = Asked(query)

(* ... and it shows every operation the page was told had succeeded.       *)
ShowsOwnWrites == Settled /\ ~crossed /\ ~failed => acked \subseteq shown.has

(* ... and none that the API did not store: a list changed at once is put  *)
(* back when the operation fails.                                          *)
NothingMadeUp == Settled /\ ~crossed => shown.has \subseteq written

(* What a page at rest shows is what is there.                             *)
ListIsTrue == AnswersTheQuery /\ ShowsOwnWrites /\ NothingMadeUp

(* The list of a page that uses useAsync only ever changes to the answer   *)
(* for what the page asks at that moment.                                  *)
OnlyTheLatest ==
    [][page.latest /\ ~InUrl /\ shown' # shown /\ shown'.query # shown.query
       => Asked(shown'.query) = Asked(query')]_vars

(* The screen catches up with the user: after the last input the list is   *)
(* the answer to what the page asks for, and that is what the field says;  *)
(* the search page's field says nothing once the filters were cleared.     *)
CaughtUp ==
    /\ ~loading /\ shown.loaded
    /\ Asked(shown.query) = Asked(query)
    /\ page.field \in {"debounced", "url"} =>
          query.word = IF cleared THEN NoWord ELSE box

CatchesUp == <>[](CaughtUp \/ crossed \/ failed)
=============================================================================
