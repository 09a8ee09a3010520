---------------------------- MODULE BookDocument ----------------------------
(***************************************************************************)
(* One book as the database keeps it: a single document with its chapters  *)
(* inside, written as a whole by some operations and by fields by others,  *)
(* and the pages of the staff who edit it.  What staff type is a set of    *)
(* changes; a form holds those it was opened with and those typed since.   *)
(***************************************************************************)
EXTENDS Integers, FiniteSets

CONSTANTS
    Staff,          \* tabs of the admin's site, each with one request at a time
    Readers,        \* readers, who list chapters and review the book
    Chapters,       \* identifiers of chapters
    Changes,        \* what staff may type into forms
    Opening,        \* the first paragraph of a chapter, one of the changes
    Numbers,        \* chapter numbers
    Stars,          \* what a review may give
    MaxCalls,       \* requests sent (bound)
    MaxFaults       \* requests and uploads that fail (bound)

NoStars   == 0
NoChapter == "no chapter"
NoNumber  == 0
Callers   == Staff \cup Readers

ASSUME SetsAssumption ==
    /\ IsFiniteSet(Chapters) /\ NoChapter \notin Chapters
    /\ Opening \in Changes /\ NoNumber \notin Numbers /\ NoStars \in Stars
ASSUME BoundsAssumption == MaxCalls \in Nat /\ MaxFaults \in Nat

VARIABLES
    book,       \* the document of the collection books
    number,     \* the number each chapter was created with
    made,       \* identifiers given to chapters so far
    reviews,    \* the collection reviews: the stars of each reader
    page,       \* what is open in each tab
    call,       \* the request of each caller
    changes,    \* changes typed so far
    started, faults,
    acked,      \* history: what pages were told was saved
    over,       \* history: parts written over by a call that had not seen them
    disturbed   \* history: parts whose bookkeeping two calls did at once

vars == <<book, number, made, reviews, page, call, changes, started, faults, acked,
          over, disturbed>>

There(doc)   == {c \in Chapters : doc.state[c] # "none"}
Closed       == [at |-> "none", chapter |-> NoChapter, status |-> "DRAFT", base |-> {},
                 form |-> {}, uploading |-> {}, shown |-> [c \in Chapters |-> "none"]]
NoDocument   == [info |-> {}, status |-> "DRAFT", total |-> 0,
                 state |-> [c \in Chapters |-> "none"], text |-> [c \in Chapters |-> {}],
                 rating |-> [r \in Readers |-> NoStars]]
NoCall == [pc |-> "idle", kind |-> "list", chapter |-> NoChapter, number |-> NoNumber,
           status |-> "DRAFT", base |-> {}, form |-> {}, copy |-> NoDocument,
           seen |-> [r \in Readers |-> NoStars]]

Init ==
    /\ made \in SUBSET Chapters
    /\ number \in [Chapters -> Numbers \cup {NoNumber}]
    /\ \A c \in Chapters : number[c] # NoNumber <=> c \in made
    /\ \A c, d \in made : number[c] = number[d] => c = d
    /\ \E s \in {"DRAFT", "PUBLISHED"} :
          book = [NoDocument EXCEPT
                    !.status = s, !.total = Cardinality(made),
                    !.state = [c \in Chapters |-> IF c \in made THEN s ELSE "none"],
                    !.text  = [c \in Chapters |-> IF c \in made THEN {Opening} ELSE {}]]
    /\ reviews = [r \in Readers |-> NoStars]
    /\ page = [t \in Staff |-> Closed]
    /\ call = [k \in Callers |-> NoCall]
    /\ changes = {Opening} /\ started = 0 /\ faults = 0
    /\ acked = [info |-> {}, text |-> [c \in Chapters |-> {}], published |-> {}]
    /\ over = [info |-> FALSE, chapters |-> {}]
    /\ disturbed = {}

-----------------------------------------------------------------------------
(* Pages.                                                                  *)

Quiet(k) == call[k].pc = "idle"

(* Nobody opens or types anything that could not be sent any more.         *)
Left == started < MaxCalls

Look == UNCHANGED <<book, number, made, reviews, call, started, acked, over, disturbed>>

(* Form values are those of the first load; no later answer resets them.   *)
OpenBook(t) ==
    /\ Left /\ page[t].at = "none" /\ Quiet(t)
    /\ page' = [page EXCEPT ![t] = [Closed EXCEPT !.at = "book", !.status = book.status,
                                                  !.base = book.info, !.form = book.info]]
    /\ Look /\ UNCHANGED <<changes, faults>>

OpenChapter(t, c) ==
    /\ Left /\ page[t].at = "none" /\ Quiet(t) /\ c \in There(book)
    /\ page' = [page EXCEPT ![t] = [Closed EXCEPT !.at = "chapter", !.chapter = c,
                                                  !.base = book.text[c], !.form = book.text[c]]]
    /\ Look /\ UNCHANGED <<changes, faults>>

Close(t) ==
    /\ Left /\ page[t].at # "none" /\ Quiet(t)
    /\ page' = [page EXCEPT ![t] = Closed]
    /\ Look /\ UNCHANGED <<changes, faults>>

Type(t, at, e) ==
    /\ Left /\ page[t].at = at /\ e \notin changes
    /\ page' = [page EXCEPT ![t].form = @ \cup {e}]
    /\ changes' = changes \cup {e}
    /\ Look /\ UNCHANGED faults

TypeBook(t, e)    == Type(t, "book", e)
TypeChapter(t, e) == Type(t, "chapter", e)

(* A picture is uploaded while its author goes on typing; the answer is    *)
(* merged into the content as it is then (contentRef).                     *)
ChooseImage(t, e) ==
    /\ Left /\ page[t].at = "chapter" /\ page[t].uploading = {} /\ e \notin changes
    /\ page' = [page EXCEPT ![t].uploading = {e}]
    /\ changes' = changes \cup {e}
    /\ Look /\ UNCHANGED faults

ImageUploaded(t) ==
    /\ page[t].uploading # {}
    /\ page' = [page EXCEPT ![t] = [page[t] EXCEPT !.form = @ \cup page[t].uploading,
                                                   !.uploading = {}]]
    /\ Look /\ UNCHANGED <<changes, faults>>

UploadFails(t) ==
    /\ page[t].uploading # {} /\ faults < MaxFaults /\ faults' = faults + 1
    /\ page' = [page EXCEPT ![t].uploading = {}]
    /\ Look /\ UNCHANGED changes

-----------------------------------------------------------------------------
(* Requests.  Chapters are counted and numbered, and the rating computed,  *)
(* by a read and a write later: two such calls disturb each other, and one *)
(* that replaces the whole document disturbs them all.                     *)

Listing == {"create", "hide"}
Whole   == {"save", "status"}

Disturbs(kind, other) ==
    {a \in {"list", "rating"} :
        LET does == IF a = "list" THEN Listing ELSE {"review"} IN
        \/ kind \in does /\ other \in does \cup Whole
        \/ kind \in Whole /\ other \in does}

Send(k, request) ==
    /\ Left /\ Quiet(k)
    /\ started' = started + 1
    /\ call' = [call EXCEPT ![k] = request]
    /\ disturbed' = disturbed \cup
          UNION {Disturbs(request.kind, call[j].kind) : j \in {j \in Callers : ~Quiet(j)}}
    /\ UNCHANGED <<book, number, made, reviews, page, faults, acked, over>>

Request(kind) == [NoCall EXCEPT !.pc = "sent", !.kind = kind]

SubmitBook(t) ==
    /\ page[t].at = "book"
    /\ Send(t, [Request("save") EXCEPT !.base = page[t].base, !.form = page[t].form])
    /\ UNCHANGED changes

NextStatus(s) ==
    CASE s = "DRAFT" -> {"PUBLISHED"} [] s = "PUBLISHED" -> {"DRAFT"} [] OTHER -> {}

ChangeStatus(t, s) ==
    /\ page[t].at = "book" /\ s \in NextStatus(page[t].status)
    /\ Send(t, [Request("status") EXCEPT !.status = s])
    /\ UNCHANGED changes

(* From the list of books, as are the pages of chapters.                   *)
ArchiveBook(t) ==
    /\ page[t].at = "none"
    /\ Send(t, [Request("status") EXCEPT !.status = "ARCHIVED"])
    /\ UNCHANGED changes

SubmitNewChapter(t, n, text) ==
    /\ page[t].at = "none"
    /\ Send(t, [Request("create") EXCEPT !.number = n, !.form = text])
    /\ UNCHANGED changes

SubmitChapter(t) ==
    /\ page[t].at = "chapter"
    /\ Send(t, [Request("edit") EXCEPT !.chapter = page[t].chapter,
                                       !.base = page[t].base, !.form = page[t].form])
    /\ UNCHANGED changes

OpenChapters(t) ==
    /\ page[t].at = "none"
    /\ Send(t, Request("list"))
    /\ UNCHANGED changes

TogglePublish(t, c) ==
    /\ page[t].at = "chapters" /\ page[t].shown[c] # "none"
    /\ Send(t, [Request(IF page[t].shown[c] = "PUBLISHED" THEN "hide" ELSE "publish")
                  EXCEPT !.chapter = c])
    /\ UNCHANGED changes

(* The pages of a book list its chapters for whoever looks at it.          *)
LookAtBook(r) == Send(r, Request("list")) /\ UNCHANGED changes

(* Written, edited, deleted, or approved and hidden by a moderator.        *)
Review(r) == Send(r, Request("review")) /\ UNCHANGED changes

-----------------------------------------------------------------------------
(* The API: what a call reads first.                                       *)

Held == UNCHANGED <<number, made, page, changes, started, faults, acked>>

Step(k, kinds, from, to) ==
    /\ call[k].pc = from /\ call[k].kind \in kinds
    /\ call' = [call EXCEPT ![k].pc = to]

ReadInto(k, pc, copy) ==
    call' = [call EXCEPT ![k] = [call[k] EXCEPT !.pc = pc, !.copy = copy]]

ReadBook(k) ==
    /\ call[k].pc = "sent" /\ call[k].kind \in Whole
    /\ ReadInto(k, "read", book)
    /\ Held /\ UNCHANGED <<book, reviews, over, disturbed>>

ListChapters(k) ==
    /\ call[k].pc = "sent" /\ call[k].kind = "list"
    /\ ReadInto(k, "read", [NoDocument EXCEPT !.state = book.state])
    /\ Held /\ UNCHANGED <<book, reviews, over, disturbed>>

NumberTaken(n) == \E c \in There(book) : number[c] = n

CheckNumber(k) ==
    /\ call[k].pc = "sent" /\ call[k].kind = "create"
    /\ call' = [call EXCEPT ![k].pc = IF NumberTaken(call[k].number) THEN "refused" ELSE "read"]
    /\ Held /\ UNCHANGED <<book, reviews, over, disturbed>>

(* A chapter without a paragraph is not published.                         *)
ReadChapter(k) ==
    LET c == call[k].chapter IN
    /\ call[k].pc = "sent" /\ call[k].kind \in {"edit", "publish", "hide"}
    /\ ReadInto(k, IF c \notin There(book) \/ (call[k].kind = "publish" /\ book.text[c] = {})
                   THEN "refused" ELSE "read",
                [NoDocument EXCEPT !.state[c] = book.state[c], !.text[c] = book.text[c]])
    /\ Held /\ UNCHANGED <<book, reviews, over, disturbed>>

StoreReview(k, v) ==
    /\ v # reviews[k]
    /\ Step(k, {"review"}, "sent", "stored")
    /\ reviews' = [reviews EXCEPT ![k] = v]
    /\ Held /\ UNCHANGED <<book, over, disturbed>>

\* Mutant: the reviews as they were before this one.
ReadOthersReviews(k) ==
    /\ call[k].pc = "stored" /\ call[k].kind = "review"
    /\ call' = [call EXCEPT ![k] = [call[k] EXCEPT !.pc = "read",
                                                   !.seen = [reviews EXCEPT ![k] = NoStars]]]
    /\ Held /\ UNCHANGED <<book, reviews, over, disturbed>>

ReadReviews(k) ==
    /\ call[k].pc = "stored" /\ call[k].kind = "review"
    /\ call' = [call EXCEPT ![k] = [call[k] EXCEPT !.pc = "read", !.seen = reviews]]
    /\ Held /\ UNCHANGED <<book, reviews, over, disturbed>>

-----------------------------------------------------------------------------
(* The API: what it writes.                                                *)

(* ReplaceOne with the copy that was read, and the change in it.           *)
Differ(doc) == {c \in Chapters : doc.state[c] # book.state[c] \/ doc.text[c] # book.text[c]}

Overwrite(info, cs) ==
    over' = [info |-> over.info \/ info, chapters |-> over.chapters \cup cs]

ReplaceInfo(k) ==
    /\ Step(k, {"save"}, "read", "written")
    /\ book' = [call[k].copy EXCEPT !.info = call[k].form]
    /\ Overwrite(call[k].base # book.info, Differ(call[k].copy))
    /\ Held /\ UNCHANGED <<reviews, disturbed>>

\* Mutant: the form of the status, empty but for it, replaces the rest.
ReplaceStatusAndInfo(k) ==
    /\ Step(k, {"status"}, "read", "written")
    /\ book' = [call[k].copy EXCEPT !.status = call[k].status, !.info = call[k].base]
    /\ Overwrite(call[k].copy.info # book.info, Differ(call[k].copy))
    /\ Held /\ UNCHANGED <<reviews, disturbed>>

ReplaceStatus(k) ==
    /\ Step(k, {"status"}, "read", "written")
    /\ book' = [call[k].copy EXCEPT !.status = call[k].status]
    /\ Overwrite(call[k].copy.info # book.info, Differ(call[k].copy))
    /\ Held /\ UNCHANGED <<reviews, disturbed>>

(* $push and $inc; the identifier is a new one.                            *)
AddChapter(k, c) ==
    /\ c \notin made
    /\ call[k].pc = "read" /\ call[k].kind = "create"
    /\ call' = [call EXCEPT ![k] = [call[k] EXCEPT !.pc = "written", !.chapter = c]]
    /\ made' = made \cup {c}
    /\ number' = [number EXCEPT ![c] = call[k].number]
    /\ book' = [book EXCEPT !.state[c] = "DRAFT", !.text[c] = call[k].form, !.total = @ + 1]
    /\ UNCHANGED <<reviews, page, changes, started, faults, acked, over, disturbed>>

(* The positional update writes the whole chapter, if it is still there;   *)
(* the caller does not look whether it was.                                *)
ReplaceChapter(k, kind, to, state, text, unseen) ==
    LET c == call[k].chapter IN
    /\ Step(k, {kind}, "read", to)
    /\ IF c \in There(book)
       THEN /\ book' = [book EXCEPT !.state[c] = state, !.text[c] = text]
            /\ Overwrite(FALSE, IF unseen THEN {c} ELSE {})
       ELSE UNCHANGED <<book, over>>
    /\ Held /\ UNCHANGED <<reviews, disturbed>>

EditChapter(k) ==
    LET c == call[k].chapter IN
    ReplaceChapter(k, "edit", "written", call[k].copy.state[c], call[k].form,
        call[k].base # book.text[c] \/ call[k].copy.state[c] # book.state[c])

PublishChapter(k) ==
    LET c == call[k].chapter IN
    ReplaceChapter(k, "publish", "replaced", "PUBLISHED", call[k].copy.text[c],
        c \in Differ(call[k].copy))

SetStatus(k, kind, from, repair) ==
    /\ Step(k, {kind}, from, "written")
    /\ book' = IF repair THEN [book EXCEPT !.status = "PUBLISHED"] ELSE book
    /\ Held /\ UNCHANGED <<reviews, over, disturbed>>

PublishBook(k) == SetStatus(k, "publish", "replaced", TRUE)

(* "A book with at least one public chapter must be visible as well."      *)
RepairStatus(k) ==
    SetStatus(k, "list", "read", \E c \in Chapters : call[k].copy.state[c] = "PUBLISHED")

(* $pull and $inc: the chapter leaves the document.                        *)
RemoveChapter(k) ==
    LET c == call[k].chapter IN
    /\ Step(k, {"hide"}, "read", "written")
    /\ book' = [book EXCEPT !.state[c] = "none", !.text[c] = {}, !.total = @ - 1]
    /\ Held /\ UNCHANGED <<reviews, over, disturbed>>

WriteRating(k) ==
    /\ Step(k, {"review"}, "read", "written")
    /\ book' = [book EXCEPT !.rating = call[k].seen]
    /\ Held /\ UNCHANGED <<reviews, over, disturbed>>

-----------------------------------------------------------------------------
(* Answers.                                                                *)

Finish(k, kind) ==
    /\ call[k].pc = "written" /\ call[k].kind = kind
    /\ call' = [call EXCEPT ![k] = NoCall]
    /\ UNCHANGED <<book, number, made, reviews, changes, started, faults, over, disturbed>>

(* The answer is the document the call wrote.                              *)
BookSaved(t) ==
    /\ Finish(t, "save")
    /\ page' = [page EXCEPT ![t] = [page[t] EXCEPT !.status = call[t].copy.status,
                                                   !.base = call[t].form]]
    /\ acked' = [acked EXCEPT !.info = @ \cup call[t].form]

StatusChanged(t) ==
    /\ Finish(t, "status")
    /\ page' = [page EXCEPT ![t].status = call[t].status]
    /\ UNCHANGED acked

ChapterCreated(t) ==
    /\ Finish(t, "create")
    /\ acked' = [acked EXCEPT !.text[call[t].chapter] = @ \cup call[t].form]
    /\ UNCHANGED page

ChapterSaved(t) ==
    /\ Finish(t, "edit")
    /\ page' = [page EXCEPT ![t].base = call[t].form]
    /\ acked' = [acked EXCEPT !.text[call[t].chapter] = @ \cup call[t].form]

ChapterPublished(t) ==
    /\ Finish(t, "publish")
    /\ page' = [page EXCEPT ![t].shown[call[t].chapter] = "PUBLISHED"]
    /\ acked' = [acked EXCEPT !.published = @ \cup {call[t].chapter}]

ChapterHidden(t) ==
    /\ Finish(t, "hide")
    /\ page' = [page EXCEPT ![t].shown[call[t].chapter] = "HIDDEN"]
    /\ UNCHANGED acked

ChaptersListed(t) ==
    /\ Finish(t, "list")
    /\ page' = [page EXCEPT ![t] = [Closed EXCEPT !.at = "chapters", !.shown = call[t].copy.state]]
    /\ UNCHANGED acked

ReaderAnswered(r, kind) == Finish(r, kind) /\ UNCHANGED <<page, acked>>

Refused(k) ==
    /\ call[k].pc = "refused"
    /\ call' = [call EXCEPT ![k] = NoCall]
    /\ UNCHANGED <<book, number, made, reviews, page, changes, started, faults, acked, over,
                   disturbed>>

(* An await throws, the process dies, or the answer is lost.  A review     *)
(* that is stored stays, and its rating is not written.                    *)
CallFails(k) ==
    /\ ~Quiet(k) /\ call[k].pc # "refused"
    /\ faults < MaxFaults /\ faults' = faults + 1
    /\ call' = [call EXCEPT ![k] = NoCall]
    /\ disturbed' = IF call[k].kind = "review" /\ call[k].pc \in {"stored", "read"}
                    THEN disturbed \cup {"rating"} ELSE disturbed
    /\ UNCHANGED <<book, number, made, reviews, page, changes, started, acked, over>>

-----------------------------------------------------------------------------
StaffActs(t) ==
    \/ OpenBook(t) \/ Close(t) \/ ImageUploaded(t) \/ UploadFails(t)
    \/ \E c \in Chapters : OpenChapter(t, c) \/ TogglePublish(t, c)
    \/ \E e \in Changes : TypeBook(t, e) \/ TypeChapter(t, e) \/ ChooseImage(t, e)
    \/ SubmitBook(t) \/ ArchiveBook(t) \/ SubmitChapter(t) \/ OpenChapters(t)
    \/ \E s \in {"DRAFT", "PUBLISHED"} : ChangeStatus(t, s)
    \/ \E n \in Numbers : \E text \in {{}, {Opening}} : SubmitNewChapter(t, n, text)

Reads(k) == ReadBook(k) \/ ListChapters(k) \/ CheckNumber(k) \/ ReadChapter(k)

Writes(k) ==
    \/ ReplaceInfo(k) \/ ReplaceStatus(k) \/ EditChapter(k) \/ PublishChapter(k)
    \/ PublishBook(k) \/ RepairStatus(k) \/ RemoveChapter(k)
    \/ \E c \in Chapters : AddChapter(k, c)

Answers(t) ==
    \/ BookSaved(t) \/ StatusChanged(t) \/ ChapterCreated(t) \/ ChapterSaved(t)
    \/ ChapterPublished(t) \/ ChapterHidden(t) \/ ChaptersListed(t)

ReaderActs(r) ==
    \/ LookAtBook(r) \/ Review(r) \/ ReadReviews(r) \/ WriteRating(r)
    \/ \E v \in Stars : StoreReview(r, v)
    \/ ReaderAnswered(r, "list") \/ ReaderAnswered(r, "review")

Next ==
    \/ \E t \in Staff : StaffActs(t) \/ Answers(t)
    \/ \E r \in Readers : ReaderActs(r)
    \/ \E k \in Callers : Reads(k) \/ Writes(k) \/ Refused(k) \/ CallFails(k)

Spec == Init /\ [][Next]_vars

-----------------------------------------------------------------------------
(* What the variables hold.                                                *)

Statuses  == {"DRAFT", "PUBLISHED", "ARCHIVED"}
States    == {"none", "DRAFT", "PUBLISHED"}
Documents ==
    [info : SUBSET Changes, status : Statuses, total : Int, state : [Chapters -> States],
     text : [Chapters -> SUBSET Changes], rating : [Readers -> Stars]]
PageTypes ==
    [at : {"none", "book", "chapter", "chapters"}, chapter : Chapters \cup {NoChapter},
     status : Statuses, base : SUBSET Changes, form : SUBSET Changes,
     uploading : SUBSET Changes, shown : [Chapters -> States \cup {"HIDDEN"}]]
Kinds == Listing \cup Whole \cup {"edit", "publish", "list", "review"}
CallTypes ==
    [pc : {"idle", "sent", "stored", "read", "replaced", "written", "refused"},
     kind : Kinds, chapter : Chapters \cup {NoChapter}, number : Numbers \cup {NoNumber},
     status : Statuses, base : SUBSET Changes, form : SUBSET Changes,
     copy : Documents, seen : [Readers -> Stars]]

TypeOK ==
    /\ book \in Documents
    /\ number \in [Chapters -> Numbers \cup {NoNumber}]
    /\ made \subseteq Chapters
    /\ reviews \in [Readers -> Stars]
    /\ page \in [Staff -> PageTypes]
    /\ call \in [Callers -> CallTypes]
    /\ changes \subseteq Changes
    /\ started \in Nat /\ faults \in Nat
    /\ acked \in [info : SUBSET Changes, text : [Chapters -> SUBSET Changes],
                  published : SUBSET Chapters]
    /\ over \in [info : BOOLEAN, chapters : SUBSET Chapters]
    /\ disturbed \subseteq {"list", "rating"}

(***************************************************************************)
(* What a page was told was saved stays in the book, whatever others do to *)
(* its chapters, status and rating meanwhile, unless a call wrote over     *)
(* information its page or its handler had not seen.                       *)
(***************************************************************************)
InfoKept == ~over.info => acked.info \subseteq book.info

(***************************************************************************)
(* So does the text of a chapter, and its publication: work on one chapter *)
(* is never lost to work on another, or to a review.                       *)
(***************************************************************************)
ChaptersKept ==
    \A c \in There(book) \ over.chapters :
        /\ acked.text[c] \subseteq book.text[c]
        /\ c \in acked.published => book.state[c] = "PUBLISHED"

(***************************************************************************)
(* Nothing that staff were told was saved is lost.                         *)
(***************************************************************************)
WorkKept == InfoKept /\ ChaptersKept

(***************************************************************************)
(* No two chapters of a book have one number, although no index sees to it *)
(* and the number is checked a call earlier than it is used, as long as    *)
(* calls that add, remove or replace chapters do not run at once.          *)
(***************************************************************************)
NumbersDistinct ==
    "list" \notin disturbed =>
        \A c, d \in There(book) : number[c] = number[d] => c = d

(***************************************************************************)
(* ... and totalChapters, counted up and down, is how many there are.      *)
(***************************************************************************)
ChaptersCounted == "list" \notin disturbed => book.total = Cardinality(There(book))

(***************************************************************************)
(* The rating is computed from the reviews stored, once their calls have   *)
(* ended, unless two of them ran at once, or one was cut short.            *)
(***************************************************************************)
Reviewing == \E r \in Readers : call[r].kind = "review" /\ call[r].pc # "idle"

RatingAgrees == "rating" \notin disturbed /\ ~Reviewing => book.rating = reviews

(***************************************************************************)
(* What the book document says of its chapters and reviews is so.          *)
(***************************************************************************)
CountsAgree == NumbersDistinct /\ ChaptersCounted /\ RatingAgrees

(***************************************************************************)
(* The inductive invariant.  A form never holds less than it was opened    *)
(* with; what was written but not yet answered is kept like what was; a    *)
(* chapter named anywhere was created; and calls whose bookkeeping was not *)
(* disturbed still see what they have read.                                *)
(***************************************************************************)
FormsGrow ==
    /\ \A t \in Staff :
          /\ page[t].base \subseteq page[t].form
          /\ call[t].pc # "idle" /\ call[t].kind \in {"save", "edit"}
                => call[t].form \subseteq page[t].form
    /\ \A k \in Callers : call[k].kind \in {"save", "edit"} => call[k].base \subseteq call[k].form

InfoWritten ==
    ~over.info => \A k \in Callers :
        call[k].kind = "save" /\ call[k].pc = "written" => call[k].form \subseteq book.info

ChapterWritten(k, c) ==
    /\ call[k].kind \in {"create", "edit"} /\ call[k].pc = "written"
          => call[k].form \subseteq book.text[c]
    /\ call[k].kind = "publish" /\ call[k].pc \in {"replaced", "written"}
          => book.state[c] = "PUBLISHED"

ChaptersWritten ==
    \A k \in Callers : \A c \in There(book) \ over.chapters :
        call[k].chapter = c => ChapterWritten(k, c)

Created ==
    /\ There(book) \subseteq made
    /\ acked.published \subseteq made
    /\ \A c \in Chapters : acked.text[c] # {} => c \in made
    /\ \A t \in Staff :
          /\ page[t].at = "chapter" => page[t].chapter \in made
          /\ \A c \in Chapters : page[t].shown[c] # "none" => c \in made
    /\ \A k \in Callers :
          /\ There(call[k].copy) \subseteq made
          /\ call[k].chapter \in made \cup {NoChapter}
          /\ call[k].kind \in {"edit", "publish", "hide"} => call[k].chapter \in made
          /\ call[k].kind = "edit" /\ call[k].pc = "read" => call[k].chapter \in There(call[k].copy)

Undisturbed ==
    \A j, k \in Callers :
        j # k /\ ~Quiet(j) /\ ~Quiet(k) => Disturbs(call[j].kind, call[k].kind) \subseteq disturbed

ListSeen ==
    "list" \notin disturbed => \A k \in Callers : call[k].pc = "read" =>
        /\ call[k].kind = "create" => ~NumberTaken(call[k].number)
        /\ call[k].kind = "hide" => call[k].chapter \in There(book)
        /\ call[k].kind \in Whole =>
              There(call[k].copy) = There(book) /\ call[k].copy.total = book.total

RatingSeen ==
    "rating" \notin disturbed => \A k \in Callers : call[k].pc = "read" =>
        /\ call[k].kind = "review" => call[k].seen = reviews
        /\ call[k].kind \in Whole => call[k].copy.rating = book.rating

RatingWritten ==
    \/ "rating" \in disturbed \/ book.rating = reviews
    \/ \E r \in Readers : call[r].kind = "review" /\ call[r].pc \in {"stored", "read"}

DocInv ==
    /\ TypeOK
    /\ FormsGrow
    /\ InfoKept /\ InfoWritten
    /\ ChaptersKept /\ ChaptersWritten /\ Created
    /\ Undisturbed
    /\ NumbersDistinct /\ ChaptersCounted /\ ListSeen
    /\ RatingSeen /\ RatingWritten /\ RatingAgrees

(***************************************************************************)
(* An archived book comes back only when staff change its status again     *)
(* (ArchiveBookDialog: "Thao tác này có thể phục hồi sau bằng cách đổi lại *)
(* trạng thái").                                                           *)
(***************************************************************************)
ArchivedStays ==
    [][book.status = "ARCHIVED" /\ book'.status # "ARCHIVED"
       => \E t \in Staff : call[t].kind = "status" /\ call'[t] # call[t]]_vars
=============================================================================
