------------------------------ MODULE FormPages ------------------------------
(***************************************************************************)
(* The forms, dialogs and detail pages of both clients: what is typed, the *)
(* button that sends it, and what the page shows once the API has          *)
(* answered.  A page is the set of operations it offers, and an operation  *)
(* a record of the choices its handler makes; the steps are those all of   *)
(* them share.  What a page shows is abstracted to which operations each   *)
(* of its parts (rows, or groups of fields) has had done to it.            *)
(***************************************************************************)
EXTENDS Naturals

CONSTANTS
    Pages,            \* the pages looked at, among those described below
    Rows, NoRow,      \* the parts an operation can be about
    Changes,          \* what the user may type or attach
    MaxOperations,    \* operations the user starts (bound)
    MaxFailures       \* requests and uploads that fail (bound)

ASSUME RowsAssumption == NoRow \notin Rows
ASSUME FormBounds == MaxOperations \in Nat /\ MaxFailures \in Nat

-----------------------------------------------------------------------------
(* What distinguishes the operations:                                      *)
(*   guard    while one runs its button is off (alone), the button of its  *)
(*            row is off, unless another row takes that over (row), or     *)
(*            nothing is (none)                                            *)
(*   answer   what becomes of the answer: the page is left; it replaces    *)
(*            the page's own copy (whole), or its row, if there is an own  *)
(*            copy (patch) or in any case (merge); the change is made to   *)
(*            the copy the handler started with (spread); the list is      *)
(*            loaded anew (load); useAsync is asked again (again); none    *)
(*   fields   it sends what was typed, and clears it afterwards (clears),  *)
(*            after a failure too (wipes)                                  *)
(*   follows  its form is filled anew when its fields change on the page   *)
(*   dialog   it is in a dialog that can be closed at any time (free), or  *)
(*            not while it sends (held)                                    *)
(*   keeps    closing the dialog keeps what was typed                      *)
(*   frees    closing the dialog turns its button on again                 *)
(*   creates  what is sent becomes something new in the database           *)
(*   upload   a picture is uploaded for what was created                   *)
(*   attach   a picture is uploaded while the form is being filled, also   *)
(*            while it is sent (free) or not (held)                        *)

KindTypes ==
    [name : STRING, guard : {"alone", "row", "none"},
     answer : {"leave", "whole", "patch", "merge", "spread", "load", "again", "none"},
     fields : BOOLEAN, clears : BOOLEAN, wipes : BOOLEAN, follows : BOOLEAN,
     dialog : {"none", "free", "held"}, keeps : BOOLEAN, frees : BOOLEAN,
     creates : BOOLEAN, upload : BOOLEAN, attach : {"none", "free", "held"}]

Button(name, answer) ==
    [name |-> name, guard |-> "alone", answer |-> answer, fields |-> FALSE, clears |-> FALSE,
     wipes |-> FALSE, follows |-> FALSE, dialog |-> "none", keeps |-> FALSE, frees |-> FALSE,
     creates |-> FALSE, upload |-> FALSE, attach |-> "none"]

Form(name, answer) == [Button(name, answer) EXCEPT !.fields = TRUE, !.clears = TRUE]

NewForm(name, answer) == [Form(name, answer) EXCEPT !.creates = TRUE]

(* The admin's pages.                                                      *)
SaveUser     == [Form("save", "whole") EXCEPT !.follows = TRUE]
ToggleLock   == Button("lock", "spread")
RemoveRole   == [Button("remove role", "spread") EXCEPT !.guard = "row"]
AssignRole   == [Form("assign role", "again") EXCEPT !.dialog = "free", !.keeps = TRUE]
UserDetailPage == {SaveUser, ToggleLock, RemoveRole, AssignRole}

CreateUserPage == {NewForm("create", "leave")}

ReturnItems  == Form("return", "whole")
RenewItem    == [Button("renew", "patch") EXCEPT !.guard = "row"]
MarkItem     == [Form("mark", "patch") EXCEPT !.dialog = "free", !.keeps = TRUE,
                                              !.wipes = TRUE]
BorrowingDetailPage == {ReturnItems, RenewItem, MarkItem}

SettleFine   == [Button("settle", "merge") EXCEPT !.guard = "row"]
BorrowingFinesCard == {SettleFine}

CreateBorrowingPage == {NewForm("lend", "leave")}
CreateBookForm == {[NewForm("create", "leave") EXCEPT !.upload = TRUE]}

SaveVoucher   == [NewForm("save", "load") EXCEPT !.dialog = "free"]
ToggleVoucher == [Button("toggle", "load") EXCEPT !.guard = "none"]
VouchersPage  == {SaveVoucher, ToggleVoucher}

SaveBanner    == [SaveVoucher EXCEPT !.attach = "held"]
BannersPage   == {SaveBanner, ToggleVoucher}

CreateRole    == [NewForm("create", "load") EXCEPT !.guard = "none"]
RolesPage     == {CreateRole, ToggleVoucher}

CreateCampaign == NewForm("create", "merge")
SendCampaign   == Button("send", "merge")
EmailCampaignsPage == {CreateCampaign, SendCampaign}

SettingsPage == {Form("save", "whole")}

(* The reader's pages.                                                     *)
RegisterForm        == {NewForm("register", "leave")}
ForgotPassword      == {[Form("reset", "none") EXCEPT !.clears = FALSE, !.dialog = "free",
                                                      !.keeps = TRUE]}
ChangePasswordModal == {[Form("reset", "none") EXCEPT !.dialog = "free", !.frees = TRUE]}
EditProfileModal    == {[Form("save", "merge") EXCEPT !.clears = FALSE, !.dialog = "free",
                                                      !.keeps = TRUE, !.attach = "free"]}
ReviewForm          == {NewForm("write", "none")}
UserReviewCard      == {[Button("delete", "none") EXCEPT !.dialog = "held"]}

(* What creates something is sent from a form that is cleared afterwards;  *)
(* its button stays off until then, on every page but that of roles.  A    *)
(* page loads its list itself or leaves that to useAsync.  One form at     *)
(* most follows the page's copy, and replaces it when it is saved.         *)
WellMade(k) ==
    /\ k \in KindTypes
    /\ k.creates /\ k # CreateRole => k.guard = "alone" /\ k.clears /\ ~k.frees
    /\ k.follows => k.answer = "whole"

ASSUME PagesAssumption ==
    \A P \in Pages : \A j, k \in P :
        /\ WellMade(k) /\ ~(j.answer = "load" /\ k.answer = "again")
        /\ j.follows /\ k.follows => j = k

-----------------------------------------------------------------------------
VARIABLES
    page,       \* the page that is open
    typed,      \* what the form of each operation holds
    open,       \* the row its dialog is open for
    busy,       \* the row its button is off for
    ops,        \* operations under way
    uploads,    \* pictures under way to forms
    own,        \* the page's own copy of what it shows, if it has one
    fetched,    \* the copy useAsync or the first load has given it
    left,       \* the page was left
    stored,     \* what the API has done to each row
    filed,      \* what it has made something new of
    used, begun, failures,
    saves,      \* the operations that change the fields of a form that follows
    doubled,    \* history: what was made something new of twice
    late,       \* history: what came into a form while it was being sent
    lost,       \* history: an answer was lost after the API did its part
    missed,     \* history: the page shows nothing of an answer since
    crossed     \* history: two operations on what one copy shows ran at once

formVars == <<page, typed, open, busy, ops, uploads, own, fetched, left, stored, filed, used,
          begun, failures, saves, doubled, late, lost, missed, crossed>>

Copies  == [Rows -> SUBSET (1..MaxOperations)]
Nothing == [r \in Rows |-> {}]

FormInit ==
    /\ page \in Pages
    /\ typed = [k \in page |-> {}]
    /\ open = [k \in page |-> NoRow] /\ busy = [k \in page |-> NoRow]
    /\ ops = {} /\ uploads = {}
    /\ own = {} /\ fetched = Nothing /\ left = FALSE
    /\ stored = Nothing /\ filed = {}
    /\ used = {} /\ begun = 0 /\ failures = 0 /\ saves = {}
    /\ doubled = {} /\ late = {}
    /\ lost = FALSE /\ missed = FALSE /\ crossed = FALSE

(* borrowing ?? data                                                       *)
Shown == IF own = {} THEN fetched ELSE CHOOSE copy \in own : TRUE

(* values: { fullName: current.fullName }                                  *)
FormFields == [r \in Rows |-> Shown[r] \cap saves]

Shows(k) == k.answer \notin {"leave", "none"}

Ready(k, r) == ~left /\ (k.dialog = "none" \/ open[k] = r)

-----------------------------------------------------------------------------
(* The user.                                                               *)

Api == UNCHANGED <<stored, filed, doubled, lost>>

Screen == UNCHANGED <<own, fetched, left, saves, missed, crossed>>

OpenDialog(k, r) ==
    /\ k.dialog # "none" /\ ~left /\ \A j \in page : open[j] = NoRow
    /\ begun < MaxOperations
    /\ open' = [open EXCEPT ![k] = r]
    /\ Api /\ Screen
    /\ UNCHANGED <<page, typed, busy, ops, uploads, used, begun, failures, late>>

CloseDialog(k) ==
    /\ open[k] # NoRow
    /\ k.dialog = "held" => busy[k] = NoRow
    /\ open' = [open EXCEPT ![k] = NoRow]
    /\ typed' = IF k.keeps THEN typed ELSE [typed EXCEPT ![k] = {}]
    /\ busy' = IF k.frees THEN [busy EXCEPT ![k] = NoRow] ELSE busy
    /\ Api /\ Screen
    /\ UNCHANGED <<page, ops, uploads, used, begun, failures, late>>

Sending(k) == \E u \in ops : u.kind = k

Use(k, e) ==
    /\ k.fields /\ \E r \in Rows : Ready(k, r)
    /\ e \notin used /\ used' = used \cup {e}
    /\ Api /\ Screen /\ UNCHANGED <<page, open, busy, ops, begun, failures>>

Type(k, e) ==
    /\ Use(k, e)
    /\ typed' = [typed EXCEPT ![k] = @ \cup {e}]
    /\ late' = IF Sending(k) THEN late \cup {e} ELSE late
    /\ UNCHANGED uploads

(* The field for pictures is off while one is uploaded, that of a banner   *)
(* also while the form is sent.                                            *)
ChoosePicture(k, e) ==
    /\ k.attach # "none" /\ uploads = {}
    /\ k.attach = "held" => busy[k] = NoRow
    /\ Use(k, e)
    /\ uploads' = {[kind |-> k, change |-> e, before |-> typed[k]]}
    /\ UNCHANGED <<typed, late>>

\* Mutant: the picture is put into the form as it was when it was chosen.
PictureIntoOld(p) ==
    /\ uploads' = uploads \ {p}
    /\ typed' = [typed EXCEPT ![p.kind] = p.before \cup {p.change}]
    /\ Api /\ Screen
    /\ UNCHANGED <<page, open, busy, ops, used, begun, failures, late>>

(* setForm(current => ...): into the form as it is now.                    *)
PictureUploaded(p) ==
    /\ uploads' = uploads \ {p}
    /\ typed' = [typed EXCEPT ![p.kind] = @ \cup {p.change}]
    /\ late' = IF Sending(p.kind) THEN late \cup {p.change} ELSE late
    /\ Api /\ Screen
    /\ UNCHANGED <<page, open, busy, ops, used, begun, failures>>

PictureFails(p) ==
    /\ failures < MaxFailures /\ failures' = failures + 1
    /\ uploads' = uploads \ {p}
    /\ Api /\ Screen
    /\ UNCHANGED <<page, typed, open, busy, ops, used, begun, late>>

Free(k, r) ==
    CASE k.guard = "alone" -> busy[k] = NoRow
      [] k.guard = "row"   -> busy[k] # r
      [] OTHER             -> TRUE

(* Two answers merged into different rows do not touch each other.         *)
Meets(u, k, r) ==
    /\ Shows(u.kind) /\ Shows(k)
    /\ u.row = r \/ {u.kind.answer, k.answer} \ {"patch", "merge"} # {}

Submit(k, r) ==
    /\ begun < MaxOperations /\ Ready(k, r) /\ Free(k, r)
    /\ k.fields => typed[k] # {}
    /\ begun' = begun + 1
    /\ ops' = ops \cup {[id |-> begun + 1, kind |-> k, row |-> r, sent |-> typed[k],
                         before |-> Shown, at |-> "sent", answer |-> Nothing]}
    /\ busy' = IF k.guard = "none" THEN busy ELSE [busy EXCEPT ![k] = r]
    /\ saves' = IF k.follows THEN saves \cup {begun + 1} ELSE saves
    /\ crossed' = (crossed \/ \E u \in ops : Meets(u, k, r))
    /\ Api
    /\ UNCHANGED <<page, typed, open, uploads, own, fetched, left, used, failures, late,
                   missed>>

-----------------------------------------------------------------------------
(* The API.                                                                *)

Client == UNCHANGED <<page, typed, open, busy, uploads, used, begun, late>>

Becomes(u, at, answer) ==
    ops' = (ops \ {u}) \cup {[u EXCEPT !.at = at, !.answer = answer]}

Store(u) ==
    /\ u.at = "sent"
    /\ stored' = IF Shows(u.kind) THEN [stored EXCEPT ![u.row] = @ \cup {u.id}] ELSE stored
    /\ filed' = IF u.kind.creates THEN filed \cup u.sent ELSE filed
    /\ doubled' = IF u.kind.creates THEN doubled \cup (filed \cap u.sent) ELSE doubled
    /\ Becomes(u, IF u.kind.upload THEN "created" ELSE "answered", stored')
    /\ Client /\ Screen /\ UNCHANGED <<failures, lost>>

CoverUploaded(u) ==
    /\ u.at = "created"
    /\ Becomes(u, "answered", u.answer)
    /\ Client /\ Api /\ Screen /\ UNCHANGED failures

\* Mutant: a picture that fails is a book that fails; the form stays.
BookFails(u) ==
    /\ u.at = "created" /\ failures < MaxFailures /\ failures' = failures + 1
    /\ ops' = ops \ {u} /\ busy' = [busy EXCEPT ![u.kind] = NoRow]
    /\ Api /\ Screen /\ UNCHANGED <<page, typed, open, uploads, used, begun, late>>

(* The book is there: a warning, and the page is left all the same.        *)
CoverFails(u) ==
    /\ u.at = "created" /\ failures < MaxFailures /\ failures' = failures + 1
    /\ Becomes(u, "answered", u.answer)
    /\ Client /\ Api /\ Screen

-----------------------------------------------------------------------------
(* What the handlers do with the answer.                                   *)

(* Of react-hook-form: a form with values is filled with them anew when    *)
(* they change, whatever has been typed.                                   *)
Follow(forms) ==
    typed' = [k \in page |-> IF k.follows /\ FormFields' # FormFields THEN {} ELSE forms[k]]

Cleared(k) == [typed EXCEPT ![k] = {}]

Handled(u) ==
    /\ u.at = "answered"
    /\ Follow(IF u.kind.clears THEN Cleared(u.kind) ELSE typed)
    /\ open' = [open EXCEPT ![u.kind] = NoRow]
    /\ Api /\ UNCHANGED <<page, uploads, used, begun, failures, late>>

(* finally { setIsSubmitting(false) }, { setBusyId(null) }                 *)
TurnOn(k) == busy' = [busy EXCEPT ![k] = NoRow]

Ended(u) == ops' = ops \ {u} /\ TurnOn(u.kind)

Shell == UNCHANGED <<fetched, saves, crossed>>

Left(u) ==
    /\ u.kind.answer \in {"leave", "none"}
    /\ left' = (u.kind.answer = "leave")
    /\ UNCHANGED <<own, missed>>
    /\ Shell /\ Handled(u) /\ Ended(u)

Replaced(u) ==
    /\ u.kind.answer = "whole"
    /\ own' = {u.answer} /\ missed' = FALSE
    /\ UNCHANGED left
    /\ Shell /\ Handled(u) /\ Ended(u)

\* Mutant: the row is changed in the copy the handler started with.
MergedIntoOld(u) ==
    /\ u.kind.answer \in {"patch", "merge"}
    /\ IF u.kind.answer = "patch" /\ own = {}
       THEN own' = own /\ missed' = TRUE
       ELSE own' = {[u.before EXCEPT ![u.row] = u.answer[u.row]]} /\ UNCHANGED missed
    /\ UNCHANGED left
    /\ Shell /\ Handled(u) /\ Ended(u)

(* setBorrowing(prev => prev ? {...} : prev): nothing, on a page that has  *)
(* no copy of its own yet.                                                 *)
Merged(u) ==
    /\ u.kind.answer \in {"patch", "merge"}
    /\ IF u.kind.answer = "patch" /\ own = {}
       THEN own' = own /\ missed' = TRUE
       ELSE own' = {[Shown EXCEPT ![u.row] = u.answer[u.row]]} /\ UNCHANGED missed
    /\ UNCHANGED left
    /\ Shell /\ Handled(u) /\ Ended(u)

(* setUser({ ...current, ... })                                            *)
Spread(u) ==
    /\ u.kind.answer = "spread"
    /\ own' = {[u.before EXCEPT ![u.row] = @ \cup {u.id}]}
    /\ UNCHANGED <<left, missed>>
    /\ Shell /\ Handled(u) /\ Ended(u)

(* await load() keeps the button off; retry() does not, and forgets the    *)
(* request before.                                                         *)
AskAgain(u) ==
    /\ u.kind.answer \in {"load", "again"}
    /\ UNCHANGED <<own, left, missed>>
    /\ Shell /\ Handled(u)
    /\ ops' = {v \in ops \ {u} : u.kind.answer = "again" => v.at \notin {"asked", "listed"}}
                 \cup {[u EXCEPT !.at = "asked"]}
    /\ IF u.kind.answer = "again" THEN TurnOn(u.kind) ELSE UNCHANGED busy

List(u) ==
    /\ u.at = "asked"
    /\ Becomes(u, "listed", stored)
    /\ Client /\ Api /\ Screen /\ UNCHANGED failures

(* What useAsync answers is hidden by a copy of the page's own.            *)
Listed(u) ==
    /\ u.at = "listed" /\ ops' = ops \ {u}
    /\ IF u.kind.answer = "load"
       THEN own' = {u.answer} /\ missed' = FALSE /\ TurnOn(u.kind) /\ UNCHANGED fetched
       ELSE fetched' = u.answer /\ missed' = (own # {}) /\ UNCHANGED <<own, busy>>
    /\ UNCHANGED saves /\ Follow(typed)
    /\ Api /\ UNCHANGED <<page, open, uploads, left, used, begun, failures, late, crossed>>

Fault == failures < MaxFailures /\ failures' = failures + 1

ListFails(u) ==
    /\ u.at = "asked" /\ Fault /\ ops' = ops \ {u} /\ missed' = TRUE
    /\ IF u.kind.answer = "load" THEN TurnOn(u.kind) ELSE UNCHANGED busy
    /\ Api /\ UNCHANGED <<page, typed, open, uploads, own, fetched, left, used, begun, saves,
                          late, crossed>>

\* Mutant: the button is turned on by a success only.
FailsForGood(u) ==
    /\ u.at \in {"sent", "answered"} /\ Fault /\ ops' = ops \ {u}
    /\ lost' = (lost \/ u.at = "answered")
    /\ missed' = (missed \/ (u.at = "answered" /\ Shows(u.kind)))
    /\ typed' = IF u.kind.wipes THEN Cleared(u.kind) ELSE typed
    /\ UNCHANGED <<page, open, busy, uploads, own, fetched, left, stored, filed, used,
                   begun, saves, doubled, late, crossed>>

(* The request, or its answer, is lost: the dialog stays, and what was     *)
(* typed, but for the note of a report, which its dialog clears because    *)
(* the page has caught the error.                                          *)
SendFails(u) ==
    /\ u.at \in {"sent", "answered"} /\ Fault /\ Ended(u)
    /\ lost' = (lost \/ u.at = "answered")
    /\ missed' = (missed \/ (u.at = "answered" /\ Shows(u.kind)))
    /\ typed' = IF u.kind.wipes THEN Cleared(u.kind) ELSE typed
    /\ UNCHANGED <<page, open, uploads, own, fetched, left, stored, filed, used,
                   begun, saves, doubled, late, crossed>>

Handle(u) ==
    Left(u) \/ Replaced(u) \/ Merged(u) \/ Spread(u) \/ AskAgain(u) \/ Listed(u)

-----------------------------------------------------------------------------
FormNext ==
    \/ \E k \in page : \E r \in Rows : OpenDialog(k, r) \/ Submit(k, r)
    \/ \E k \in page : CloseDialog(k)
    \/ \E k \in page : \E e \in Changes : Type(k, e) \/ ChoosePicture(k, e)
    \/ \E p \in uploads : PictureUploaded(p) \/ PictureFails(p)
    \/ \E u \in ops : Store(u) \/ CoverUploaded(u) \/ CoverFails(u) \/ List(u) \/ Handle(u)
    \/ \E u \in ops : SendFails(u) \/ ListFails(u)

FormSpec == FormInit /\ [][FormNext]_formVars

(* The API and the network work on.                                        *)
Progress == \E u \in ops : Store(u) \/ CoverUploaded(u) \/ List(u) \/ Handle(u)

FormFairSpec == FormSpec /\ WF_formVars(Progress)

-----------------------------------------------------------------------------
FormTypeOK ==
    /\ page \in Pages /\ page \subseteq KindTypes
    /\ typed \in [page -> SUBSET Changes]
    /\ open \in [page -> Rows \cup {NoRow}] /\ busy \in [page -> Rows \cup {NoRow}]
    /\ ops \subseteq [id : 1..MaxOperations, kind : page, row : Rows, sent : SUBSET Changes,
                      before : Copies, at : {"sent", "created", "answered", "asked", "listed"},
                      answer : Copies]
    /\ uploads \subseteq [kind : page, change : Changes, before : SUBSET Changes]
    /\ own \in {{}} \cup {{copy} : copy \in Copies} /\ fetched \in Copies
    /\ stored \in Copies /\ filed \subseteq Changes /\ doubled \subseteq filed
    /\ used \subseteq Changes /\ late \subseteq Changes
    /\ begun \in 0..MaxOperations /\ failures \in 0..MaxFailures
    /\ saves \subseteq 1..MaxOperations
    /\ {left, lost, missed, crossed} \subseteq BOOLEAN

(***************************************************************************)
(* A page at rest shows what the API has done and nothing else, although   *)
(* each handler updates its copy in its own way, unless two operations on  *)
(* one row ran at once, or one on all of them did, or an answer has not    *)
(* reached the copy on the screen since.                                   *)
(***************************************************************************)
ShownIsStored == ops = {} /\ ~crossed /\ ~missed => Shown = stored

(***************************************************************************)
(* What was filled in once is stored once: a button pressed again, a       *)
(* dialog opened again, or a picture that fails after the book was created *)
(* makes no second book, member or loan.  Only an answer lost on its way   *)
(* does, and the page of roles, whose button stays on.                     *)
(***************************************************************************)
StoredOnce == lost \/ CreateRole \in page \/ doubled = {}

(***************************************************************************)
(* What was typed leaves the form only when a request that carried it has  *)
(* been answered with success, or the user closes its dialog: not by a     *)
(* failure, by a picture that arrives, or by another operation.  What comes *)
(* into a form while it is sent is cleared with the rest.  The code has    *)
(* two exceptions: a report that failed takes its note with it, and the    *)
(* profile of a user is filled anew by what another operation shows, but   *)
(* only if operations crossed or an answer was lost.                       *)
(***************************************************************************)
TypedIsKept ==
    [][\A k \in page : \A e \in typed[k] \ typed'[k] :
          \/ \E u \in ops \ ops' :
                /\ u.kind = k /\ e \in u.sent \cup late
                /\ k.wipes \/ (u.at = "answered" /\ failures' = failures)
          \/ open[k] # NoRow /\ open'[k] = NoRow /\ ops' = ops
          \/ k.follows /\ (crossed \/ lost)]_formVars

(***************************************************************************)
(* The inductive invariant.  First the operations under way: no two are    *)
(* one, only those that load a list wait for it, and those whose button    *)
(* is off while they run are alone.                                        *)
(***************************************************************************)
Running(u) ==
    u.at \in {"sent", "created", "answered"} \/ u.kind.answer = "load"

OneByOne ==
    \A u \in ops :
        /\ u.id <= begun
        /\ u.at \in {"asked", "listed"} => u.kind.answer \in {"load", "again"}
        /\ \A v \in ops : u.id = v.id => u = v

AloneWhileOff ==
    \A u \in ops : u.kind.guard = "alone" /\ ~u.kind.frees /\ Running(u) =>
        /\ busy[u.kind] # NoRow
        /\ \A v \in ops : v.kind = u.kind /\ Running(v) => v = u

(* Unless operations crossed, what an operation will put on the screen is  *)
(* what the API has; and the screen lacks just the operations the API has  *)
(* done and the page not heard of.                                         *)
Unheard(r) == {u \in ops : u.row = r /\ Shows(u.kind) /\ u.at # "sent"}

AnswersFit == ~crossed =>
    \A u \in ops : Shows(u.kind) =>
        /\ \A v \in ops \ {u} : ~Meets(v, u.kind, u.row)
        /\ u.at \in {"created", "answered"} =>
              /\ u.kind.answer = "whole" => u.answer = stored
              /\ u.kind.answer \in {"patch", "merge"} => u.answer[u.row] = stored[u.row]
        /\ u.at = "listed" => u.answer = stored
        /\ u.kind.answer = "spread" => u.before = Shown

ScreenFits == ~crossed /\ ~missed =>
    \A r \in Rows : stored[r] = Shown[r] \cup {u.id : u \in Unheard(r)}

(* Of the fields that a form follows, the screen lacks just the saves the  *)
(* page has not heard of; what it misses of other operations is no matter. *)
SavesFollow ==
    /\ saves \subseteq 1..begun
    /\ \A u \in ops : u.id \in saves <=> u.kind.follows

FieldNumbers == saves \cup (begun + 1)..MaxOperations

FollowedFit == ~crossed /\ ~lost =>
    \A r \in Rows : \A n \in FieldNumbers :
        n \in stored[r] <=> n \in Shown[r] \/ \E u \in Unheard(r) : u.id = n

(* A change is in one form, and in what was sent from it.                  *)
OneForm ==
    /\ \A k \in page : typed[k] \subseteq used
    /\ \A u \in ops : u.sent \subseteq used
    /\ \A j, k \in page : j # k => typed[j] \cap typed[k] = {}
    /\ \A u \in ops, k \in page : u.kind # k => u.sent \cap typed[k] = {}
    /\ \A u, v \in ops : u.kind # v.kind => u.sent \cap v.sent = {}

PicturesAreNew ==
    \A p \in uploads :
        /\ \A q \in uploads : p = q
        /\ p.change \in used \ filed
        /\ \A k \in page : p.change \notin typed[k]
        /\ \A u \in ops : p.change \notin u.sent

(* What was made something new of leaves its form with the answer, or the  *)
(* answer is lost.                                                         *)
Filed(u, e) == u.at \in {"created", "answered"} /\ e \in u.sent

FiledIsAnswered == ~lost /\ CreateRole \notin page =>
    \A k \in page : k.creates =>
        /\ \A e \in typed[k] \cap filed : \E u \in ops : u.kind = k /\ Filed(u, e)
        /\ \A u \in ops : u.kind = k /\ u.at = "sent" => u.sent \cap filed = {}

(* What a form holds while it is sent was sent, or is late.                *)
SentOrLate ==
    \A u \in ops : u.at \in {"sent", "created", "answered"} =>
        typed[u.kind] \subseteq u.sent \cup late

FormInv ==
    /\ OneByOne /\ AloneWhileOff
    /\ AnswersFit /\ ScreenFits /\ SavesFollow /\ FollowedFit
    /\ OneForm /\ PicturesAreNew /\ FiledIsAnswered /\ filed \subseteq used
    /\ SentOrLate

(***************************************************************************)
(* A button that is off waits for an operation under way: closing dialogs, *)
(* loading anew and failures in any order leave none off for nothing.      *)
(***************************************************************************)
OffForCause ==
    \A k \in page : busy[k] # NoRow => \E u \in ops : u.kind = k /\ Running(u)

(* Every button that was turned off is turned on again.                    *)
ButtonsComeBack == <>[](left \/ \A k \in page : busy[k] = NoRow)
=============================================================================
