------------------------ MODULE BookDocument_proofs ------------------------
(***************************************************************************)
(* Proofs about BookDocument, for every set of tabs, readers, chapters and *)
(* changes: DocInv is inductive.                                           *)
(***************************************************************************)
EXTENDS BookDocument, FiniteSetTheorems, TLAPS

(* Every constant assumption of BookDocument.                              *)
USE SetsAssumption, BoundsAssumption

(* The fields of a request, a page and a document, and what an update of   *)
(* one of them leaves.                                                     *)
LEMMA CallShape ==
  ASSUME NEW q \in CallTypes
  PROVE  /\ q.pc \in {"idle", "sent", "stored", "read", "replaced", "written", "refused"}
         /\ q.kind \in Kinds /\ q.chapter \in Chapters \cup {NoChapter}
         /\ q.number \in Numbers \cup {NoNumber} /\ q.status \in Statuses
         /\ q.base \subseteq Changes /\ q.form \subseteq Changes
         /\ q.copy \in Documents /\ q.seen \in [Readers -> Stars]
         /\ \A p \in {"sent", "stored", "read", "replaced", "written", "refused"} :
               [q EXCEPT !.pc = p] \in CallTypes
BY DEF CallTypes

LEMMA PageShape ==
  ASSUME NEW p \in PageTypes
  PROVE  /\ p.at \in {"none", "book", "chapter", "chapters"}
         /\ p.chapter \in Chapters \cup {NoChapter} /\ p.status \in Statuses
         /\ p.base \subseteq Changes /\ p.form \subseteq Changes /\ p.uploading \subseteq Changes
         /\ p.shown \in [Chapters -> States \cup {"HIDDEN"}]
BY DEF PageTypes

LEMMA DocumentShape ==
  ASSUME NEW d \in Documents
  PROVE  /\ d.info \subseteq Changes /\ d.status \in Statuses /\ d.total \in Int
         /\ d.state \in [Chapters -> States] /\ d.text \in [Chapters -> SUBSET Changes]
         /\ d.rating \in [Readers -> Stars]
         /\ There(d) \subseteq Chapters
BY DEF Documents, There

LEMMA NothingTyped ==
  /\ NoDocument \in Documents /\ Closed \in PageTypes /\ NoCall \in CallTypes
  /\ NoCall.pc = "idle" /\ NoCall.kind = "list" /\ NoCall.chapter = NoChapter
  /\ There(NoDocument) = {} /\ NoCall.copy = NoDocument
  /\ Closed.at = "none" /\ Closed.base = {} /\ Closed.form = {}
  /\ \A c \in Chapters : Closed.shown[c] = "none"
<1>1. NoDocument \in Documents /\ There(NoDocument) = {}
  BY DEF NoDocument, Documents, Statuses, States, There
<1>2. Closed \in PageTypes
  BY DEF Closed, PageTypes, Statuses, States
<1>3. NoCall \in CallTypes
  BY <1>1 DEF NoCall, CallTypes, Kinds, Statuses
<1> QED
  BY <1>1, <1>2, <1>3 DEF NoCall, Closed

LEMMA RequestShape ==
  ASSUME NEW kind \in Kinds
  PROVE  /\ Request(kind) \in CallTypes
         /\ Request(kind).pc = "sent" /\ Request(kind).kind = kind
         /\ Request(kind).base = {} /\ Request(kind).form = {}
         /\ Request(kind).chapter = NoChapter /\ Request(kind).copy = NoDocument
BY NothingTyped DEF Request, NoCall, CallTypes

(* What a request is before it leaves, and after the first read.           *)
LEMMA AskedStatus ==
  ASSUME NEW q \in CallTypes, NEW s \in Statuses
  PROVE  [q EXCEPT !.status = s] \in CallTypes
BY DEF CallTypes

LEMMA AskedForm ==
  ASSUME NEW q \in CallTypes, NEW b \in SUBSET Changes, NEW f \in SUBSET Changes
  PROVE  [q EXCEPT !.base = b, !.form = f] \in CallTypes
BY DEF CallTypes

LEMMA AskedChapter ==
  ASSUME NEW q \in CallTypes, NEW c \in Chapters \cup {NoChapter}
  PROVE  [q EXCEPT !.chapter = c] \in CallTypes
BY DEF CallTypes

LEMMA AskedNumber ==
  ASSUME NEW q \in CallTypes, NEW n \in Numbers, NEW f \in SUBSET Changes
  PROVE  [q EXCEPT !.number = n, !.form = f] \in CallTypes
BY DEF CallTypes

LEMMA AskedEdit ==
  ASSUME NEW q \in CallTypes, NEW c \in Chapters \cup {NoChapter},
         NEW b \in SUBSET Changes, NEW f \in SUBSET Changes
  PROVE  [q EXCEPT !.chapter = c, !.base = b, !.form = f] \in CallTypes
BY DEF CallTypes

Learnt(q, r, p) ==
    /\ r \in CallTypes /\ r.pc = p /\ r.kind = q.kind
    /\ r.chapter = q.chapter /\ r.number = q.number /\ r.base = q.base /\ r.form = q.form

LEMMA LearntCopy ==
  ASSUME NEW q \in CallTypes, NEW p \in {"read", "refused"}, NEW d \in Documents
  PROVE  Learnt(q, [q EXCEPT !.pc = p, !.copy = d], p)
BY DEF CallTypes, Learnt

LEMMA CopyLearnt ==
  ASSUME NEW q \in CallTypes, NEW p, NEW d
  PROVE  [q EXCEPT !.pc = p, !.copy = d].copy = d
BY DEF CallTypes

LEMMA LearntNothing ==
  ASSUME NEW q \in CallTypes, NEW p \in {"read", "refused"}
  PROVE  Learnt(q, [q EXCEPT !.pc = p], p)
BY DEF CallTypes, Learnt

LEMMA NothingCopied ==
  ASSUME NEW q \in CallTypes, NEW p
  PROVE  [q EXCEPT !.pc = p].copy = q.copy
BY DEF CallTypes

-----------------------------------------------------------------------------
(* Four classes of steps.  A page is opened, edited or closed.             *)
Looks(t, p) ==
    /\ t \in Staff /\ p \in PageTypes /\ page' = [page EXCEPT ![t] = p]
    /\ Look /\ changes' \subseteq Changes /\ faults' \in Nat
    /\ p.base \subseteq p.form
    /\ p.at = "chapter" => p.chapter \in made
    /\ \A c \in Chapters : p.shown[c] # "none" => c \in made
    /\ Quiet(t) \/ page[t].form \subseteq p.form

(* A request leaves.                                                       *)
Sends(k, q) ==
    /\ k \in Callers /\ q \in CallTypes /\ q.pc = "sent" /\ Send(k, q) /\ UNCHANGED changes
    /\ q.copy = NoDocument
    /\ q.kind \in {"save", "edit"} =>
          k \in Staff /\ q.base = page[k].base /\ q.form = page[k].form
    /\ q.kind = "review" => k \in Readers
    /\ q.chapter \in made \cup {NoChapter}
    /\ q.kind \in {"edit", "publish", "hide"} => q.chapter \in made

(* A handler makes its first read.                                         *)
Learns(k, q) ==
    /\ k \in Callers /\ q \in CallTypes /\ call' = [call EXCEPT ![k] = q]
    /\ Held /\ UNCHANGED <<book, reviews, over, disturbed>>
    /\ call[k].pc = "sent" /\ q.pc \in {"read", "refused"}
    /\ q.kind = call[k].kind /\ q.kind # "review"
    /\ q.chapter = call[k].chapter /\ q.number = call[k].number
    /\ q.base = call[k].base /\ q.form = call[k].form
    /\ There(q.copy) \subseteq made
    /\ q.pc = "read" /\ q.kind = "create" => ~NumberTaken(q.number)
    /\ q.pc = "read" /\ q.kind = "hide" => q.chapter \in There(book)
    /\ q.kind \in Whole => q.copy = book
    /\ q.pc = "read" /\ q.kind = "edit" => q.chapter \in There(q.copy)

(* A request comes to its end, well or not.                                *)
Ends(k) ==
    /\ k \in Callers /\ call' = [call EXCEPT ![k] = NoCall] /\ ~Quiet(k)
    /\ UNCHANGED <<book, number, made, reviews, changes, started, over>>
    /\ faults' \in Nat
    /\ disturbed \subseteq disturbed' /\ disturbed' \subseteq {"list", "rating"}
    /\ call[k].kind = "review" /\ call[k].pc \in {"stored", "read"} => "rating" \in disturbed'
    /\ acked' \in [info : SUBSET Changes, text : [Chapters -> SUBSET Changes],
                    published : SUBSET Chapters]
    /\ \/ acked'.info = acked.info
       \/ /\ call[k].kind = "save" /\ call[k].pc = "written"
          /\ acked'.info = acked.info \cup call[k].form
    /\ \A c \in Chapters :
          \/ acked'.text[c] = acked.text[c]
          \/ /\ call[k].kind \in {"create", "edit"} /\ call[k].pc = "written"
             /\ call[k].chapter = c /\ acked'.text[c] = acked.text[c] \cup call[k].form
    /\ \/ acked'.published = acked.published
       \/ /\ call[k].kind = "publish" /\ call[k].pc = "written"
          /\ acked'.published = acked.published \cup {call[k].chapter}
    /\ \/ page' = page
       \/ \E p \in PageTypes :
             /\ k \in Staff /\ page' = [page EXCEPT ![k] = p]
             /\ p.base \subseteq p.form
             /\ p.at = "chapter" => p.chapter \in made
             /\ \A c \in Chapters : p.shown[c] # "none" => c \in made

LEMMA PageParts ==
  ASSUME TypeOK, NEW t \in Staff
  PROVE  page[t] \in PageTypes
BY DEF TypeOK

LEMMA CallParts ==
  ASSUME TypeOK, NEW k \in Callers
  PROVE  call[k] \in CallTypes
BY DEF TypeOK

LEMMA StaffCall == Staff \subseteq Callers /\ Readers \subseteq Callers
BY DEF Callers

LEMMA OpeningLooks ==
  ASSUME TypeOK, Created, NEW t \in Staff,
         OpenBook(t) \/ \E c \in Chapters : OpenChapter(t, c)
  PROVE  \E p : Looks(t, p)
<1>1. CASE OpenBook(t)
  <2> DEFINE p == [Closed EXCEPT !.at = "book", !.status = book.status,
                                 !.base = book.info, !.form = book.info]
  <2>1. p \in PageTypes /\ p.at = "book" /\ p.base = p.form /\ p.shown = Closed.shown
    BY NothingTyped, DocumentShape DEF TypeOK, PageTypes, Closed
  <2>2. Looks(t, p)
    BY <1>1, <2>1, NothingTyped DEF Looks, OpenBook, TypeOK, Closed
  <2> QED
    BY <2>2
<1>2. ASSUME NEW c \in Chapters, OpenChapter(t, c)
      PROVE  \E p : Looks(t, p)
  <2> DEFINE p == [Closed EXCEPT !.at = "chapter", !.chapter = c,
                                 !.base = book.text[c], !.form = book.text[c]]
  <2>0. book.text[c] \subseteq Changes
    BY DocumentShape DEF TypeOK
  <2>1. p \in PageTypes /\ p.chapter = c /\ p.base = p.form /\ p.shown = Closed.shown
    BY <2>0, NothingTyped DEF PageTypes, Closed
  <2>2. c \in made
    BY <1>2 DEF OpenChapter, Created
  <2>3. Looks(t, p)
    BY <1>2, <2>1, <2>2, NothingTyped DEF Looks, OpenChapter, TypeOK, Closed
  <2> QED
    BY <2>3
<1> QED
  BY <1>1, <1>2

LEMMA EditingLooks ==
  ASSUME TypeOK, Created, FormsGrow, NEW t \in Staff,
         \/ Close(t) \/ ImageUploaded(t) \/ UploadFails(t)
         \/ \E e \in Changes : TypeBook(t, e) \/ TypeChapter(t, e) \/ ChooseImage(t, e)
  PROVE  \E p : Looks(t, p)
<1> USE PageParts, PageShape, NothingTyped
<1>0. page[t] \in PageTypes /\ faults \in Nat /\ changes \subseteq Changes
  BY DEF TypeOK
<1>1. CASE Close(t)
  <2>1. Looks(t, Closed)
    BY <1>0, <1>1 DEF Looks, Close
  <2> QED
    BY <2>1
<1>2. CASE ImageUploaded(t)
  <2> DEFINE p == [page[t] EXCEPT !.form = @ \cup page[t].uploading, !.uploading = {}]
  <2>1. p \in PageTypes /\ p.at = page[t].at /\ p.chapter = page[t].chapter
        /\ p.base = page[t].base /\ page[t].form \subseteq p.form /\ p.shown = page[t].shown
    BY <1>0 DEF PageTypes
  <2>2. Looks(t, p)
    BY <1>0, <1>2, <2>1 DEF Looks, ImageUploaded, FormsGrow, Created, TypeOK
  <2> QED
    BY <2>2
<1>3. CASE UploadFails(t)
  <2> DEFINE p == [page[t] EXCEPT !.uploading = {}]
  <2>1. p \in PageTypes /\ p.at = page[t].at /\ p.chapter = page[t].chapter
        /\ p.base = page[t].base /\ page[t].form = p.form /\ p.shown = page[t].shown
    BY <1>0 DEF PageTypes
  <2>2. Looks(t, p)
    BY <1>0, <1>3, <2>1 DEF Looks, UploadFails, FormsGrow, Created, TypeOK
  <2> QED
    BY <2>2
<1>4. ASSUME NEW e \in Changes, NEW at, Type(t, at, e)
      PROVE  \E p : Looks(t, p)
  <2> DEFINE p == [page[t] EXCEPT !.form = @ \cup {e}]
  <2>1. p \in PageTypes /\ p.at = page[t].at /\ p.chapter = page[t].chapter
        /\ p.base = page[t].base /\ page[t].form \subseteq p.form /\ p.shown = page[t].shown
    BY <1>0 DEF PageTypes
  <2>2. Looks(t, p)
    BY <1>0, <1>4, <2>1 DEF Looks, Type, FormsGrow, Created, TypeOK
  <2> QED
    BY <2>2
<1>5. ASSUME NEW e \in Changes, ChooseImage(t, e)
      PROVE  \E p : Looks(t, p)
  <2> DEFINE p == [page[t] EXCEPT !.uploading = {e}]
  <2>1. p \in PageTypes /\ p.at = page[t].at /\ p.chapter = page[t].chapter
        /\ p.base = page[t].base /\ page[t].form = p.form /\ p.shown = page[t].shown
    BY <1>0 DEF PageTypes
  <2>2. Looks(t, p)
    BY <1>0, <1>5, <2>1 DEF Looks, ChooseImage, FormsGrow, Created, TypeOK
  <2> QED
    BY <2>2
<1> QED
  BY <1>1, <1>2, <1>3, <1>4, <1>5 DEF TypeBook, TypeChapter

LEMMA SubmittingSends ==
  ASSUME TypeOK, Created, NEW t \in Staff,
         \/ SubmitBook(t) \/ ArchiveBook(t) \/ SubmitChapter(t) \/ OpenChapters(t)
         \/ \E s \in {"DRAFT", "PUBLISHED"} : ChangeStatus(t, s)
  PROVE  \E q : Sends(t, q)
<1> USE NothingTyped, StaffCall
<1> DEFINE R(kind) == Request(kind)
<1>0. page[t] \in PageTypes /\ page[t].base \in SUBSET Changes /\ page[t].form \in SUBSET Changes
      /\ page[t].chapter \in Chapters \cup {NoChapter}
  BY PageParts, PageShape
<1>1. CASE SubmitBook(t)
  <2> DEFINE q == [R("save") EXCEPT !.base = page[t].base, !.form = page[t].form]
  <2>1. "save" \in Kinds
    BY DEF Kinds, Whole
  <2>2. q.pc = "sent" /\ q.kind = "save" /\ q.base = page[t].base
        /\ q.form = page[t].form /\ q.chapter = NoChapter /\ q.copy = NoDocument
    BY <2>1, RequestShape DEF CallTypes
  <2>4. q \in CallTypes
    BY <1>0, <2>1, RequestShape, AskedForm, Zenon
  <2>3. Sends(t, q)
    BY <1>1, <2>2, <2>4 DEF Sends, SubmitBook
  <2> QED
    BY <2>3
<1>2. ASSUME NEW s \in Statuses, Send(t, [Request("status") EXCEPT !.status = s]),
             UNCHANGED changes
      PROVE  \E q : Sends(t, q)
  <2> DEFINE q == [R("status") EXCEPT !.status = s]
  <2>1. "status" \in Kinds
    BY DEF Kinds, Whole
  <2>2. q.pc = "sent" /\ q.kind = "status"
        /\ q.chapter = NoChapter /\ q.copy = NoDocument
    BY <2>1, RequestShape DEF CallTypes
  <2>4. q \in CallTypes
    BY <1>2, <2>1, RequestShape, AskedStatus, Zenon
  <2>3. Sends(t, q)
    BY <1>2, <2>2, <2>4 DEF Sends
  <2> QED
    BY <2>3
<1>3. CASE SubmitChapter(t)
  <2> DEFINE q == [R("edit") EXCEPT !.chapter = page[t].chapter,
                                    !.base = page[t].base, !.form = page[t].form]
  <2>1. "edit" \in Kinds
    BY DEF Kinds
  <2>2. q.pc = "sent" /\ q.kind = "edit" /\ q.base = page[t].base
        /\ q.form = page[t].form /\ q.chapter = page[t].chapter /\ q.copy = NoDocument
    BY <2>1, RequestShape DEF CallTypes
  <2>5. q \in CallTypes
    BY <1>0, <2>1, RequestShape, AskedEdit, Zenon
  <2>3. page[t].chapter \in made
    BY <1>3 DEF SubmitChapter, Created
  <2>4. Sends(t, q)
    BY <1>3, <2>2, <2>3, <2>5 DEF Sends, SubmitChapter
  <2> QED
    BY <2>4
<1>4. CASE OpenChapters(t)
  <2>1. "list" \in Kinds
    BY DEF Kinds
  <2>2. Sends(t, Request("list"))
    BY <1>4, <2>1, RequestShape DEF Sends, OpenChapters
  <2> QED
    BY <2>2
<1>5. CASE ArchiveBook(t)
  BY <1>2, <1>5 DEF ArchiveBook, Statuses
<1>6. ASSUME NEW s \in {"DRAFT", "PUBLISHED"}, ChangeStatus(t, s)
      PROVE  \E q : Sends(t, q)
  BY <1>2, <1>6 DEF ChangeStatus, Statuses
<1> QED
  BY <1>1, <1>3, <1>4, <1>5, <1>6

LEMMA ChapterSends ==
  ASSUME TypeOK, Created, NEW t \in Staff,
         \/ \E c \in Chapters : TogglePublish(t, c)
         \/ \E n \in Numbers : \E text \in {{}, {Opening}} : SubmitNewChapter(t, n, text)
  PROVE  \E q : Sends(t, q)
<1> USE NothingTyped, StaffCall
<1>1. ASSUME NEW c \in Chapters, TogglePublish(t, c)
      PROVE  \E q : Sends(t, q)
  <2> DEFINE kind == IF page[t].shown[c] = "PUBLISHED" THEN "hide" ELSE "publish"
             q == [Request(kind) EXCEPT !.chapter = c]
  <2>1. kind \in Kinds /\ kind \in {"hide", "publish"}
    BY DEF Kinds, Listing
  <2> HIDE DEF kind
  <2>2. q.pc = "sent" /\ q.kind = kind /\ q.chapter = c /\ q.copy = NoDocument
    BY <2>1, RequestShape DEF CallTypes
  <2>7. c \in Chapters \cup {NoChapter}
    OBVIOUS
  <2>6. q \in CallTypes
    BY <2>1, <2>7, RequestShape, AskedChapter, Zenon
  <2>3. c \in made
    BY <1>1 DEF TogglePublish, Created
  <2>4. Send(t, q) /\ UNCHANGED changes
    BY <1>1 DEF TogglePublish, kind
  <2>5. Sends(t, q)
    BY <2>1, <2>2, <2>3, <2>4, <2>6 DEF Sends
  <2> QED
    BY <2>5
<1>2. ASSUME NEW n \in Numbers, NEW text \in {{}, {Opening}}, SubmitNewChapter(t, n, text)
      PROVE  \E q : Sends(t, q)
  <2> DEFINE q == [Request("create") EXCEPT !.number = n, !.form = text]
  <2>1. "create" \in Kinds
    BY DEF Kinds, Listing
  <2>2. q.pc = "sent" /\ q.kind = "create" /\ q.chapter = NoChapter
        /\ q.copy = NoDocument
    BY <2>1, RequestShape DEF CallTypes
  <2>4. text \in SUBSET Changes
    OBVIOUS
  <2>5. q \in CallTypes
    BY <2>1, <2>4, RequestShape, AskedNumber, Zenon
  <2>3. Sends(t, q)
    BY <1>2, <2>2, <2>5 DEF Sends, SubmitNewChapter
  <2> QED
    BY <2>3
<1> QED
  BY <1>1, <1>2

LEMMA ReaderSends ==
  ASSUME TypeOK, NEW r \in Readers, LookAtBook(r) \/ Review(r)
  PROVE  \E q : Sends(r, q)
<1> USE NothingTyped, StaffCall, RequestShape
<1>1. "list" \in Kinds /\ "review" \in Kinds
  BY DEF Kinds
<1>2. CASE LookAtBook(r)
  <2>1. Sends(r, Request("list"))
    BY <1>1, <1>2 DEF Sends, LookAtBook
  <2> QED
    BY <2>1
<1>3. CASE Review(r)
  <2>1. Sends(r, Request("review"))
    BY <1>1, <1>3 DEF Sends, Review
  <2> QED
    BY <2>1
<1> QED
  BY <1>2, <1>3

LEMMA ReadsLearn ==
  ASSUME TypeOK, Created, NEW k \in Callers, Reads(k)
  PROVE  \E q : Learns(k, q)
<1>0. /\ call[k] \in CallTypes /\ book \in Documents /\ There(book) \subseteq made
      /\ There(call[k].copy) \subseteq made
  BY CallParts DEF TypeOK, Created
<1>1. CASE ReadBook(k)
  <2> DEFINE q == [call[k] EXCEPT !.pc = "read", !.copy = book]
  <2>1. Learnt(call[k], q, "read") /\ q.copy = book
    BY <1>0, LearntCopy, CopyLearnt, Zenon
  <2>2. call' = [call EXCEPT ![k] = q]
    BY <1>0, <1>1 DEF ReadBook, ReadInto, TypeOK
  <2>3. Learns(k, q)
    BY <1>0, <1>1, <2>1, <2>2 DEF Learns, Learnt, ReadBook, Whole
  <2> QED
    BY <2>3
<1>2. CASE ListChapters(k)
  <2> DEFINE d == [NoDocument EXCEPT !.state = book.state]
             q == [call[k] EXCEPT !.pc = "read", !.copy = d]
  <2>1. d \in Documents /\ d.state = book.state
    BY <1>0, NothingTyped, DocumentShape DEF Documents
  <2>2. There(d) \subseteq made
    BY <1>0, <2>1 DEF There
  <2> HIDE DEF d
  <2>6. "read" \in {"read", "refused"}
    OBVIOUS
  <2>7. Learnt(call[k], q, "read")
    BY <1>0, <2>1, <2>6, LearntCopy, Zenon
  <2>8. q.copy = d
    BY <1>0, CopyLearnt, Zenon
  <2>3. Learnt(call[k], q, "read") /\ q.copy = d
    BY <2>7, <2>8
  <2>4. call' = [call EXCEPT ![k] = q]
    BY <1>0, <1>2 DEF ListChapters, ReadInto, TypeOK, d
  <2>5. Learns(k, q)
    BY <1>0, <1>2, <2>2, <2>3, <2>4 DEF Learns, Learnt, ListChapters, Whole
  <2> QED
    BY <2>5
<1>3. CASE CheckNumber(k)
  <2> DEFINE pc == IF NumberTaken(call[k].number) THEN "refused" ELSE "read"
             q == [call[k] EXCEPT !.pc = pc]
  <2>1. pc \in {"read", "refused"} /\ (pc = "read" => ~NumberTaken(call[k].number))
    OBVIOUS
  <2> HIDE DEF pc
  <2>2. Learnt(call[k], q, pc) /\ q.copy = call[k].copy
    BY <1>0, <2>1, LearntNothing, NothingCopied, Zenon
  <2>3. call' = [call EXCEPT ![k] = q]
    BY <1>0, <1>3 DEF CheckNumber, TypeOK, pc
  <2>4. Learns(k, q)
    BY <1>0, <1>3, <2>1, <2>2, <2>3 DEF Learns, Learnt, CheckNumber, Whole
  <2> QED
    BY <2>4
<1>4. CASE ReadChapter(k)
  <2> DEFINE c == call[k].chapter
             pc == IF c \notin There(book) \/ (call[k].kind = "publish" /\ book.text[c] = {})
                   THEN "refused" ELSE "read"
             d == [NoDocument EXCEPT !.state[c] = book.state[c], !.text[c] = book.text[c]]
             q == [call[k] EXCEPT !.pc = pc, !.copy = d]
  <2>0. call[k].kind \in {"edit", "publish", "hide"} /\ c \in made /\ made \subseteq Chapters
    BY <1>4 DEF ReadChapter, Created, TypeOK
  <2>1. pc \in {"read", "refused"} /\ (pc = "read" => c \in There(book))
    OBVIOUS
  <2> HIDE DEF pc
  <2>2. d \in Documents
    <3>1. NoDocument.state \in [Chapters -> States] /\ NoDocument.text \in [Chapters -> SUBSET Changes]
      BY NothingTyped, DocumentShape
    <3>2. book.state[c] \in States /\ book.text[c] \subseteq Changes
      BY <1>0, <2>0, DocumentShape
    <3>3. [NoDocument.state EXCEPT ![c] = book.state[c]] \in [Chapters -> States]
      BY <3>1, <3>2
    <3>4. [NoDocument.text EXCEPT ![c] = book.text[c]] \in [Chapters -> SUBSET Changes]
      BY <3>1, <3>2
    <3> QED
      BY <3>3, <3>4, NothingTyped DEF Documents
  <2>7. c \in There(book) => c \in There(d)
    BY <2>0, NothingTyped, DocumentShape DEF There
  <2>3. There(d) \subseteq made
    <3>1. \A b \in Chapters : b # c => d.state[b] = "none"
      BY DEF NoDocument
    <3> QED
      BY <2>0, <3>1 DEF There
  <2> HIDE DEF d
  <2>4. Learnt(call[k], q, pc) /\ q.copy = d
    BY <1>0, <2>1, <2>2, LearntCopy, CopyLearnt, Zenon
  <2>5. call' = [call EXCEPT ![k] = q]
    BY <1>4 DEF ReadChapter, ReadInto, pc, d
  <2>6. Learns(k, q)
    BY <1>0, <1>4, <2>0, <2>1, <2>3, <2>4, <2>5, <2>7 DEF Learns, Learnt, ReadChapter, Whole
  <2> QED
    BY <2>6
<1> QED
  BY <1>1, <1>2, <1>3, <1>4 DEF Reads

(* What is acknowledged keeps its type.                                    *)
Acks == [info : SUBSET Changes, text : [Chapters -> SUBSET Changes], published : SUBSET Chapters]

LEMMA AckShape ==
  ASSUME NEW a \in Acks
  PROVE  /\ a.info \in SUBSET Changes /\ a.text \in [Chapters -> SUBSET Changes]
         /\ a.published \in SUBSET Chapters
         /\ a = [info |-> a.info, text |-> a.text, published |-> a.published]
BY DEF Acks

LEMMA AckInfo ==
  ASSUME NEW a \in Acks, NEW f \in SUBSET Changes
  PROVE  LET b == [a EXCEPT !.info = @ \cup f] IN
         b \in Acks /\ b.info = a.info \cup f /\ b.text = a.text /\ b.published = a.published
BY DEF Acks

LEMMA AckText ==
  ASSUME NEW a \in Acks, NEW f \in SUBSET Changes, NEW c \in Chapters \cup {NoChapter}
  PROVE  LET b == [a EXCEPT !.text[c] = @ \cup f] IN
         /\ b \in Acks /\ b.info = a.info /\ b.published = a.published
         /\ \A d \in Chapters : b.text[d] = IF d = c THEN a.text[d] \cup f ELSE a.text[d]
<1>1. a.text \in [Chapters -> SUBSET Changes]
  BY AckShape
<1>2. [a.text EXCEPT ![c] = @ \cup f] \in [Chapters -> SUBSET Changes]
  BY <1>1
<1> QED
  BY <1>1, <1>2 DEF Acks

LEMMA AckPublished ==
  ASSUME NEW a \in Acks, NEW c \in Chapters
  PROVE  LET b == [a EXCEPT !.published = @ \cup {c}] IN
         b \in Acks /\ b.info = a.info /\ b.text = a.text /\ b.published = a.published \cup {c}
BY DEF Acks

(* ... and the answered page its own.                                      *)
LEMMA PageAnswered ==
  ASSUME TypeOK, FormsGrow, Created, NEW t \in Staff, ~Quiet(t),
         call[t].kind \in {"save", "status", "edit"},
         NEW p, NEW s \in Statuses,
         \/ p = [page[t] EXCEPT !.status = s]
         \/ p = [page[t] EXCEPT !.base = call[t].form] /\ call[t].kind = "edit"
         \/ p = [page[t] EXCEPT !.status = s, !.base = call[t].form] /\ call[t].kind = "save"
  PROVE  /\ p \in PageTypes /\ p.base \subseteq p.form
         /\ p.at = "chapter" => p.chapter \in made
         /\ \A c \in Chapters : p.shown[c] # "none" => c \in made
<1>1. page[t] \in PageTypes /\ call[t].form \in SUBSET Changes
  BY PageParts, CallParts, CallShape, StaffCall
<1>2. page[t].base \subseteq page[t].form
  BY DEF FormsGrow
<1>3. call[t].kind \in {"edit", "save"} => call[t].form \subseteq page[t].form
  BY DEF FormsGrow, Quiet
<1>4. /\ p \in PageTypes /\ p.form = page[t].form /\ p.at = page[t].at
      /\ p.chapter = page[t].chapter /\ p.shown = page[t].shown
  BY <1>1 DEF PageTypes
<1>5. p.base = page[t].base \/ (p.base = call[t].form /\ call[t].kind \in {"edit", "save"})
  BY <1>1 DEF PageTypes
<1> QED
  BY <1>2, <1>3, <1>4, <1>5 DEF Created

LEMMA PageListed ==
  ASSUME TypeOK, FormsGrow, Created, NEW t \in Staff, NEW c \in Chapters, c \in made,
         NEW x \in {"PUBLISHED", "HIDDEN"}
  PROVE  LET p == [page[t] EXCEPT !.shown[c] = x] IN
         /\ p \in PageTypes /\ p.base \subseteq p.form
         /\ p.at = "chapter" => p.chapter \in made
         /\ \A d \in Chapters : p.shown[d] # "none" => d \in made
<1> DEFINE p == [page[t] EXCEPT !.shown[c] = x]
<1>1. page[t] \in PageTypes /\ page[t].shown \in [Chapters -> States \cup {"HIDDEN"}]
  BY PageParts, PageShape
<1>2. [page[t].shown EXCEPT ![c] = x] \in [Chapters -> States \cup {"HIDDEN"}]
  BY <1>1 DEF States
<1>3. /\ p \in PageTypes /\ p.form = page[t].form /\ p.at = page[t].at /\ p.base = page[t].base
      /\ p.chapter = page[t].chapter /\ p.shown = [page[t].shown EXCEPT ![c] = x]
  BY <1>1, <1>2 DEF PageTypes
<1>4. \A d \in Chapters : d # c => p.shown[d] = page[t].shown[d]
  BY <1>1, <1>3
<1> HIDE DEF p
<1>5. /\ p.base \subseteq p.form /\ (p.at = "chapter" => p.chapter \in made)
      /\ \A d \in Chapters : p.shown[d] # "none" => d \in made
  BY <1>3, <1>4 DEF FormsGrow, Created
<1> QED
  BY <1>3, <1>5 DEF p

(* What every answer has in common.                                        *)
Told(k) ==
    /\ k \in Callers /\ call' = [call EXCEPT ![k] = NoCall] /\ ~Quiet(k)
    /\ UNCHANGED <<book, number, made, reviews, changes, started, over>>
    /\ faults' \in Nat
    /\ disturbed \subseteq disturbed' /\ disturbed' \subseteq {"list", "rating"}
    /\ call[k].kind = "review" /\ call[k].pc \in {"stored", "read"} => "rating" \in disturbed'

PageGood(p) ==
    /\ p \in PageTypes /\ p.base \subseteq p.form
    /\ p.at = "chapter" => p.chapter \in made
    /\ \A c \in Chapters : p.shown[c] # "none" => c \in made

LEMMA FinishTells ==
  ASSUME TypeOK, NEW k \in Callers, NEW kind, Finish(k, kind)
  PROVE  Told(k) /\ call[k].kind = kind /\ call[k].pc = "written"
BY DEF Finish, Told, TypeOK, Quiet

LEMMA SamePage ==
  ASSUME TypeOK, NEW k \in Callers, Told(k), UNCHANGED <<page, acked>>
  PROVE  Ends(k)
BY DEF Ends, Told, TypeOK

LEMMA NewPage ==
  ASSUME TypeOK, NEW k \in Staff, Told(k), UNCHANGED acked,
         NEW p, PageGood(p), page' = [page EXCEPT ![k] = p]
  PROVE  Ends(k)
BY DEF Ends, Told, TypeOK, PageGood

LEMMA AnswersEnd ==
  ASSUME TypeOK, FormsGrow, Created, NEW t \in Staff, Answers(t)
  PROVE  Ends(t)
<1> USE StaffCall
<1>0. /\ page[t] \in PageTypes /\ call[t] \in CallTypes /\ acked \in Acks
      /\ call[t].form \in SUBSET Changes /\ call[t].chapter \in Chapters \cup {NoChapter}
      /\ call[t].copy \in Documents /\ call[t].status \in Statuses
      /\ made \subseteq Chapters
  BY PageParts, CallParts, CallShape DEF TypeOK, Acks
<1>1. CASE BookSaved(t)
  <2> DEFINE p == [page[t] EXCEPT !.status = call[t].copy.status, !.base = call[t].form]
             b == [acked EXCEPT !.info = @ \cup call[t].form]
  <2>1. Told(t) /\ call[t].kind = "save" /\ call[t].pc = "written"
    BY <1>1, FinishTells DEF BookSaved
  <2>2. call[t].copy.status \in Statuses
    BY <1>0, DocumentShape
  <2>3. ~Quiet(t) /\ call[t].kind \in {"save", "status", "edit"}
    BY <2>1 DEF Quiet
  <2>4. PageGood(p)
    BY <2>1, <2>2, <2>3, PageAnswered DEF PageGood
  <2>5. /\ b \in Acks /\ b.info = acked.info \cup call[t].form
        /\ b.text = acked.text /\ b.published = acked.published
    BY <1>0, AckInfo
  <2>6. page' = [page EXCEPT ![t] = p] /\ acked' = b
    BY <1>1 DEF BookSaved
  <2> HIDE DEF p, b
  <2> QED
    BY <2>1, <2>4, <2>5, <2>6 DEF Ends, Told, PageGood, Acks
<1>2. CASE StatusChanged(t)
  <2> DEFINE p == [page[t] EXCEPT !.status = call[t].status]
  <2>1. Told(t) /\ call[t].kind = "status" /\ call[t].pc = "written"
    BY <1>2, FinishTells DEF StatusChanged
  <2>3. ~Quiet(t) /\ call[t].kind \in {"save", "status", "edit"}
    BY <2>1 DEF Quiet
  <2>4. PageGood(p)
    BY <1>0, <2>1, <2>3, PageAnswered DEF PageGood
  <2>6. page' = [page EXCEPT ![t] = p] /\ acked' = acked
    BY <1>2 DEF StatusChanged
  <2> HIDE DEF p
  <2> QED
    BY <2>1, <2>4, <2>6, NewPage
<1>3. CASE ChapterCreated(t)
  <2> DEFINE b == [acked EXCEPT !.text[call[t].chapter] = @ \cup call[t].form]
  <2>1. Told(t) /\ call[t].kind = "create" /\ call[t].pc = "written"
    BY <1>3, FinishTells DEF ChapterCreated
  <2>5. /\ b \in Acks /\ b.info = acked.info /\ b.published = acked.published
        /\ \A d \in Chapters : b.text[d] = IF d = call[t].chapter
                                          THEN acked.text[d] \cup call[t].form ELSE acked.text[d]
    BY <1>0, AckText
  <2>6. page' = page /\ acked' = b
    BY <1>3 DEF ChapterCreated
  <2> HIDE DEF b
  <2> QED
    BY <2>1, <2>5, <2>6 DEF Ends, Told, Acks
<1>4. CASE ChapterSaved(t)
  <2> DEFINE p == [page[t] EXCEPT !.base = call[t].form]
             b == [acked EXCEPT !.text[call[t].chapter] = @ \cup call[t].form]
  <2>1. Told(t) /\ call[t].kind = "edit" /\ call[t].pc = "written"
    BY <1>4, FinishTells DEF ChapterSaved
  <2>3. ~Quiet(t) /\ call[t].kind \in {"save", "status", "edit"}
    BY <2>1 DEF Quiet
  <2>4. PageGood(p)
    BY <1>0, <2>1, <2>3, PageAnswered DEF PageGood
  <2>5. /\ b \in Acks /\ b.info = acked.info /\ b.published = acked.published
        /\ \A d \in Chapters : b.text[d] = IF d = call[t].chapter
                                          THEN acked.text[d] \cup call[t].form ELSE acked.text[d]
    BY <1>0, AckText
  <2>6. page' = [page EXCEPT ![t] = p] /\ acked' = b
    BY <1>4 DEF ChapterSaved
  <2> HIDE DEF p, b
  <2> QED
    BY <2>1, <2>4, <2>5, <2>6 DEF Ends, Told, PageGood, Acks
<1>5. CASE ChapterPublished(t)
  <2> DEFINE c == call[t].chapter
             p == [page[t] EXCEPT !.shown[c] = "PUBLISHED"]
             b == [acked EXCEPT !.published = @ \cup {c}]
  <2>1. Told(t) /\ call[t].kind = "publish" /\ call[t].pc = "written"
    BY <1>5, FinishTells DEF ChapterPublished
  <2>3. c \in made /\ c \in Chapters
    BY <1>0, <2>1 DEF Created
  <2>4. PageGood(p)
    BY <2>3, PageListed DEF PageGood
  <2>5. /\ b \in Acks /\ b.info = acked.info
        /\ b.text = acked.text /\ b.published = acked.published \cup {c}
    BY <1>0, <2>3, AckPublished
  <2>6. page' = [page EXCEPT ![t] = p] /\ acked' = b
    BY <1>0, <1>5 DEF ChapterPublished, TypeOK
  <2> HIDE DEF p, b
  <2> QED
    BY <2>1, <2>4, <2>5, <2>6 DEF Ends, Told, PageGood, Acks
<1>6. CASE ChapterHidden(t)
  <2> DEFINE c == call[t].chapter
             p == [page[t] EXCEPT !.shown[c] = "HIDDEN"]
  <2>1. Told(t) /\ call[t].kind = "hide" /\ call[t].pc = "written"
    BY <1>6, FinishTells DEF ChapterHidden
  <2>3. c \in made /\ c \in Chapters
    BY <1>0, <2>1 DEF Created
  <2>4. PageGood(p)
    BY <2>3, PageListed DEF PageGood
  <2>6. page' = [page EXCEPT ![t] = p] /\ acked' = acked
    BY <1>0, <1>6 DEF ChapterHidden, TypeOK
  <2> HIDE DEF p
  <2> QED
    BY <2>1, <2>4, <2>6, NewPage
<1>7. CASE ChaptersListed(t)
  <2> DEFINE p == [Closed EXCEPT !.at = "chapters", !.shown = call[t].copy.state]
  <2>1. Told(t) /\ call[t].kind = "list" /\ call[t].pc = "written"
    BY <1>7, FinishTells DEF ChaptersListed
  <2>2. call[t].copy.state \in [Chapters -> States]
    BY <1>0, DocumentShape
  <2>3. call[t].copy.state \in [Chapters -> States \cup {"HIDDEN"}]
    BY <2>2
  <2>4. p \in PageTypes /\ p.at = "chapters" /\ p.base = {} /\ p.shown = call[t].copy.state
    BY <2>3, NothingTyped DEF PageTypes, Closed
  <2>5. \A c \in Chapters : p.shown[c] # "none" => c \in made
    BY <1>0, <2>4 DEF Created, There
  <2>7. PageGood(p)
    BY <2>4, <2>5 DEF PageGood
  <2>6. page' = [page EXCEPT ![t] = p] /\ acked' = acked
    BY <1>7 DEF ChaptersListed
  <2> HIDE DEF p
  <2> QED
    BY <2>1, <2>6, <2>7, NewPage
<1> QED
  BY <1>1, <1>2, <1>3, <1>4, <1>5, <1>6, <1>7 DEF Answers

LEMMA OthersEnd ==
  ASSUME TypeOK, NEW k \in Callers,
         \/ k \in Readers /\ (ReaderAnswered(k, "list") \/ ReaderAnswered(k, "review"))
         \/ Refused(k) \/ CallFails(k)
  PROVE  Ends(k)
<1>1. ASSUME NEW kind, ReaderAnswered(k, kind)
      PROVE  Ends(k)
  BY <1>1, FinishTells, SamePage DEF ReaderAnswered
<1>2. CASE Refused(k)
  BY <1>2, SamePage DEF Refused, Told, Quiet, TypeOK
<1>3. CASE CallFails(k)
  <2>1. disturbed \subseteq disturbed' /\ disturbed' \subseteq {"list", "rating"}
    BY <1>3 DEF CallFails, TypeOK
  <2>2. call[k].kind = "review" /\ call[k].pc \in {"stored", "read"} => "rating" \in disturbed'
    BY <1>3 DEF CallFails
  <2>3. Told(k)
    BY <1>3, <2>1, <2>2 DEF CallFails, Told, TypeOK
  <2> QED
    BY <1>3, <2>3, SamePage DEF CallFails
<1> QED
  BY <1>1, <1>2, <1>3

-----------------------------------------------------------------------------
(* What each write does to the document.                                   *)
Moves(k, pc) ==
    /\ k \in Callers /\ call' = [call EXCEPT ![k].pc = pc]
    /\ UNCHANGED <<page, changes, started, faults, acked, disturbed>>

Replaces(k) ==
    /\ Moves(k, "written") /\ call[k].kind \in Whole /\ call[k].pc = "read"
    /\ UNCHANGED <<number, made, reviews>>
    /\ book' \in Documents
    /\ book'.state = call[k].copy.state /\ book'.text = call[k].copy.text
    /\ book'.total = call[k].copy.total /\ book'.rating = call[k].copy.rating
    /\ over' \in [info : BOOLEAN, chapters : SUBSET Chapters]
    /\ over.chapters \subseteq over'.chapters
    /\ ~over'.info => ~over.info /\ book.info \subseteq book'.info
                      /\ (call[k].kind = "save" => call[k].form \subseteq book'.info)
    /\ \A c \in Chapters \ over'.chapters :
          book'.state[c] = book.state[c] /\ book'.text[c] = book.text[c]

Adds(k, c) ==
    /\ k \in Callers /\ call' = [call EXCEPT ![k] = [call[k] EXCEPT !.pc = "written", !.chapter = c]]
    /\ UNCHANGED <<reviews, page, changes, started, faults, acked, over, disturbed>>
    /\ call[k].pc = "read" /\ call[k].kind = "create" /\ c \in Chapters /\ c \notin made
    /\ made' = made \cup {c} /\ number' = [number EXCEPT ![c] = call[k].number]
    /\ book' \in Documents
    /\ book'.info = book.info /\ book'.rating = book.rating /\ book'.total = book.total + 1
    /\ book'.state[c] = "DRAFT" /\ book'.text[c] = call[k].form
    /\ \A d \in Chapters : d # c => book'.state[d] = book.state[d] /\ book'.text[d] = book.text[d]

Rewrites(k, pc) ==
    /\ Moves(k, pc) /\ call[k].pc = "read" /\ UNCHANGED <<number, made, reviews>>
    /\ \/ call[k].kind = "edit" /\ pc = "written"
       \/ call[k].kind = "publish" /\ pc = "replaced"
    /\ book' \in Documents
    /\ book'.info = book.info /\ book'.rating = book.rating /\ book'.total = book.total
    /\ over' \in [info : BOOLEAN, chapters : SUBSET Chapters]
    /\ over'.info = over.info /\ over.chapters \subseteq over'.chapters
    /\ \A d \in Chapters : (book'.state[d] = "none") = (book.state[d] = "none")
    /\ \A d \in Chapters : d # call[k].chapter =>
          book'.state[d] = book.state[d] /\ book'.text[d] = book.text[d]
    /\ call[k].chapter \in There(book) \ over'.chapters =>
          LET c == call[k].chapter IN
          /\ book.text[c] \subseteq book'.text[c]
          /\ call[k].kind = "edit" => call[k].form \subseteq book'.text[c]
                                     /\ book'.state[c] = book.state[c]
          /\ call[k].kind = "publish" => book'.state[c] = "PUBLISHED"

Removes(k, c) ==
    /\ Moves(k, "written") /\ call[k].pc = "read" /\ call[k].kind = "hide"
    /\ UNCHANGED <<number, made, reviews, over>>
    /\ c = call[k].chapter /\ c \in Chapters
    /\ book' \in Documents
    /\ book'.info = book.info /\ book'.rating = book.rating /\ book'.total = book.total - 1
    /\ book'.state[c] = "none"
    /\ \A d \in Chapters : d # c => book'.state[d] = book.state[d] /\ book'.text[d] = book.text[d]

(* The status or the rating alone.                                         *)
Sets(k) ==
    /\ Moves(k, "written")
    /\ UNCHANGED <<number, made, reviews, over>>
    /\ book' \in Documents /\ book'.info = book.info /\ book'.total = book.total
    /\ book'.state = book.state /\ book'.text = book.text
    /\ \/ /\ call[k].kind = "publish" /\ call[k].pc = "replaced" /\ book'.rating = book.rating
       \/ /\ call[k].kind = "list" /\ call[k].pc = "read" /\ book'.rating = book.rating
       \/ /\ call[k].kind = "review" /\ call[k].pc = "read" /\ book'.rating = call[k].seen
          /\ k \in Readers

LEMMA StepMoves ==
  ASSUME TypeOK, NEW k \in Callers, NEW kinds, NEW from,
         NEW to \in {"written", "replaced"}, Step(k, kinds, from, to), Held, UNCHANGED disturbed
  PROVE  /\ Moves(k, to) /\ call[k].pc = from /\ call[k].kind \in kinds
         /\ UNCHANGED <<number, made>>
BY DEF Step, Held, Moves

LEMMA OverShape ==
  ASSUME TypeOK, NEW info \in BOOLEAN, NEW cs \in SUBSET Chapters, Overwrite(info, cs)
  PROVE  /\ over' \in [info : BOOLEAN, chapters : SUBSET Chapters]
         /\ over'.info = (over.info \/ info) /\ over'.chapters = over.chapters \cup cs
BY DEF Overwrite, TypeOK

LEMMA WholeReplaces ==
  ASSUME TypeOK, FormsGrow, NEW k \in Callers, ReplaceInfo(k) \/ ReplaceStatus(k)
  PROVE  Replaces(k)
<1>0. /\ call[k] \in CallTypes /\ call[k].copy \in Documents /\ call[k].form \in SUBSET Changes
      /\ call[k].status \in Statuses /\ Differ(call[k].copy) \in SUBSET Chapters
  BY CallParts, CallShape DEF Differ
<1>1. \A c \in Chapters : c \notin Differ(call[k].copy) =>
        call[k].copy.state[c] = book.state[c] /\ call[k].copy.text[c] = book.text[c]
  BY DEF Differ
<1>2. CASE ReplaceInfo(k)
  <2> DEFINE d == [call[k].copy EXCEPT !.info = call[k].form]
  <2>1. d \in Documents /\ d.info = call[k].form /\ d.state = call[k].copy.state
        /\ d.text = call[k].copy.text /\ d.total = call[k].copy.total
        /\ d.rating = call[k].copy.rating
    BY <1>0 DEF Documents
  <2>2. book' = d
    BY <1>2 DEF ReplaceInfo
  <2>3. Moves(k, "written") /\ call[k].pc = "read" /\ call[k].kind = "save"
        /\ UNCHANGED <<number, made, reviews>>
    BY <1>2, StepMoves DEF ReplaceInfo
  <2>4. /\ over' \in [info : BOOLEAN, chapters : SUBSET Chapters]
        /\ over'.info = (over.info \/ call[k].base # book.info)
        /\ over'.chapters = over.chapters \cup Differ(call[k].copy)
    BY <1>0, <1>2, OverShape DEF ReplaceInfo
  <2>5. call[k].base \subseteq call[k].form
    BY <2>3 DEF FormsGrow
  <2> HIDE DEF d
  <2> QED
    BY <1>1, <2>1, <2>2, <2>3, <2>4, <2>5 DEF Replaces, Whole
<1>3. CASE ReplaceStatus(k)
  <2> DEFINE d == [call[k].copy EXCEPT !.status = call[k].status]
  <2>1. d \in Documents /\ d.info = call[k].copy.info /\ d.state = call[k].copy.state
        /\ d.text = call[k].copy.text /\ d.total = call[k].copy.total
        /\ d.rating = call[k].copy.rating
    BY <1>0 DEF Documents
  <2>2. book' = d
    BY <1>3 DEF ReplaceStatus
  <2>3. Moves(k, "written") /\ call[k].pc = "read" /\ call[k].kind = "status"
        /\ UNCHANGED <<number, made, reviews>>
    BY <1>3, StepMoves DEF ReplaceStatus
  <2>4. /\ over' \in [info : BOOLEAN, chapters : SUBSET Chapters]
        /\ over'.info = (over.info \/ call[k].copy.info # book.info)
        /\ over'.chapters = over.chapters \cup Differ(call[k].copy)
    BY <1>0, <1>3, OverShape DEF ReplaceStatus
  <2> HIDE DEF d
  <2> QED
    BY <1>1, <2>1, <2>2, <2>3, <2>4 DEF Replaces, Whole
<1> QED
  BY <1>2, <1>3

(* A document with one chapter changed.                                    *)
Changed(e, d, c, s, x, n) ==
    /\ e \in Documents /\ e.info = d.info /\ e.rating = d.rating /\ e.total = n
    /\ e.state[c] = s /\ e.text[c] = x
    /\ \A b \in Chapters : b # c => e.state[b] = d.state[b] /\ e.text[b] = d.text[b]

LEMMA OneChapter ==
  ASSUME NEW d \in Documents, NEW c \in Chapters, NEW s \in States, NEW x \in SUBSET Changes,
         NEW n \in Int
  PROVE  Changed([d EXCEPT !.state[c] = s, !.text[c] = x, !.total = n], d, c, s, x, n)
<1>1. d.state \in [Chapters -> States] /\ d.text \in [Chapters -> SUBSET Changes]
  BY DocumentShape
<1>2. /\ [d.state EXCEPT ![c] = s] \in [Chapters -> States]
      /\ [d.text EXCEPT ![c] = x] \in [Chapters -> SUBSET Changes]
  BY <1>1
<1>3. /\ [d.state EXCEPT ![c] = s][c] = s /\ [d.text EXCEPT ![c] = x][c] = x
      /\ \A b \in Chapters : b # c => /\ [d.state EXCEPT ![c] = s][b] = d.state[b]
                                      /\ [d.text EXCEPT ![c] = x][b] = d.text[b]
  BY <1>1
<1> QED
  BY <1>2, <1>3 DEF Documents, Changed

LEMMA ChapterAdds ==
  ASSUME TypeOK, NEW k \in Callers, NEW c \in Chapters, AddChapter(k, c)
  PROVE  Adds(k, c)
<1> DEFINE e == [book EXCEPT !.state[c] = "DRAFT", !.text[c] = call[k].form,
                             !.total = book.total + 1]
<1>0. call[k] \in CallTypes /\ book \in Documents /\ book.total \in Int
  BY CallParts, DocumentShape DEF TypeOK
<1>4. call[k].form \in SUBSET Changes
  BY <1>0, CallShape
<1>1. call[k].form \in SUBSET Changes /\ "DRAFT" \in States /\ book.total + 1 \in Int
  BY <1>0, <1>4 DEF States
<1>2. Changed(e, book, c, "DRAFT", call[k].form, book.total + 1)
  BY <1>0, <1>1, OneChapter, Zenon
<1>3. book' = e
  BY <1>1 DEF AddChapter
<1> HIDE DEF e
<1> QED
  BY <1>2, <1>3 DEF AddChapter, Adds, Changed

LEMMA ChapterRemoves ==
  ASSUME TypeOK, Created, NEW k \in Callers, RemoveChapter(k)
  PROVE  Removes(k, call[k].chapter)
<1> DEFINE c == call[k].chapter
           e == [book EXCEPT !.state[c] = "none", !.text[c] = {}, !.total = book.total - 1]
<1>0. Moves(k, "written") /\ call[k].pc = "read" /\ call[k].kind = "hide"
      /\ UNCHANGED <<number, made, reviews, over>>
  BY StepMoves DEF RemoveChapter
<1>1. /\ book \in Documents /\ "none" \in States /\ book.total - 1 \in Int /\ c \in Chapters
      /\ {} \in SUBSET Changes
  BY <1>0, DocumentShape DEF TypeOK, States, Created
<1>2. Changed(e, book, c, "none", {}, book.total - 1)
  BY <1>1, OneChapter, Zenon
<1>3. book' = e
  BY <1>1 DEF RemoveChapter
<1> HIDE DEF e
<1> QED
  BY <1>0, <1>1, <1>2, <1>3 DEF Removes, Changed

Fits(k, kind, s, x) ==
    /\ book.text[call[k].chapter] \subseteq x
    /\ kind = "edit" => x = call[k].form /\ s = book.state[call[k].chapter]
    /\ kind = "publish" => s = "PUBLISHED"

LEMMA ChapterRewrites ==
  ASSUME TypeOK, Created, FormsGrow, NEW k \in Callers, NEW kind, NEW to, NEW s \in States,
         s # "none", NEW x \in SUBSET Changes, NEW unseen \in BOOLEAN,
         ReplaceChapter(k, kind, to, s, x, unseen),
         \/ kind = "edit" /\ to = "written"
         \/ kind = "publish" /\ to = "replaced",
         ~unseen => Fits(k, kind, s, x)
  PROVE  Rewrites(k, to)
<1> DEFINE c == call[k].chapter
           e == [book EXCEPT !.state[c] = s, !.text[c] = x, !.total = book.total]
<1>0. Moves(k, to) /\ call[k].pc = "read" /\ call[k].kind = kind
      /\ UNCHANGED <<number, made, reviews>>
  BY StepMoves DEF ReplaceChapter
<1>1. book \in Documents /\ over \in [info : BOOLEAN, chapters : SUBSET Chapters]
  BY DEF TypeOK
<1>2. CASE c \notin There(book)
  <2>1. book' = book /\ over' = over
    BY <1>2 DEF ReplaceChapter
  <2> QED
    BY <1>0, <1>1, <1>2, <2>1 DEF Rewrites
<1>3. CASE c \in There(book)
  <2>1. c \in Chapters /\ book.state[c] # "none" /\ book.total \in Int
    BY <1>1, <1>3, DocumentShape DEF There
  <2>2. /\ e \in Documents /\ e.info = book.info /\ e.rating = book.rating
        /\ e.total = book.total /\ e.state[c] = s /\ e.text[c] = x
        /\ \A b \in Chapters : b # c => e.state[b] = book.state[b] /\ e.text[b] = book.text[b]
    <3>1. Changed(e, book, c, s, x, book.total)
      BY <1>1, <2>1, OneChapter, Zenon
    <3> HIDE DEF e
    <3> QED
      BY <3>1 DEF Changed
  <2>3. book' = [book EXCEPT !.state[c] = s, !.text[c] = x]
    BY <1>3 DEF ReplaceChapter
  <2>4. book' = e
    BY <1>1, <2>3 DEF Documents
  <2>5. /\ over' \in [info : BOOLEAN, chapters : SUBSET Chapters]
        /\ over'.info = over.info
        /\ over'.chapters = over.chapters \cup (IF unseen THEN {c} ELSE {})
    <3>1. Overwrite(FALSE, IF unseen THEN {c} ELSE {})
      BY <1>3 DEF ReplaceChapter
    <3>2. (IF unseen THEN {c} ELSE {}) \in SUBSET Chapters
      BY <2>1
    <3> HIDE DEF c
    <3> QED
      BY <1>1, <3>1, <3>2, OverShape DEF TypeOK
  <2> HIDE DEF e
  <2>6. c \in There(book) \ over'.chapters => ~unseen
    BY <2>5
  <2>7. \A d \in Chapters : (book'.state[d] = "none") = (book.state[d] = "none")
    BY <2>1, <2>2, <2>4
  <2>8. c \in There(book) \ over'.chapters =>
          /\ book.text[c] \subseteq book'.text[c]
          /\ kind = "edit" => call[k].form \subseteq book'.text[c] /\ book'.state[c] = book.state[c]
          /\ kind = "publish" => book'.state[c] = "PUBLISHED"
    BY <2>2, <2>4, <2>6 DEF Fits
  <2>9. book' \in Documents /\ book'.info = book.info /\ book'.rating = book.rating
        /\ book'.total = book.total
        /\ \A d \in Chapters : d # c => book'.state[d] = book.state[d] /\ book'.text[d] = book.text[d]
    BY <2>2, <2>4
  <2> QED
    BY <1>0, <2>5, <2>7, <2>8, <2>9 DEF Rewrites
<1> QED
  BY <1>2, <1>3

LEMMA ChaptersRewrite ==
  ASSUME TypeOK, Created, FormsGrow, NEW k \in Callers, EditChapter(k) \/ PublishChapter(k)
  PROVE  \E pc : Rewrites(k, pc)
<1> DEFINE c == call[k].chapter
<1>0. /\ call[k] \in CallTypes /\ call[k].copy \in Documents /\ call[k].form \in SUBSET Changes
      /\ made \subseteq Chapters
  BY CallParts, CallShape DEF TypeOK
<1>1. CASE EditChapter(k)
  <2> DEFINE unseen == call[k].base # book.text[c] \/ call[k].copy.state[c] # book.state[c]
  <2>1. call[k].kind = "edit" /\ call[k].pc = "read"
    BY <1>1 DEF EditChapter, ReplaceChapter, Step
  <2>2. c \in There(call[k].copy)
    BY <2>1 DEF Created
  <2>3. call[k].copy.state[c] \in States /\ call[k].copy.state[c] # "none"
    BY <1>0, <2>2, DocumentShape DEF There
  <2>4. call[k].base \subseteq call[k].form
    BY <2>1 DEF FormsGrow
  <2>5. ReplaceChapter(k, "edit", "written", call[k].copy.state[c], call[k].form, unseen)
    BY <1>1 DEF EditChapter
  <2>6. unseen \in BOOLEAN /\ (~unseen => book.text[c] \subseteq call[k].form
                                        /\ call[k].copy.state[c] = book.state[c])
    BY <2>4
  <2> HIDE DEF unseen
  <2>7. Rewrites(k, "written")
    <3> DEFINE s == call[k].copy.state[c]
               x == call[k].form
    <3>1. ~unseen => Fits(k, "edit", s, x)
      BY <2>6 DEF Fits
    <3>2. s \in States /\ s # "none" /\ x \in SUBSET Changes /\ unseen \in BOOLEAN
      BY <1>0, <2>3, <2>6
    <3>3. ReplaceChapter(k, "edit", "written", s, x, unseen)
      BY <2>5
    <3> HIDE DEF s, x
    <3> QED
      BY <3>1, <3>2, <3>3, ChapterRewrites
  <2> QED
    BY <2>7
<1>2. CASE PublishChapter(k)
  <2> DEFINE unseen == c \in Differ(call[k].copy)
  <2>1. call[k].kind = "publish" /\ call[k].pc = "read"
    BY <1>2 DEF PublishChapter, ReplaceChapter, Step
  <2>2. c \in Chapters
    BY <1>0, <2>1 DEF Created
  <2>3. call[k].copy.text[c] \in SUBSET Changes /\ "PUBLISHED" \in States /\ "PUBLISHED" # "none"
    BY <1>0, <2>2, DocumentShape DEF States
  <2>5. ReplaceChapter(k, "publish", "replaced", "PUBLISHED", call[k].copy.text[c], unseen)
    BY <1>2 DEF PublishChapter
  <2>6. unseen \in BOOLEAN /\ (~unseen => book.text[c] \subseteq call[k].copy.text[c])
    BY <2>2 DEF Differ
  <2> HIDE DEF unseen
  <2>7. Rewrites(k, "replaced")
    <3>1. ~unseen => Fits(k, "publish", "PUBLISHED", call[k].copy.text[c])
      BY <2>6 DEF Fits
    <3> QED
      BY <1>0, <2>3, <2>5, <2>6, <3>1, ChapterRewrites
  <2> QED
    BY <2>7
<1> QED
  BY <1>1, <1>2

LEMMA PartsSet ==
  ASSUME TypeOK, NEW k \in Callers,
         PublishBook(k) \/ RepairStatus(k) \/ (k \in Readers /\ WriteRating(k))
  PROVE  Sets(k)
<1>0. book \in Documents /\ call[k] \in CallTypes /\ call[k].seen \in [Readers -> Stars]
  BY CallParts, CallShape DEF TypeOK
<1>1. /\ [book EXCEPT !.status = "PUBLISHED"] \in Documents
      /\ [book EXCEPT !.status = "PUBLISHED"].info = book.info
      /\ [book EXCEPT !.status = "PUBLISHED"].total = book.total
      /\ [book EXCEPT !.status = "PUBLISHED"].state = book.state
      /\ [book EXCEPT !.status = "PUBLISHED"].text = book.text
      /\ [book EXCEPT !.status = "PUBLISHED"].rating = book.rating
  BY <1>0 DEF Documents, Statuses
<1>2. ASSUME NEW kind, NEW from, NEW repair, SetStatus(k, kind, from, repair),
             \/ kind = "publish" /\ from = "replaced"
             \/ kind = "list" /\ from = "read"
      PROVE  Sets(k)
  <2>1. Moves(k, "written") /\ call[k].pc = from /\ call[k].kind = kind
        /\ UNCHANGED <<number, made, reviews, over>>
    BY <1>2, StepMoves DEF SetStatus
  <2>2. book' = [book EXCEPT !.status = "PUBLISHED"] \/ book' = book
    BY <1>2 DEF SetStatus
  <2>3. /\ book' \in Documents /\ book'.info = book.info /\ book'.total = book.total
        /\ book'.state = book.state /\ book'.text = book.text /\ book'.rating = book.rating
    BY <1>0, <1>1, <2>2
  <2> QED
    BY <1>2, <2>1, <2>3 DEF Sets
<1>3. CASE k \in Readers /\ WriteRating(k)
  <2>1. Moves(k, "written") /\ call[k].pc = "read" /\ call[k].kind = "review"
        /\ UNCHANGED <<number, made, reviews, over>>
    BY <1>3, StepMoves DEF WriteRating
  <2>2. /\ book' \in Documents /\ book'.info = book.info /\ book'.total = book.total
        /\ book'.state = book.state /\ book'.text = book.text /\ book'.rating = call[k].seen
    BY <1>0, <1>3 DEF WriteRating, Documents
  <2> QED
    BY <1>3, <2>1, <2>2 DEF Sets
<1>4. CASE PublishBook(k)
  <2> DEFINE repair == TRUE
  <2>1. SetStatus(k, "publish", "replaced", repair)
    BY <1>4 DEF PublishBook
  <2> HIDE DEF repair
  <2> QED
    BY <1>2, <2>1
<1>5. CASE RepairStatus(k)
  <2> DEFINE repair == \E c \in Chapters : call[k].copy.state[c] = "PUBLISHED"
  <2>1. SetStatus(k, "list", "read", repair)
    BY <1>5 DEF RepairStatus
  <2> HIDE DEF repair
  <2> QED
    BY <1>2, <2>1
<1> QED
  BY <1>3, <1>4, <1>5

(* A review is stored, and the reviews are listed.                         *)
Stores(k) ==
    /\ k \in Readers /\ call[k].pc = "sent" /\ call[k].kind = "review"
    /\ call' = [call EXCEPT ![k].pc = "stored"]
    /\ reviews' \in [Readers -> Stars]
    /\ Held /\ UNCHANGED <<book, over, disturbed>>

Sees(k, q) ==
    /\ k \in Readers /\ call[k].pc = "stored" /\ call[k].kind = "review"
    /\ call' = [call EXCEPT ![k] = q]
    /\ Learnt(call[k], q, "read") /\ q.copy = call[k].copy /\ q.seen = reviews
    /\ Held /\ UNCHANGED <<book, reviews, over, disturbed>>

LEMMA ReviewsSeen ==
  ASSUME TypeOK, NEW k \in Readers, ReadReviews(k)
  PROVE  \E q : Sees(k, q)
<1> DEFINE q == [call[k] EXCEPT !.pc = "read", !.seen = reviews]
<1>1. call[k] \in CallTypes /\ reviews \in [Readers -> Stars]
  BY CallParts, StaffCall DEF TypeOK
<1>2. Learnt(call[k], q, "read") /\ q.copy = call[k].copy /\ q.seen = reviews
  BY <1>1 DEF CallTypes, Learnt
<1>3. call' = [call EXCEPT ![k] = q]
  BY DEF ReadReviews
<1> HIDE DEF q
<1>4. Sees(k, q)
  BY <1>2, <1>3 DEF ReadReviews, Sees
<1> QED
  BY <1>4

Classes ==
    \/ \E t, p : Looks(t, p)
    \/ \E k, q : Sends(k, q) \/ Learns(k, q) \/ Sees(k, q)
    \/ \E k : Stores(k) \/ Ends(k) \/ Replaces(k) \/ Sets(k)
    \/ \E k, pc : Rewrites(k, pc)
    \/ \E k, c : Adds(k, c) \/ Removes(k, c)

LEMMA NextClasses ==
  ASSUME TypeOK, FormsGrow, Created, Next
  PROVE  Classes
<1> USE StaffCall
<1>1. ASSUME NEW t \in Staff, StaffActs(t)
      PROVE  Classes
  <2>1. \/ OpenBook(t) \/ \E c \in Chapters : OpenChapter(t, c)
        \/ Close(t) \/ ImageUploaded(t) \/ UploadFails(t)
        \/ \E e \in Changes : TypeBook(t, e) \/ TypeChapter(t, e) \/ ChooseImage(t, e)
        \/ SubmitBook(t) \/ ArchiveBook(t) \/ SubmitChapter(t) \/ OpenChapters(t)
        \/ \E s \in {"DRAFT", "PUBLISHED"} : ChangeStatus(t, s)
        \/ \E c \in Chapters : TogglePublish(t, c)
        \/ \E n \in Numbers : \E text \in {{}, {Opening}} : SubmitNewChapter(t, n, text)
    BY <1>1, Zenon DEF StaffActs
  <2>2. (\E p : Looks(t, p)) \/ (\E q : Sends(t, q))
    BY <2>1, OpeningLooks, EditingLooks, SubmittingSends, ChapterSends, Zenon
  <2> QED
    BY <2>2, Zenon DEF Classes
<1>2. ASSUME NEW t \in Staff, Answers(t)
      PROVE  Classes
  <2>1. Ends(t)
    BY <1>2, AnswersEnd
  <2> QED
    BY <2>1, Zenon DEF Classes
<1>3. ASSUME NEW r \in Readers, ReaderActs(r)
      PROVE  Classes
  <2> r \in Callers
    OBVIOUS
  <2>1. CASE LookAtBook(r) \/ Review(r)
    BY <2>1, ReaderSends, Zenon DEF Classes
  <2>2. CASE ReadReviews(r)
    BY <2>2, ReviewsSeen, Zenon DEF Classes
  <2>3. CASE WriteRating(r)
    BY <2>3, PartsSet, Zenon DEF Classes
  <2>4. ASSUME NEW v \in Stars, StoreReview(r, v)
        PROVE  Classes
    <3>1. Stores(r)
      BY <2>4 DEF StoreReview, Step, Stores, TypeOK
    <3> QED
      BY <3>1, Zenon DEF Classes
  <2>5. CASE ReaderAnswered(r, "list") \/ ReaderAnswered(r, "review")
    BY <2>5, OthersEnd, Zenon DEF Classes
  <2> QED
    BY <1>3, <2>1, <2>2, <2>3, <2>4, <2>5 DEF ReaderActs
<1>4. ASSUME NEW k \in Callers, Writes(k)
      PROVE  Classes
  <2>1. CASE ReplaceInfo(k) \/ ReplaceStatus(k)
    BY <2>1, WholeReplaces, Zenon DEF Classes
  <2>2. CASE EditChapter(k) \/ PublishChapter(k)
    BY <2>2, ChaptersRewrite, Zenon DEF Classes
  <2>3. CASE PublishBook(k) \/ RepairStatus(k)
    BY <2>3, PartsSet, Zenon DEF Classes
  <2>4. CASE RemoveChapter(k)
    BY <2>4, ChapterRemoves, Zenon DEF Classes
  <2>5. ASSUME NEW c \in Chapters, AddChapter(k, c)
        PROVE  Classes
    BY <2>5, ChapterAdds, Zenon DEF Classes
  <2> QED
    BY <1>4, <2>1, <2>2, <2>3, <2>4, <2>5 DEF Writes
<1>5. ASSUME NEW k \in Callers, Reads(k) \/ Refused(k) \/ CallFails(k)
      PROVE  Classes
  BY <1>5, ReadsLearn, OthersEnd, Zenon DEF Classes
<1> QED
  BY <1>1, <1>2, <1>3, <1>4, <1>5 DEF Next

-----------------------------------------------------------------------------
(* What a step makes of the requests.                                      *)
LEMMA Called ==
  ASSUME TypeOK, NEW k \in Callers, NEW q \in CallTypes, call' = [call EXCEPT ![k] = q]
  PROVE  /\ call' \in [Callers -> CallTypes] /\ call'[k] = q
         /\ \A j \in Callers : j # k => call'[j] = call[j]
BY DEF TypeOK

(* The request of k goes on, the same but for its line.                    *)
Moved(k, pc) ==
    /\ call' \in [Callers -> CallTypes]
    /\ \A j \in Callers : j # k => call'[j] = call[j]
    /\ call'[k].pc = pc /\ call'[k].kind = call[k].kind /\ call'[k].chapter = call[k].chapter
    /\ call'[k].number = call[k].number /\ call'[k].base = call[k].base
    /\ call'[k].form = call[k].form /\ call'[k].copy = call[k].copy
    /\ call'[k].seen = call[k].seen

LEMMA PcMoved ==
  ASSUME TypeOK, NEW k \in Callers,
         NEW pc \in {"stored", "replaced", "written"}, call' = [call EXCEPT ![k].pc = pc]
  PROVE  Moved(k, pc)
<1> DEFINE q == [call[k] EXCEPT !.pc = pc]
<1>1. call[k] \in CallTypes
  BY CallParts
<1>2. /\ q \in CallTypes /\ q.pc = pc /\ q.kind = call[k].kind /\ q.chapter = call[k].chapter
      /\ q.number = call[k].number /\ q.base = call[k].base
      /\ q.form = call[k].form /\ q.copy = call[k].copy /\ q.seen = call[k].seen
  BY <1>1 DEF CallTypes
<1>3. call' = [call EXCEPT ![k] = q]
  OBVIOUS
<1> HIDE DEF q
<1> QED
  BY <1>2, <1>3, Called DEF Moved

LEMMA MovesCall ==
  ASSUME TypeOK, NEW k, NEW pc \in {"replaced", "written"}, Moves(k, pc)
  PROVE  k \in Callers /\ Moved(k, pc)
         /\ UNCHANGED <<page, changes, started, faults, acked, disturbed>>
BY PcMoved DEF Moves

LEMMA StoresCall ==
  ASSUME TypeOK, NEW k, Stores(k)
  PROVE  k \in Callers /\ Moved(k, "stored")
BY PcMoved, StaffCall DEF Stores

(* The request of k becomes q, and the others stay.                        *)
Becomes(k, q) ==
    /\ k \in Callers /\ q \in CallTypes
    /\ call' \in [Callers -> CallTypes] /\ call'[k] = q
    /\ \A j \in Callers : j # k => call'[j] = call[j]

LEMMA Become ==
  ASSUME TypeOK, NEW k, NEW q
  PROVE  /\ Sends(k, q) => Becomes(k, q)
         /\ Learns(k, q) => Becomes(k, q)
         /\ Sees(k, q) => Becomes(k, q)
         /\ Ends(k) => Becomes(k, NoCall)
<1>1. Sends(k, q) => Becomes(k, q)
  BY Called DEF Sends, Send, Becomes
<1>2. Learns(k, q) => Becomes(k, q)
  BY Called DEF Learns, Becomes
<1>3. Sees(k, q) => Becomes(k, q)
  BY Called, StaffCall DEF Sees, Learnt, Becomes
<1>4. ASSUME Ends(k) PROVE Becomes(k, NoCall)
  <2>1. k \in Callers /\ call' = [call EXCEPT ![k] = NoCall]
    BY <1>4, Zenon DEF Ends
  <2>2. NoCall \in CallTypes
    BY NothingTyped
  <2> QED
    BY <2>1, <2>2, Called, Zenon DEF Becomes
<1> QED
  BY <1>1, <1>2, <1>3, <1>4

LEMMA AddsCall ==
  ASSUME TypeOK, NEW k, NEW c, Adds(k, c)
  PROVE  /\ Becomes(k, call'[k])
         /\ call'[k].pc = "written" /\ call'[k].kind = "create" /\ call'[k].chapter = c
         /\ call'[k].base = call[k].base /\ call'[k].form = call[k].form
         /\ call'[k].copy = call[k].copy
<1> DEFINE q == [call[k] EXCEPT !.pc = "written", !.chapter = c]
<1>1. k \in Callers /\ call[k] \in CallTypes /\ c \in Chapters
  BY CallParts DEF Adds
<1>2. /\ q \in CallTypes /\ q.pc = "written" /\ q.kind = call[k].kind /\ q.chapter = c
      /\ q.base = call[k].base /\ q.form = call[k].form /\ q.copy = call[k].copy
  BY <1>1 DEF CallTypes
<1>3. call' = [call EXCEPT ![k] = q]
  BY DEF Adds
<1> HIDE DEF q
<1> QED
  BY <1>1, <1>2, <1>3, Called DEF Becomes, Adds

-----------------------------------------------------------------------------
(* Types.                                                                  *)
LEMMA LooksTypes ==
  ASSUME TypeOK, NEW t, NEW p, Looks(t, p)
  PROVE  TypeOK'
BY DEF Looks, Look, TypeOK

LEMMA DisturbsTypes ==
  ASSUME NEW a, NEW b
  PROVE  /\ Disturbs(a, b) \subseteq {"list", "rating"}
         /\ Disturbs(a, b) = Disturbs(b, a)
BY DEF Disturbs

LEMMA SendsTypes ==
  ASSUME TypeOK, NEW k, NEW q, Sends(k, q)
  PROVE  TypeOK'
<1>1. call' \in [Callers -> CallTypes]
  BY Become DEF Becomes
<1>2. disturbed' \subseteq {"list", "rating"}
  <2> DEFINE S == {Disturbs(q.kind, call[j].kind) : j \in {j \in Callers : ~Quiet(j)}}
  <2>1. disturbed' = disturbed \cup UNION S
    BY DEF Sends, Send
  <2>2. \A x \in S : x \subseteq {"list", "rating"}
    BY DisturbsTypes
  <2> HIDE DEF S
  <2> QED
    BY <2>1, <2>2 DEF TypeOK
<1>3. started' \in Nat
  BY DEF Sends, Send, TypeOK
<1> QED
  BY <1>1, <1>2, <1>3 DEF Sends, Send, TypeOK

LEMMA ReadingTypes ==
  ASSUME TypeOK, NEW k, NEW q, Learns(k, q) \/ Sees(k, q)
  PROVE  TypeOK'
<1>1. call' \in [Callers -> CallTypes]
  BY Become DEF Becomes
<1> QED
  BY <1>1 DEF Learns, Sees, Held, TypeOK

LEMMA StoresTypes ==
  ASSUME TypeOK, NEW k, Stores(k)
  PROVE  TypeOK'
<1>1. call' \in [Callers -> CallTypes]
  BY StoresCall DEF Moved
<1> QED
  BY <1>1 DEF Stores, Held, TypeOK

LEMMA EndsTypes ==
  ASSUME TypeOK, NEW k, Ends(k)
  PROVE  TypeOK'
<1>1. call' \in [Callers -> CallTypes]
  BY Become DEF Becomes
<1>2. page' \in [Staff -> PageTypes]
  BY DEF Ends, TypeOK
<1> QED
  BY <1>1, <1>2 DEF Ends, TypeOK

LEMMA WritesTypes ==
  ASSUME TypeOK, NEW k, NEW c,
         \/ Replaces(k) \/ Sets(k) \/ Removes(k, c) \/ Adds(k, c)
         \/ \E pc : Rewrites(k, pc)
  PROVE  TypeOK'
<1>1. CASE Replaces(k) \/ Sets(k) \/ Removes(k, c)
  <2>1. Moves(k, "written") /\ book' \in Documents
        /\ over' \in [info : BOOLEAN, chapters : SUBSET Chapters]
        /\ UNCHANGED <<number, made, reviews>>
    BY <1>1 DEF Replaces, Sets, Removes, TypeOK
  <2> QED
    BY <2>1, MovesCall DEF Moved, TypeOK
<1>2. CASE Adds(k, c)
  <2>1. call[k] \in CallTypes /\ call[k].number \in Numbers \cup {NoNumber}
    BY <1>2, CallParts, CallShape DEF Adds
  <2>2. call' \in [Callers -> CallTypes]
    BY <1>2, AddsCall DEF Becomes
  <2>3. number' \in [Chapters -> Numbers \cup {NoNumber}] /\ made' \subseteq Chapters
    BY <1>2, <2>1 DEF Adds, TypeOK
  <2> QED
    BY <1>2, <2>2, <2>3 DEF Adds, TypeOK
<1>3. ASSUME NEW pc, Rewrites(k, pc)
      PROVE  TypeOK'
  <2>1. Moves(k, pc) /\ pc \in {"replaced", "written"} /\ book' \in Documents
        /\ over' \in [info : BOOLEAN, chapters : SUBSET Chapters]
        /\ UNCHANGED <<number, made, reviews>>
    BY <1>3 DEF Rewrites
  <2>2. call' \in [Callers -> CallTypes]
        /\ UNCHANGED <<page, changes, started, faults, acked, disturbed>>
    BY <2>1, MovesCall DEF Moved
  <2> QED
    BY <2>1, <2>2 DEF TypeOK
<1> QED
  BY <1>1, <1>2, <1>3

LEMMA TypeStep ==
  ASSUME TypeOK, Classes
  PROVE  TypeOK'
BY LooksTypes, SendsTypes, ReadingTypes, StoresTypes, EndsTypes, WritesTypes, Zenon DEF Classes

(* A request between its first and last steps keeps its kind and its form. *)
Goes(k) ==
    /\ k \in Callers /\ call[k].pc # "idle" /\ call'[k].pc # "idle"
    /\ \A j \in Callers : j # k => call'[j] = call[j]
    /\ call'[k].kind = call[k].kind /\ call'[k].base = call[k].base
    /\ call'[k].form = call[k].form
    /\ UNCHANGED <<page, acked, disturbed>>

Goers(k) ==
    \/ \E q : Learns(k, q) \/ Sees(k, q)
    \/ Stores(k) \/ Replaces(k) \/ Sets(k)
    \/ \E pc : Rewrites(k, pc)
    \/ \E c : Adds(k, c) \/ Removes(k, c)

LEMMA Going ==
  ASSUME TypeOK, NEW k, Goers(k)
  PROVE  Goes(k)
<1>1. ASSUME NEW q, Learns(k, q)
      PROVE  Goes(k)
  BY <1>1, Become DEF Becomes, Goes, Learns, Held
<1>2. ASSUME NEW q, Sees(k, q)
      PROVE  Goes(k)
  BY <1>2, Become DEF Becomes, Goes, Sees, Held, Learnt
<1>3. CASE Stores(k)
  BY <1>3, StoresCall DEF Moved, Goes, Stores, Held
<1>4. ASSUME NEW pc \in {"replaced", "written"}, Moves(k, pc), call[k].pc # "idle"
      PROVE  Goes(k)
  BY <1>4, MovesCall DEF Moved, Goes
<1>5. CASE Replaces(k) \/ Sets(k)
  BY <1>4, <1>5 DEF Replaces, Sets
<1>6. ASSUME NEW pc, Rewrites(k, pc)
      PROVE  Goes(k)
  BY <1>4, <1>6 DEF Rewrites
<1>7. ASSUME NEW c, Removes(k, c)
      PROVE  Goes(k)
  BY <1>4, <1>7 DEF Removes
<1>8. ASSUME NEW c, Adds(k, c)
      PROVE  Goes(k)
  BY <1>8, AddsCall DEF Becomes, Goes, Adds
<1> QED
  BY <1>1, <1>2, <1>3, <1>5, <1>6, <1>7, <1>8 DEF Goers

LEMMA Split ==
  ASSUME Classes
  PROVE  \/ \E t, p : Looks(t, p)
         \/ \E k, q : Sends(k, q)
         \/ \E k : Ends(k) \/ Goers(k)
BY Zenon DEF Classes, Goers

-----------------------------------------------------------------------------
(* Forms.                                                                  *)
LEMMA FormsStep ==
  ASSUME TypeOK, FormsGrow, Classes
  PROVE  FormsGrow'
<1> USE StaffCall
<1>1. ASSUME NEW t, NEW p, Looks(t, p)
      PROVE  FormsGrow'
  <2>1. page'[t] = p /\ call' = call /\ \A u \in Staff : u # t => page'[u] = page[u]
    BY <1>1 DEF Looks, Look, TypeOK
  <2> QED
    BY <1>1, <2>1 DEF Looks, FormsGrow, Quiet
<1>2. ASSUME NEW k, NEW q, Sends(k, q)
      PROVE  FormsGrow'
  <2>1. Becomes(k, q) /\ page' = page
    BY <1>2, Become DEF Sends, Send
  <2>2. q.kind \in {"save", "edit"} => k \in Staff /\ q.base = page[k].base /\ q.form = page[k].form
    BY <1>2 DEF Sends
  <2> QED
    BY <2>1, <2>2 DEF Becomes, FormsGrow
<1>3. ASSUME NEW k, Ends(k)
      PROVE  FormsGrow'
  <2>1. Becomes(k, NoCall)
    BY <1>3, Become
  <2>2. NoCall.pc = "idle" /\ NoCall.kind = "list"
    BY NothingTyped
  <2>3. \A t \in Staff : t # k => page'[t] = page[t]
    BY <1>3 DEF Ends, TypeOK
  <2>4. k \in Staff => page'[k].base \subseteq page'[k].form
    BY <1>3 DEF Ends, TypeOK, FormsGrow
  <2> QED
    BY <2>1, <2>2, <2>3, <2>4 DEF Becomes, FormsGrow
<1>4. ASSUME NEW k, Goers(k)
      PROVE  FormsGrow'
  BY <1>4, Going DEF Goes, FormsGrow
<1> QED
  BY <1>1, <1>2, <1>3, <1>4, Split

(* Two calls at once have disturbed each other.                            *)
LEMMA UndisturbedStep ==
  ASSUME TypeOK, Undisturbed, Classes
  PROVE  Undisturbed'
<1>1. ASSUME NEW t, NEW p, Looks(t, p)
      PROVE  Undisturbed'
  BY <1>1 DEF Looks, Look, Undisturbed, Quiet
<1>2. ASSUME NEW k, NEW q, Sends(k, q)
      PROVE  Undisturbed'
  <2>1. Becomes(k, q) /\ disturbed \subseteq disturbed'
    BY <1>2, Become DEF Sends, Send
  <2>2. \A j \in Callers : j # k /\ ~Quiet(j) => Disturbs(q.kind, call[j].kind) \subseteq disturbed'
    BY <1>2 DEF Sends, Send
  <2>3. SUFFICES ASSUME NEW i \in Callers, NEW j \in Callers, i # j,
                        call'[i].pc # "idle", call'[j].pc # "idle"
                 PROVE  Disturbs(call'[i].kind, call'[j].kind) \subseteq disturbed'
    BY DEF Undisturbed, Quiet
  <2>4. CASE i = k
    BY <2>1, <2>2, <2>3, <2>4 DEF Becomes, Quiet
  <2>5. CASE j = k
    <3>1. Disturbs(q.kind, call[i].kind) \subseteq disturbed'
      BY <2>1, <2>2, <2>3, <2>5 DEF Becomes, Quiet
    <3> QED
      BY <2>1, <2>3, <2>5, <3>1, DisturbsTypes DEF Becomes
  <2>6. CASE i # k /\ j # k
    BY <2>1, <2>3, <2>6 DEF Becomes, Undisturbed, Quiet
  <2> QED
    BY <2>4, <2>5, <2>6
<1>3. ASSUME NEW k, Ends(k)
      PROVE  Undisturbed'
  <2>1. Becomes(k, NoCall) /\ NoCall.pc = "idle"
    BY <1>3, Become, NothingTyped
  <2>2. disturbed \subseteq disturbed'
    BY <1>3 DEF Ends
  <2> QED
    BY <2>1, <2>2 DEF Becomes, Undisturbed, Quiet
<1>4. ASSUME NEW k, Goers(k)
      PROVE  Undisturbed'
  BY <1>4, Going DEF Goes, Undisturbed, Quiet
<1> QED
  BY <1>1, <1>2, <1>3, <1>4, Split

-----------------------------------------------------------------------------
(* The information of the book.                                            *)
LEMMA InfoStep ==
  ASSUME TypeOK, InfoKept, InfoWritten, Classes
  PROVE  InfoKept' /\ InfoWritten'
<1>1. ASSUME NEW t, NEW p, Looks(t, p)
      PROVE  InfoKept' /\ InfoWritten'
  BY <1>1 DEF Looks, Look, InfoKept, InfoWritten
<1>2. ASSUME NEW k, NEW q, Sends(k, q)
      PROVE  InfoKept' /\ InfoWritten'
  <2>1. Becomes(k, q) /\ q.pc = "sent" /\ UNCHANGED <<book, over, acked>>
    BY <1>2, Become DEF Sends, Send
  <2> QED
    BY <2>1 DEF Becomes, InfoKept, InfoWritten
<1>3. ASSUME NEW k, Ends(k)
      PROVE  InfoKept' /\ InfoWritten'
  <2>1. Becomes(k, NoCall) /\ NoCall.pc = "idle" /\ UNCHANGED <<book, over>>
    BY <1>3, Become, NothingTyped DEF Ends
  <2>2. \/ acked'.info = acked.info
        \/ /\ call[k].kind = "save" /\ call[k].pc = "written"
           /\ acked'.info = acked.info \cup call[k].form
    BY <1>3 DEF Ends
  <2> QED
    BY <2>1, <2>2 DEF Becomes, InfoKept, InfoWritten
(* A step of a handler that leaves the information as it is.               *)
<1>4. ASSUME NEW k, Goes(k), book'.info = book.info, over'.info = over.info,
             call'[k].kind # "save" \/ call'[k].pc # "written"
      PROVE  InfoKept' /\ InfoWritten'
  BY <1>4 DEF Goes, InfoKept, InfoWritten
<1>5. ASSUME NEW k, Goers(k)
      PROVE  InfoKept' /\ InfoWritten'
  <2>0. Goes(k)
    BY <1>5, Going
  <2>1. ASSUME NEW q, Learns(k, q)
        PROVE  InfoKept' /\ InfoWritten'
    <3>1. call'[k].pc # "written" /\ UNCHANGED <<book, over>>
      BY <2>1, Become DEF Becomes, Learns
    <3> QED
      BY <1>4, <2>0, <3>1
  <2>2. ASSUME NEW q, Sees(k, q)
        PROVE  InfoKept' /\ InfoWritten'
    <3>1. call'[k].pc # "written" /\ UNCHANGED <<book, over>>
      BY <2>2, Become DEF Becomes, Sees, Learnt
    <3> QED
      BY <1>4, <2>0, <3>1
  <2>3. CASE Stores(k)
    <3>1. call'[k].pc # "written" /\ UNCHANGED <<book, over>>
      BY <2>3, StoresCall DEF Moved, Stores
    <3> QED
      BY <1>4, <2>0, <3>1
  <2>4. CASE Sets(k)
    BY <1>4, <2>0, <2>4 DEF Sets, Goes
  <2>5. ASSUME NEW pc, Rewrites(k, pc)
        PROVE  InfoKept' /\ InfoWritten'
    BY <1>4, <2>0, <2>5 DEF Rewrites, Goes
  <2>6. ASSUME NEW c, Removes(k, c)
        PROVE  InfoKept' /\ InfoWritten'
    BY <1>4, <2>0, <2>6 DEF Removes, Goes
  <2>7. ASSUME NEW c, Adds(k, c)
        PROVE  InfoKept' /\ InfoWritten'
    BY <1>4, <2>0, <2>7 DEF Adds, Goes
  <2>8. CASE Replaces(k)
    <3>1. ~over'.info => ~over.info /\ book.info \subseteq book'.info
                         /\ (call[k].kind = "save" => call[k].form \subseteq book'.info)
      BY <2>8 DEF Replaces
    <3> QED
      BY <2>0, <3>1 DEF Goes, InfoKept, InfoWritten
  <2> QED
    BY <1>5, <2>1, <2>2, <2>3, <2>4, <2>5, <2>6, <2>7, <2>8 DEF Goers
<1> QED
  BY <1>1, <1>2, <1>3, <1>5, Split

-----------------------------------------------------------------------------
(* The chapters.                                                           *)
LEMMA CreatedStep ==
  ASSUME TypeOK, Created, Classes
  PROVE  Created'
<1> USE NothingTyped
<1>0. There(book) \subseteq made /\ made \subseteq Chapters /\ NoChapter \notin Chapters
  BY DEF Created, TypeOK
<1>1. ASSUME NEW t, NEW p, Looks(t, p)
      PROVE  Created'
  <2>1. page'[t] = p /\ \A u \in Staff : u # t => page'[u] = page[u]
    BY <1>1 DEF Looks, TypeOK
  <2>2. UNCHANGED <<book, made, acked, call>>
    BY <1>1 DEF Looks, Look
  <2>3. /\ p.at = "chapter" => p.chapter \in made
        /\ \A c \in Chapters : p.shown[c] # "none" => c \in made
    BY <1>1 DEF Looks
  <2> QED
    BY <2>1, <2>2, <2>3 DEF Created, There
<1>2. ASSUME NEW k, NEW q, Sends(k, q)
      PROVE  Created'
  <2>1. Becomes(k, q) /\ UNCHANGED <<book, made, acked, page>>
    BY <1>2, Become DEF Sends, Send
  <2>2. /\ There(q.copy) = {} /\ q.pc = "sent" /\ q.chapter \in made \cup {NoChapter}
        /\ q.kind \in {"edit", "publish", "hide"} => q.chapter \in made
    BY <1>2 DEF Sends
  <2> QED
    BY <2>1, <2>2 DEF Becomes, Created, There
<1>3. ASSUME NEW k, Ends(k)
      PROVE  Created'
  <2>1. Becomes(k, NoCall) /\ UNCHANGED <<book, made>>
    BY <1>3, Become DEF Ends
  <2>2. acked'.published \subseteq made
    BY <1>3 DEF Ends, Created
  <2>3. \A c \in Chapters : acked'.text[c] # {} => c \in made
    BY <1>0, <1>3 DEF Ends, Created
  <2>4. ASSUME NEW t \in Staff
        PROVE  /\ page'[t].at = "chapter" => page'[t].chapter \in made
               /\ \A c \in Chapters : page'[t].shown[c] # "none" => c \in made
    <3>1. \/ page'[t] = page[t]
          \/ /\ page'[t].at = "chapter" => page'[t].chapter \in made
             /\ \A c \in Chapters : page'[t].shown[c] # "none" => c \in made
      BY <1>3 DEF Ends, TypeOK
    <3> QED
      BY <3>1 DEF Created
  <2> QED
    BY <2>1, <2>2, <2>3, <2>4 DEF Becomes, Created, There
(* A step of a handler that keeps what the request knows of chapters.      *)
<1>4. ASSUME NEW k, Moved(k, call'[k].pc), k \in Callers, UNCHANGED <<page, acked, made>>,
             There(book') \subseteq made,
             call'[k].kind = "edit" /\ call'[k].pc = "read" => call[k].pc = "read"
      PROVE  Created'
  <2>1. There(book') \subseteq made'
    BY <1>4
  <2>2. \A j \in Callers : call'[j].copy = call[j].copy /\ call'[j].chapter = call[j].chapter
                           /\ call'[j].kind = call[j].kind
    BY <1>4 DEF Moved
  <2>3. \A j \in Callers : call'[j].kind = "edit" /\ call'[j].pc = "read" => call[j].pc = "read"
    BY <1>4 DEF Moved
  <2> QED
    BY <1>4, <2>1, <2>2, <2>3 DEF Created, There
<1>5. ASSUME NEW k, NEW q, Learns(k, q) \/ Sees(k, q)
      PROVE  Created'
  <2>1. Becomes(k, q) /\ UNCHANGED <<book, made, acked, page>>
    BY <1>5, Become DEF Learns, Sees, Held
  <2>2. There(q.copy) \subseteq made /\ q.chapter = call[k].chapter /\ q.kind = call[k].kind
    BY <1>5, StaffCall DEF Learns, Sees, Learnt, Created
  <2>3. q.pc = "read" /\ q.kind = "edit" => q.chapter \in There(q.copy)
    BY <1>5 DEF Learns, Sees, Learnt
  <2> QED
    BY <2>1, <2>2, <2>3 DEF Becomes, Created, There
<1>6. ASSUME NEW k, Stores(k)
      PROVE  Created'
  <2>1. k \in Callers /\ Moved(k, "stored") /\ UNCHANGED <<page, acked, made, book>>
    BY <1>6, StoresCall DEF Stores, Held
  <2> QED
    BY <1>0, <1>4, <2>1 DEF Moved
<1>7. ASSUME NEW k, NEW pc \in {"replaced", "written"}, Moves(k, pc), made' = made,
             There(book') \subseteq made
      PROVE  Created'
  <2>1. k \in Callers /\ Moved(k, pc) /\ UNCHANGED <<page, acked>>
    BY <1>7, MovesCall
  <2> QED
    BY <1>4, <1>7, <2>1 DEF Moved
<1>8. ASSUME NEW k, Replaces(k)
      PROVE  Created'
  <2>1. There(book') = There(call[k].copy) /\ There(call[k].copy) \subseteq made
    BY <1>8 DEF Replaces, Moves, There, Created
  <2> QED
    BY <1>7, <1>8, <2>1 DEF Replaces
<1>9. ASSUME NEW k, Sets(k)
      PROVE  Created'
  <2>1. There(book') = There(book)
    BY <1>9 DEF Sets, There
  <2> QED
    BY <1>0, <1>7, <1>9, <2>1 DEF Sets
<1>10. ASSUME NEW k, NEW pc, Rewrites(k, pc)
       PROVE  Created'
  <2>1. There(book') = There(book)
    BY <1>10 DEF Rewrites, There
  <2> QED
    BY <1>0, <1>7, <1>10, <2>1 DEF Rewrites
<1>11. ASSUME NEW k, NEW c, Removes(k, c)
       PROVE  Created'
  <2>1. There(book') \subseteq There(book)
    BY <1>11 DEF Removes, There
  <2> QED
    BY <1>0, <1>7, <1>11, <2>1 DEF Removes
<1>12. ASSUME NEW k, NEW c, Adds(k, c)
       PROVE  Created'
  <2>1. There(book') \subseteq made' /\ made' = made \cup {c} /\ UNCHANGED <<page, acked>>
    BY <1>0, <1>12 DEF Adds, There
  <2>2. /\ Becomes(k, call'[k])
        /\ call'[k].pc = "written" /\ call'[k].kind = "create" /\ call'[k].chapter = c
        /\ call'[k].copy = call[k].copy
    BY <1>12, AddsCall
  <2> QED
    BY <2>1, <2>2 DEF Becomes, Created, There
<1> QED
  BY <1>1, <1>2, <1>3, <1>5, <1>6, <1>8, <1>9, <1>10, <1>11, <1>12 DEF Classes

ChaptersInv == ChaptersKept /\ ChaptersWritten

(* A step that leaves what is kept of chapters, or only lets it grow.      *)
LEMMA ChaptersGrow ==
  ASSUME TypeOK, ChaptersInv, NEW k, k \in Callers, UNCHANGED acked,
         over.chapters \subseteq over'.chapters,
         \A j \in Callers : j # k => call'[j] = call[j],
         NEW c \in There(book') \ over'.chapters, c \in There(book),
         book.text[c] \subseteq book'.text[c],
         book.state[c] = "PUBLISHED" => book'.state[c] = "PUBLISHED",
         call'[k].chapter = c => ChapterWritten(k, c)'
  PROVE  /\ acked'.text[c] \subseteq book'.text[c]
         /\ c \in acked'.published => book'.state[c] = "PUBLISHED"
         /\ \A j \in Callers : call'[j].chapter = c => ChapterWritten(j, c)'
<1>1. c \in There(book) \ over.chapters
  OBVIOUS
<1>2. acked'.text[c] \subseteq book'.text[c] /\ (c \in acked'.published => book'.state[c] = "PUBLISHED")
  BY <1>1 DEF ChaptersInv, ChaptersKept
<1>3. ASSUME NEW j \in Callers, j # k, call'[j].chapter = c
      PROVE  ChapterWritten(j, c)'
  <2>1. ChapterWritten(j, c) /\ call'[j] = call[j]
    BY <1>1, <1>3 DEF ChaptersInv, ChaptersWritten
  <2> QED
    BY <2>1 DEF ChapterWritten
<1> QED
  BY <1>2, <1>3

LEMMA ChaptersSame ==
  ASSUME TypeOK, ChaptersInv, NEW k, Goes(k), UNCHANGED <<book, over>>,
         call'[k].pc \notin {"replaced", "written"}
  PROVE  ChaptersInv'
<1>1. There(book') = There(book)
  BY DEF There
<1>2. \A c \in Chapters : ChapterWritten(k, c)'
  BY DEF ChapterWritten
<1>3. \A j \in Callers : \A c \in Chapters : j # k /\ ChapterWritten(j, c) => ChapterWritten(j, c)'
  BY DEF ChapterWritten, Goes
<1>4. ChaptersKept'
  BY <1>1 DEF ChaptersInv, ChaptersKept, Goes
<1>5. \A j \in Callers : \A c \in There(book') \ over'.chapters :
        call'[j].chapter = c => ChapterWritten(j, c)'
  BY <1>1, <1>2, <1>3 DEF ChaptersInv, ChaptersWritten, Goes, There
<1> QED
  BY <1>4, <1>5 DEF ChaptersInv, ChaptersWritten

LEMMA ChaptersStep ==
  ASSUME TypeOK, ChaptersInv, Created, Classes
  PROVE  ChaptersInv'
<1>0. There(book) \subseteq made /\ made \subseteq Chapters /\ NoChapter \notin Chapters
  BY DEF Created, TypeOK
<1>1. ASSUME NEW t, NEW p, Looks(t, p)
      PROVE  ChaptersInv'
  <2>1. UNCHANGED <<book, acked, call, over>>
    BY <1>1 DEF Looks, Look
  <2> QED
    BY <2>1 DEF ChaptersInv, ChaptersKept, ChaptersWritten, ChapterWritten, There
<1>2. ASSUME NEW k, NEW q, Sends(k, q)
      PROVE  ChaptersInv'
  <2>1. Becomes(k, q) /\ q.pc = "sent" /\ UNCHANGED <<book, acked, over>>
    BY <1>2, Become DEF Sends, Send
  <2> QED
    BY <2>1 DEF Becomes, ChaptersInv, ChaptersKept, ChaptersWritten, ChapterWritten, There
<1>3. ASSUME NEW k, Ends(k)
      PROVE  ChaptersInv'
  <2>1. Becomes(k, NoCall) /\ NoCall.pc = "idle" /\ UNCHANGED <<book, over>>
    BY <1>3, Become, NothingTyped DEF Ends
  <2>2. There(book') = There(book) /\ There(book) \subseteq Chapters
    BY <2>1 DEF There
  <2>3. ASSUME NEW c \in There(book) \ over.chapters
        PROVE  acked'.text[c] \subseteq book.text[c]
    <3>1. \/ acked'.text[c] = acked.text[c]
          \/ /\ call[k].kind \in {"create", "edit"} /\ call[k].pc = "written"
             /\ call[k].chapter = c /\ acked'.text[c] = acked.text[c] \cup call[k].form
      BY <1>3, <2>2 DEF Ends
    <3> QED
      BY <2>1, <3>1 DEF Becomes, ChaptersInv, ChaptersKept, ChaptersWritten, ChapterWritten
  <2>4. ASSUME NEW c \in There(book) \ over.chapters, c \in acked'.published
        PROVE  book.state[c] = "PUBLISHED"
    <3>1. \/ acked'.published = acked.published
          \/ /\ call[k].kind = "publish" /\ call[k].pc = "written"
             /\ acked'.published = acked.published \cup {call[k].chapter}
      BY <1>3 DEF Ends
    <3> QED
      BY <2>1, <2>4, <3>1 DEF Becomes, ChaptersInv, ChaptersKept, ChaptersWritten, ChapterWritten
  <2>5. ChaptersKept'
    BY <2>1, <2>2, <2>3, <2>4 DEF ChaptersKept
  <2>6. ChaptersWritten'
    BY <2>1, <2>2 DEF Becomes, ChaptersInv, ChaptersWritten, ChapterWritten
  <2> QED
    BY <2>5, <2>6 DEF ChaptersInv
<1>4. ASSUME NEW k, NEW q, Learns(k, q) \/ Sees(k, q)
      PROVE  ChaptersInv'
  <2>1. Becomes(k, q) /\ q.pc \in {"read", "refused"} /\ UNCHANGED <<book, over>>
    BY <1>4, Become DEF Learns, Sees, Learnt
  <2>2. Goes(k)
    BY <1>4, Going DEF Goers
  <2> QED
    BY <2>1, <2>2, ChaptersSame DEF Becomes
<1>5. ASSUME NEW k, Stores(k)
      PROVE  ChaptersInv'
  <2>1. Moved(k, "stored") /\ UNCHANGED <<book, over>>
    BY <1>5, StoresCall DEF Stores
  <2>2. Goes(k)
    BY <1>5, Going DEF Goers
  <2> QED
    BY <2>1, <2>2, ChaptersSame DEF Moved
(* The writes: chapter by chapter, by ChaptersGrow.                        *)
<1>6. ASSUME NEW k, k \in Callers, UNCHANGED acked, over.chapters \subseteq over'.chapters,
             \A j \in Callers : j # k => call'[j] = call[j],
             \A c \in There(book') \ over'.chapters :
                /\ c \in There(book) /\ book.text[c] \subseteq book'.text[c]
                /\ book.state[c] = "PUBLISHED" => book'.state[c] = "PUBLISHED"
                /\ call'[k].chapter = c => ChapterWritten(k, c)'
      PROVE  ChaptersInv'
  <2>1. \A c \in There(book') \ over'.chapters :
          /\ acked'.text[c] \subseteq book'.text[c]
          /\ c \in acked'.published => book'.state[c] = "PUBLISHED"
          /\ \A j \in Callers : call'[j].chapter = c => ChapterWritten(j, c)'
    BY <1>6, ChaptersGrow
  <2> QED
    BY <2>1 DEF ChaptersInv, ChaptersKept, ChaptersWritten
<1>7. ASSUME NEW k, Replaces(k)
      PROVE  ChaptersInv'
  <2>1. k \in Callers /\ Moved(k, "written") /\ UNCHANGED acked
    BY <1>7, MovesCall DEF Replaces
  <2>2. over.chapters \subseteq over'.chapters /\ call[k].kind \in Whole
        /\ \A c \in Chapters \ over'.chapters :
              book'.state[c] = book.state[c] /\ book'.text[c] = book.text[c]
    BY <1>7 DEF Replaces
  <2>3. \A c \in There(book') \ over'.chapters : ChapterWritten(k, c)'
    BY <2>1, <2>2 DEF Moved, ChapterWritten, Whole
  <2> QED
    BY <1>6, <2>1, <2>2, <2>3 DEF Moved, There
<1>8. ASSUME NEW k, Sets(k)
      PROVE  ChaptersInv'
  <2>1. k \in Callers /\ Moved(k, "written") /\ UNCHANGED <<acked, over>>
    BY <1>8, MovesCall DEF Sets
  <2>2. book'.state = book.state /\ book'.text = book.text
        /\ call[k].kind \in {"publish", "list", "review"}
        /\ (call[k].kind = "publish" => call[k].pc = "replaced")
    BY <1>8 DEF Sets
  <2>3. ASSUME NEW c \in There(book') \ over'.chapters, call'[k].chapter = c
        PROVE  ChapterWritten(k, c)'
    <3>1. c \in There(book) \ over.chapters /\ call[k].chapter = c
      BY <2>1, <2>2, <2>3 DEF There, Moved
    <3>2. ChapterWritten(k, c)
      BY <2>1, <3>1 DEF ChaptersInv, ChaptersWritten
    <3> QED
      BY <2>1, <2>2, <3>2 DEF ChapterWritten, Moved
  <2> QED
    BY <1>6, <2>1, <2>2, <2>3 DEF Moved, There
<1>9. ASSUME NEW k, NEW pc, Rewrites(k, pc)
      PROVE  ChaptersInv'
  <2>1. k \in Callers /\ Moved(k, pc) /\ UNCHANGED acked
    BY <1>9, MovesCall DEF Rewrites
  <2>2. /\ over.chapters \subseteq over'.chapters
        /\ \/ call[k].kind = "edit" /\ pc = "written"
           \/ call[k].kind = "publish" /\ pc = "replaced"
        /\ \A d \in Chapters : (book'.state[d] = "none") = (book.state[d] = "none")
        /\ \A d \in Chapters : d # call[k].chapter =>
              book'.state[d] = book.state[d] /\ book'.text[d] = book.text[d]
    BY <1>9 DEF Rewrites
  <2>3. call[k].chapter \in There(book) \ over'.chapters =>
          /\ book.text[call[k].chapter] \subseteq book'.text[call[k].chapter]
          /\ call[k].kind = "edit" => call[k].form \subseteq book'.text[call[k].chapter]
                        /\ book'.state[call[k].chapter] = book.state[call[k].chapter]
          /\ call[k].kind = "publish" => book'.state[call[k].chapter] = "PUBLISHED"
    BY <1>9 DEF Rewrites
  <2>4. There(book') = There(book)
    BY <2>2 DEF There
  <2>5. \A c \in There(book') \ over'.chapters :
          /\ book.text[c] \subseteq book'.text[c]
          /\ book.state[c] = "PUBLISHED" => book'.state[c] = "PUBLISHED"
    BY <2>2, <2>3, <2>4 DEF There
  <2>6. ASSUME NEW c \in There(book') \ over'.chapters, call'[k].chapter = c
        PROVE  ChapterWritten(k, c)'
    BY <2>1, <2>2, <2>3, <2>4, <2>6 DEF ChapterWritten, Moved
  <2> QED
    BY <1>6, <2>1, <2>2, <2>4, <2>5, <2>6 DEF Moved
<1>10. ASSUME NEW k, NEW c, Removes(k, c)
       PROVE  ChaptersInv'
  <2>1. k \in Callers /\ Moved(k, "written") /\ UNCHANGED <<acked, over>>
    BY <1>10, MovesCall DEF Removes
  <2>2. /\ book'.state[c] = "none" /\ call[k].kind = "hide"
        /\ \A d \in Chapters : d # c => book'.state[d] = book.state[d] /\ book'.text[d] = book.text[d]
    BY <1>10 DEF Removes
  <2>3. \A d \in There(book') \ over'.chapters : ChapterWritten(k, d)'
    BY <2>1, <2>2 DEF Moved, ChapterWritten
  <2> QED
    BY <1>6, <2>1, <2>2, <2>3 DEF Moved, There
<1>11. ASSUME NEW k, NEW c, Adds(k, c)
       PROVE  ChaptersInv'
  <2>1. /\ Becomes(k, call'[k])
        /\ call'[k].pc = "written" /\ call'[k].kind = "create" /\ call'[k].chapter = c
        /\ call'[k].form = call[k].form
    BY <1>11, AddsCall
  <2>2. /\ UNCHANGED <<acked, over>> /\ c \in Chapters /\ c \notin made
        /\ book'.text[c] = call[k].form
        /\ \A d \in Chapters : d # c => book'.state[d] = book.state[d] /\ book'.text[d] = book.text[d]
    BY <1>11 DEF Adds
  <2>3. acked.text[c] = {} /\ c \notin acked.published
    BY <2>2 DEF Created
  <2>4. \A j \in Callers : j # k => call'[j].chapter # c
    BY <1>0, <2>1, <2>2 DEF Becomes, Created
  <2>5. ChapterWritten(k, c)'
    BY <2>1, <2>2 DEF ChapterWritten
  <2>6. ASSUME NEW d \in There(book') \ over'.chapters, d # c
        PROVE  /\ acked'.text[d] \subseteq book'.text[d]
               /\ d \in acked'.published => book'.state[d] = "PUBLISHED"
               /\ \A j \in Callers : call'[j].chapter = d => ChapterWritten(j, d)'
    <3>1. d \in There(book) /\ book'.state[d] = book.state[d] /\ book'.text[d] = book.text[d]
          /\ over.chapters \subseteq over'.chapters
      BY <2>2, <2>6 DEF There
    <3> QED
      BY <2>1, <2>2, <2>6, <3>1, ChaptersGrow DEF Becomes
  <2>7. ChaptersKept'
    BY <2>2, <2>3, <2>6 DEF ChaptersKept
  <2>8. ChaptersWritten'
    BY <2>1, <2>4, <2>5, <2>6 DEF ChaptersWritten
  <2> QED
    BY <2>7, <2>8 DEF ChaptersInv
<1> QED
  BY <1>1, <1>2, <1>3, <1>4, <1>5, <1>7, <1>8, <1>9, <1>10, <1>11 DEF Classes

-----------------------------------------------------------------------------
(* Numbers and counts.                                                     *)
ListInv == NumbersDistinct /\ ChaptersCounted /\ ListSeen

SeesList(j) ==
    call[j].pc = "read" =>
        /\ call[j].kind = "create" => ~NumberTaken(call[j].number)
        /\ call[j].kind = "hide" => call[j].chapter \in There(book)
        /\ call[j].kind \in Whole =>
              There(call[j].copy) = There(book) /\ call[j].copy.total = book.total

LEMMA ListSeers == ListSeen <=> ("list" \notin disturbed => \A j \in Callers : SeesList(j))
BY DEF ListSeen, SeesList

LEMMA ThereFinite ==
  ASSUME TypeOK
  PROVE  There(book) \subseteq Chapters /\ IsFiniteSet(There(book))
BY FS_Subset DEF There

(* Who counts or numbers chapters while another works on the whole         *)
(* document, or counts and numbers too, has disturbed it.                  *)
LEMMA ListAlone ==
  ASSUME Undisturbed, "list" \notin disturbed, NEW k \in Callers, call[k].pc # "idle",
         NEW j \in Callers, j # k, call[j].pc # "idle"
  PROVE  /\ call[k].kind \in Listing => call[j].kind \notin Listing \cup Whole
         /\ call[k].kind \in Whole => call[j].kind \notin Listing
<1>1. Disturbs(call[k].kind, call[j].kind) \subseteq disturbed
  BY DEF Undisturbed, Quiet
<1> QED
  BY <1>1 DEF Disturbs

(* What the list of chapters is to requests and counts.                    *)
SameList ==
    /\ There(book') = There(book) /\ book'.total = book.total
    /\ \A c \in There(book) : number'[c] = number[c]

LEMMA ListSame ==
  ASSUME ListInv, Undisturbed, SameList, disturbed \subseteq disturbed', NEW k \in Callers,
         \A j \in Callers : j # k => call'[j] = call[j],
         call'[k].pc # "read"
  PROVE  ListInv'
<1>1. CASE "list" \in disturbed'
  BY <1>1 DEF ListInv, NumbersDistinct, ChaptersCounted, ListSeen
<1>2. CASE "list" \notin disturbed'
  <2>1. "list" \notin disturbed
    BY <1>2
  <2>2. NumbersDistinct' /\ ChaptersCounted'
    BY <2>1 DEF ListInv, NumbersDistinct, ChaptersCounted, SameList
  <2>4. \A j \in Callers : call'[j].pc = "read" => call'[j] = call[j]
    OBVIOUS
  <2>5. ASSUME NEW j \in Callers
        PROVE  SeesList(j)'
    <3>1. SeesList(j)
      BY <2>1, ListSeers DEF ListInv
    <3> QED
      BY <2>4, <3>1 DEF SeesList, NumberTaken, SameList
  <2>6. ListSeen'
    BY <2>5 DEF ListSeen, SeesList
  <2> QED
    BY <2>2, <2>6 DEF ListInv
<1> QED
  BY <1>1, <1>2

LEMMA ListStep ==
  ASSUME TypeOK, ListInv, Undisturbed, Created, Classes
  PROVE  ListInv'
<1>0. There(book) \subseteq made /\ made \subseteq Chapters /\ NoChapter \notin Chapters
  BY DEF Created, TypeOK
<1>1. ASSUME NEW t, NEW p, Looks(t, p)
      PROVE  ListInv'
  <2>1. UNCHANGED <<book, number, call, disturbed>>
    BY <1>1 DEF Looks, Look
  <2> QED
    BY <2>1 DEF ListInv, NumbersDistinct, ChaptersCounted, ListSeen, There, NumberTaken
<1>2. ASSUME NEW k, NEW q, Sends(k, q)
      PROVE  ListInv'
  <2>1. Becomes(k, q) /\ q.pc = "sent" /\ UNCHANGED <<book, number>> /\ disturbed \subseteq disturbed'
    BY <1>2, Become DEF Sends, Send
  <2>2. SameList
    BY <2>1 DEF SameList
  <2> QED
    BY <2>1, <2>2, ListSame DEF Becomes
<1>3. ASSUME NEW k, Ends(k)
      PROVE  ListInv'
  <2>1. Becomes(k, NoCall) /\ NoCall.pc = "idle" /\ UNCHANGED <<book, number>>
        /\ disturbed \subseteq disturbed'
    BY <1>3, Become, NothingTyped DEF Ends
  <2>2. SameList
    BY <2>1 DEF SameList
  <2> QED
    BY <2>1, <2>2, ListSame DEF Becomes
<1>4. ASSUME NEW k, NEW q, Learns(k, q) \/ Sees(k, q)
      PROVE  ListInv'
  <2>1. Becomes(k, q) /\ UNCHANGED <<book, number, disturbed>>
    BY <1>4, Become DEF Learns, Sees, Held
  <2>2. CASE "list" \in disturbed
    BY <2>1, <2>2 DEF ListInv, NumbersDistinct, ChaptersCounted, ListSeen
  <2>3. CASE "list" \notin disturbed
    <3>1. /\ q.pc = "read" /\ q.kind = "create" => ~NumberTaken(q.number)
          /\ q.pc = "read" /\ q.kind = "hide" => q.chapter \in There(book)
          /\ q.kind \in Whole => q.copy = book
      BY <1>4 DEF Learns, Sees, Learnt, Whole
    <3>2. SeesList(k)'
      BY <2>1, <3>1 DEF Becomes, SeesList, NumberTaken
    <3>3. \A j \in Callers : j # k => SeesList(j)'
      <4>1. SUFFICES ASSUME NEW j \in Callers, j # k
                     PROVE  SeesList(j)'
        OBVIOUS
      <4>2. SeesList(j)
        BY <2>3, ListSeers DEF ListInv
      <4> QED
        BY <2>1, <4>1, <4>2 DEF Becomes, SeesList, NumberTaken
    <3>4. ListSeen'
      BY <3>2, <3>3 DEF ListSeen, SeesList
    <3> QED
      BY <2>1, <3>4 DEF ListInv, NumbersDistinct, ChaptersCounted
  <2> QED
    BY <2>2, <2>3
<1>5. ASSUME NEW k, Stores(k)
      PROVE  ListInv'
  <2>1. k \in Callers /\ Moved(k, "stored") /\ UNCHANGED <<book, number, disturbed>>
    BY <1>5, StoresCall DEF Stores, Held
  <2>2. SameList
    BY <2>1 DEF SameList
  <2> QED
    BY <2>1, <2>2, ListSame DEF Moved
(* A write that keeps the list.                                            *)
<1>6. ASSUME NEW k, NEW pc \in {"replaced", "written"}, Moves(k, pc), SameList
      PROVE  ListInv'
  BY <1>6, MovesCall, ListSame DEF Moved
<1>7. ASSUME NEW k, Replaces(k)
      PROVE  ListInv'
  <2>1. /\ Moves(k, "written") /\ k \in Callers /\ call[k].kind \in Whole /\ call[k].pc = "read"
        /\ There(book') = There(call[k].copy) /\ book'.total = call[k].copy.total
        /\ UNCHANGED <<number, disturbed>>
    BY <1>7 DEF Replaces, Moves, There
  <2>2. CASE "list" \in disturbed
    BY <2>1, <2>2 DEF ListInv, NumbersDistinct, ChaptersCounted, ListSeen
  <2>3. CASE "list" \notin disturbed
    <3>1. There(call[k].copy) = There(book) /\ call[k].copy.total = book.total
      BY <2>1, <2>3 DEF ListInv, ListSeen
    <3>2. SameList
      BY <2>1, <3>1 DEF SameList
    <3> QED
      BY <1>6, <2>1, <3>2
  <2> QED
    BY <2>2, <2>3
<1>8. ASSUME NEW k, Sets(k)
      PROVE  ListInv'
  BY <1>6, <1>8 DEF Sets, SameList, There
<1>9. ASSUME NEW k, NEW pc, Rewrites(k, pc)
      PROVE  ListInv'
  <2>1. Moves(k, pc) /\ pc \in {"replaced", "written"} /\ number' = number
        /\ book'.total = book.total
    BY <1>9 DEF Rewrites
  <2>2. There(book') = There(book)
    BY <1>9 DEF Rewrites, There
  <2> QED
    BY <1>6, <2>1, <2>2 DEF SameList
(* A write of the list: nobody else has read what it changes.              *)
<1>10. ASSUME NEW k \in Callers, call[k].pc = "read", call[k].kind \in Listing,
              "list" \notin disturbed, Goes(k), call'[k].pc = "written"
       PROVE  ListSeen'
  <2>1. ASSUME NEW j \in Callers, call'[j].pc = "read"
        PROVE  SeesList(j)'
    <3>1. j # k /\ call'[j] = call[j] /\ call[j].pc = "read"
      BY <1>10, <2>1 DEF Goes
    <3>2. call[j].kind \notin Listing \cup Whole
      BY <1>10, <3>1, ListAlone
    <3> QED
      BY <3>1, <3>2 DEF SeesList, Listing, Whole
  <2> QED
    BY <2>1 DEF ListSeen, SeesList
<1>11. ASSUME NEW k, NEW c, Removes(k, c)
       PROVE  ListInv'
  <2>1. /\ Moves(k, "written") /\ Moved(k, "written") /\ k \in Callers /\ call[k].pc = "read"
        /\ call[k].kind = "hide" /\ c = call[k].chapter /\ c \in Chapters
        /\ UNCHANGED <<number, disturbed>>
    BY <1>11, MovesCall DEF Removes
  <2>2. CASE "list" \in disturbed
    BY <2>1, <2>2 DEF ListInv, NumbersDistinct, ChaptersCounted, ListSeen
  <2>3. CASE "list" \notin disturbed
    <3>1. ListSeen'
      <4>1. Goes(k)
        BY <1>11, Going DEF Goers
      <4> QED
        BY <1>10, <2>1, <2>3, <4>1 DEF Moved, Listing
    <3>2. c \in There(book)
      BY <2>1, <2>3 DEF ListInv, ListSeen
    <3>3. There(book') = There(book) \ {c}
      BY <1>11 DEF Removes, There
    <3>4. Cardinality(There(book')) = Cardinality(There(book)) - 1
      <4>1. IsFiniteSet(There(book))
        BY ThereFinite
      <4>2. Cardinality(There(book) \ {c}) = Cardinality(There(book)) - 1
        BY <3>2, <4>1, FS_RemoveElement
      <4> QED
        BY <3>3, <4>2
    <3>5. book'.total = book.total - 1 /\ book.total = Cardinality(There(book))
      BY <1>11, <2>3 DEF Removes, ListInv, ChaptersCounted
    <3>6. NumbersDistinct'
      BY <2>1, <2>3, <3>3 DEF ListInv, NumbersDistinct
    <3> QED
      BY <3>1, <3>4, <3>5, <3>6 DEF ListInv, ChaptersCounted
  <2> QED
    BY <2>2, <2>3
<1>12. ASSUME NEW k, NEW c, Adds(k, c)
       PROVE  ListInv'
  <2>1. /\ Becomes(k, call'[k]) /\ k \in Callers /\ call[k].pc = "read" /\ call[k].kind = "create"
        /\ call'[k].pc = "written" /\ c \in Chapters /\ c \notin made /\ UNCHANGED disturbed
        /\ number' = [number EXCEPT ![c] = call[k].number]
    BY <1>12, AddsCall DEF Adds
  <2>2. CASE "list" \in disturbed
    BY <2>1, <2>2 DEF ListInv, NumbersDistinct, ChaptersCounted, ListSeen
  <2>3. CASE "list" \notin disturbed
    <3>1. ListSeen'
      <4>1. Goes(k)
        BY <1>12, Going DEF Goers
      <4> QED
        BY <1>10, <2>1, <2>3, <4>1 DEF Listing
    <3>2. c \notin There(book)
      BY <1>0, <2>1
    <3>3. There(book') = There(book) \cup {c}
      BY <1>12 DEF Adds, There
    <3>4. Cardinality(There(book')) = Cardinality(There(book)) + 1
      BY <3>2, <3>3, ThereFinite, FS_AddElement
    <3>5. book'.total = book.total + 1 /\ book.total = Cardinality(There(book))
      BY <1>12, <2>3 DEF Adds, ListInv, ChaptersCounted
    <3>6. ~NumberTaken(call[k].number)
      BY <2>1, <2>3 DEF ListInv, ListSeen
    <3>7. number'[c] = call[k].number /\ \A d \in There(book) : number'[d] = number[d]
      BY <2>1, <3>2, ThereFinite DEF TypeOK
    <3>8. NumbersDistinct'
      BY <2>3, <3>3, <3>6, <3>7 DEF ListInv, NumbersDistinct, NumberTaken
    <3> QED
      BY <3>1, <3>4, <3>5, <3>8 DEF ListInv, ChaptersCounted
  <2> QED
    BY <2>2, <2>3
<1> QED
  BY <1>1, <1>2, <1>3, <1>4, <1>5, <1>7, <1>8, <1>9, <1>11, <1>12 DEF Classes

-----------------------------------------------------------------------------
(* The rating.                                                             *)
RatingInv == RatingSeen /\ RatingWritten /\ RatingAgrees

(* Whoever works on reviews while another does, or works on the whole      *)
(* document, has disturbed it.                                             *)
LEMMA RatingAlone ==
  ASSUME Undisturbed, "rating" \notin disturbed, NEW k \in Callers, call[k].pc # "idle",
         NEW j \in Callers, j # k, call[j].pc # "idle"
  PROVE  call[k].kind = "review" => call[j].kind \notin {"review"} \cup Whole
<1>1. Disturbs(call[k].kind, call[j].kind) \subseteq disturbed
  BY DEF Undisturbed, Quiet
<1> QED
  BY <1>1 DEF Disturbs

SeesRating(j) ==
    call[j].pc = "read" =>
        /\ call[j].kind = "review" => call[j].seen = reviews
        /\ call[j].kind \in Whole => call[j].copy.rating = book.rating

LEMMA RatingSeers == RatingSeen <=> ("rating" \notin disturbed => \A j \in Callers : SeesRating(j))
BY DEF RatingSeen, SeesRating

LEMMA RatingDisturbed ==
  ASSUME "rating" \in disturbed'
  PROVE  RatingInv'
BY DEF RatingInv, RatingSeen, RatingWritten, RatingAgrees

(* A step that touches neither reviews nor rating, of a call that does not *)
(* work on reviews, or only begins to.                                     *)
LEMMA RatingSame ==
  ASSUME RatingInv, NEW k \in Callers, UNCHANGED reviews, book'.rating = book.rating,
         disturbed \subseteq disturbed',
         \A j \in Callers : j # k => call'[j] = call[j],
         SeesRating(k)',
         call[k].kind = "review" /\ call[k].pc \in {"stored", "read"} => "rating" \in disturbed'
  PROVE  RatingInv'
<1>1. CASE "rating" \notin disturbed'
  <2>1. "rating" \notin disturbed
    BY <1>1
  <2>2. \A j \in Callers : SeesRating(j)'
    <3>1. ASSUME NEW j \in Callers, j # k
          PROVE  SeesRating(j)'
      <4>1. SeesRating(j)
        BY <2>1, RatingSeers DEF RatingInv
      <4> QED
        BY <3>1, <4>1 DEF SeesRating
    <3> QED
      BY <3>1
  <2>3. RatingSeen'
    BY <2>2 DEF RatingSeen, SeesRating
  <2>4. book.rating = reviews \/ \E r \in Readers : r # k /\ call[r].kind = "review"
                                                   /\ call[r].pc \in {"stored", "read"}
    BY <1>1, <2>1 DEF RatingInv, RatingWritten
  <2>5. book'.rating = reviews' \/ \E r \in Readers : call'[r].kind = "review"
                                                     /\ call'[r].pc \in {"stored", "read"}
    BY <2>4, StaffCall
  <2>6. RatingWritten'
    BY <2>5 DEF RatingWritten
  <2>7. RatingAgrees'
    BY <2>5 DEF RatingAgrees, Reviewing
  <2> QED
    BY <2>3, <2>6, <2>7 DEF RatingInv
<1> QED
  BY <1>1, RatingDisturbed

LEMMA RatingStep ==
  ASSUME TypeOK, RatingInv, Undisturbed, Classes
  PROVE  RatingInv'
<1> USE StaffCall
<1>1. ASSUME NEW t, NEW p, Looks(t, p)
      PROVE  RatingInv'
  <2>1. UNCHANGED <<book, reviews, call, disturbed>>
    BY <1>1 DEF Looks, Look
  <2> QED
    BY <2>1 DEF RatingInv, RatingSeen, RatingWritten, RatingAgrees, Reviewing
<1>2. ASSUME NEW k, NEW q, Sends(k, q)
      PROVE  RatingInv'
  <2>1. Becomes(k, q) /\ q.pc = "sent" /\ UNCHANGED <<book, reviews>> /\ disturbed \subseteq disturbed'
        /\ call[k].pc = "idle"
    BY <1>2, Become DEF Sends, Send, Quiet
  <2>2. SeesRating(k)'
    BY <2>1 DEF Becomes, SeesRating
  <2> QED
    BY <2>1, <2>2, RatingSame DEF Becomes
<1>3. ASSUME NEW k, Ends(k)
      PROVE  RatingInv'
  <2>1. Becomes(k, NoCall) /\ NoCall.pc = "idle" /\ UNCHANGED <<book, reviews>>
        /\ disturbed \subseteq disturbed'
        /\ (call[k].kind = "review" /\ call[k].pc \in {"stored", "read"} => "rating" \in disturbed')
    BY <1>3, Become, NothingTyped DEF Ends
  <2>2. SeesRating(k)'
    BY <2>1 DEF Becomes, SeesRating
  <2> QED
    BY <2>1, <2>2, RatingSame DEF Becomes
<1>4. ASSUME NEW k, NEW q, Learns(k, q)
      PROVE  RatingInv'
  <2>1. Becomes(k, q) /\ UNCHANGED <<book, reviews, disturbed>> /\ call[k].pc = "sent"
        /\ q.kind # "review" /\ (q.kind \in Whole => q.copy = book)
    BY <1>4, Become DEF Learns, Held
  <2>2. SeesRating(k)'
    BY <2>1 DEF Becomes, SeesRating
  <2> QED
    BY <2>1, <2>2, RatingSame DEF Becomes
(* The reviews change: no other call has read them.                        *)
<1>5. ASSUME NEW k, Stores(k)
      PROVE  RatingInv'
  <2>1. k \in Callers /\ k \in Readers /\ Moved(k, "stored") /\ UNCHANGED <<book, disturbed>>
        /\ call[k].kind = "review" /\ call[k].pc = "sent"
    BY <1>5, StoresCall DEF Stores, Held
  <2>2. CASE "rating" \notin disturbed
    <3>1. ASSUME NEW j \in Callers
          PROVE  SeesRating(j)'
      <4>1. CASE j = k
        BY <2>1, <4>1 DEF Moved, SeesRating
      <4>2. CASE j # k
        <5>1. call'[j] = call[j] /\ SeesRating(j)
          BY <2>1, <2>2, <4>2, RatingSeers DEF Moved, RatingInv
        <5>2. call[j].pc = "read" => call[j].kind # "review"
          BY <2>1, <2>2, <4>2, RatingAlone
        <5> QED
          BY <2>1, <5>1, <5>2 DEF SeesRating
      <4> QED
        BY <4>1, <4>2
    <3>2. RatingSeen'
      BY <3>1 DEF RatingSeen, SeesRating
    <3> QED
      BY <2>1, <3>2 DEF Moved, RatingInv, RatingWritten, RatingAgrees, Reviewing
  <2> QED
    BY <2>1, <2>2, RatingDisturbed
<1>6. ASSUME NEW k, NEW q, Sees(k, q)
      PROVE  RatingInv'
  <2>1. Becomes(k, q) /\ UNCHANGED <<book, reviews, disturbed>> /\ call[k].pc = "stored"
        /\ k \in Readers /\ q.kind = "review" /\ q.pc = "read" /\ q.seen = reviews
    BY <1>6, Become DEF Sees, Held, Learnt
  <2>2. CASE "rating" \notin disturbed
    <3>1. ASSUME NEW j \in Callers
          PROVE  SeesRating(j)'
      <4>1. CASE j = k
        BY <2>1, <4>1 DEF Becomes, SeesRating, Whole
      <4>2. CASE j # k
        <5>1. call'[j] = call[j] /\ SeesRating(j)
          BY <2>1, <2>2, <4>2, RatingSeers DEF Becomes, RatingInv
        <5> QED
          BY <2>1, <5>1 DEF SeesRating
      <4> QED
        BY <4>1, <4>2
    <3>2. RatingSeen'
      BY <3>1 DEF RatingSeen, SeesRating
    <3> QED
      BY <2>1, <3>2 DEF Becomes, RatingInv, RatingWritten, RatingAgrees, Reviewing
  <2> QED
    BY <2>1, <2>2, RatingDisturbed
(* A write that keeps the rating, of a call that has no review.            *)
<1>7. ASSUME NEW k, NEW pc \in {"replaced", "written"}, Moves(k, pc), UNCHANGED reviews,
             book'.rating = book.rating, call[k].kind # "review"
      PROVE  RatingInv'
  <2>1. k \in Callers /\ Moved(k, pc) /\ UNCHANGED disturbed
    BY <1>7, MovesCall
  <2>2. SeesRating(k)'
    BY <1>7, <2>1 DEF Moved, SeesRating
  <2> QED
    BY <1>7, <2>1, <2>2, RatingSame DEF Moved
<1>8. ASSUME NEW k, Replaces(k)
      PROVE  RatingInv'
  <2>1. /\ Moves(k, "written") /\ k \in Callers /\ call[k].kind \in Whole /\ call[k].pc = "read"
        /\ book'.rating = call[k].copy.rating /\ UNCHANGED <<reviews, disturbed>>
    BY <1>8 DEF Replaces, Moves
  <2>2. CASE "rating" \notin disturbed
    <3>1. call[k].copy.rating = book.rating
      BY <2>1, <2>2 DEF RatingInv, RatingSeen
    <3> QED
      BY <1>7, <2>1, <3>1 DEF Whole
  <2> QED
    BY <2>1, <2>2, RatingDisturbed
<1>9. ASSUME NEW k, NEW pc, Rewrites(k, pc)
      PROVE  RatingInv'
  BY <1>7, <1>9 DEF Rewrites
<1>10. ASSUME NEW k, NEW c, Removes(k, c)
       PROVE  RatingInv'
  BY <1>7, <1>10 DEF Removes
<1>11. ASSUME NEW k, NEW c, Adds(k, c)
       PROVE  RatingInv'
  <2>1. Becomes(k, call'[k]) /\ call'[k].pc = "written" /\ call[k].kind = "create"
        /\ book'.rating = book.rating /\ UNCHANGED <<reviews, disturbed>>
    BY <1>11, AddsCall DEF Adds
  <2>2. SeesRating(k)'
    BY <2>1 DEF SeesRating
  <2> QED
    BY <2>1, <2>2, RatingSame DEF Becomes
<1>12. ASSUME NEW k, Sets(k)
       PROVE  RatingInv'
  <2>1. CASE call[k].kind # "review"
    BY <1>7, <1>12, <2>1 DEF Sets
  <2>2. CASE call[k].kind = "review"
    <3>1. /\ k \in Callers /\ k \in Readers /\ Moved(k, "written") /\ call[k].pc = "read"
          /\ book'.rating = call[k].seen /\ UNCHANGED <<reviews, disturbed>>
      BY <1>12, <2>2, MovesCall DEF Sets
    <3>2. CASE "rating" \notin disturbed
      <4>1. book'.rating = reviews
        BY <2>2, <3>1, <3>2 DEF RatingInv, RatingSeen
      <4>2. ASSUME NEW j \in Callers
            PROVE  SeesRating(j)'
        <5>1. CASE j = k
          BY <3>1, <5>1 DEF Moved, SeesRating
        <5>2. CASE j # k
          <6>1. call'[j] = call[j] /\ SeesRating(j)
            BY <3>1, <3>2, <5>2, RatingSeers DEF Moved, RatingInv
          <6>2. call[j].pc = "read" => call[j].kind \notin Whole
            BY <2>2, <3>1, <3>2, <5>2, RatingAlone
          <6> QED
            BY <3>1, <6>1, <6>2 DEF SeesRating
        <5> QED
          BY <5>1, <5>2
      <4>3. RatingSeen'
        BY <4>2 DEF RatingSeen, SeesRating
      <4> QED
        BY <3>1, <4>1, <4>3 DEF RatingInv, RatingWritten, RatingAgrees
    <3> QED
      BY <3>1, <3>2, RatingDisturbed
  <2> QED
    BY <2>1, <2>2
<1> QED
  BY <1>1, <1>2, <1>3, <1>4, <1>5, <1>6, <1>8, <1>9, <1>10, <1>11, <1>12 DEF Classes

-----------------------------------------------------------------------------
(* The whole.                                                              *)
LEMMA DocInvParts ==
  DocInv <=> /\ TypeOK /\ FormsGrow /\ InfoKept /\ InfoWritten /\ ChaptersInv /\ Created
             /\ Undisturbed /\ ListInv /\ RatingInv
BY DEF DocInv, ChaptersInv, ListInv, RatingInv

LEMMA Start ==
  ASSUME Init
  PROVE  DocInv
<1> USE StaffCall, NothingTyped
<1>1. PICK s \in {"DRAFT", "PUBLISHED"} :
        book = [NoDocument EXCEPT
                  !.status = s, !.total = Cardinality(made),
                  !.state = [c \in Chapters |-> IF c \in made THEN s ELSE "none"],
                  !.text  = [c \in Chapters |-> IF c \in made THEN {Opening} ELSE {}]]
  BY DEF Init
<1>2. /\ made \subseteq Chapters /\ reviews = [r \in Readers |-> NoStars]
      /\ number \in [Chapters -> Numbers \cup {NoNumber}]
      /\ \A c, d \in made : number[c] = number[d] => c = d
      /\ page = [t \in Staff |-> Closed] /\ call = [k \in Callers |-> NoCall]
      /\ changes = {Opening} /\ started = 0 /\ faults = 0
      /\ acked = [info |-> {}, text |-> [c \in Chapters |-> {}], published |-> {}]
      /\ over = [info |-> FALSE, chapters |-> {}] /\ disturbed = {}
  BY DEF Init
<1>3. Cardinality(made) \in Int
  BY <1>2, FS_Subset, FS_CardinalityType
<1>4. /\ book.status = s /\ book.total = Cardinality(made)
      /\ book.state = [c \in Chapters |-> IF c \in made THEN s ELSE "none"]
      /\ book.text = [c \in Chapters |-> IF c \in made THEN {Opening} ELSE {}]
      /\ book.rating = [r \in Readers |-> NoStars] /\ book.info = {}
  BY <1>1 DEF NoDocument
<1>5. There(book) = made
  BY <1>2, <1>4 DEF There
<1>6. book \in Documents
  <2>1. [c \in Chapters |-> IF c \in made THEN s ELSE "none"] \in [Chapters -> States]
    BY DEF States
  <2>2. [c \in Chapters |-> IF c \in made THEN {Opening} ELSE {}] \in [Chapters -> SUBSET Changes]
    OBVIOUS
  <2>3. s \in Statuses
    BY DEF Statuses
  <2> QED
    BY <1>1, <1>3, <2>1, <2>2, <2>3 DEF NoDocument, Documents
<1>7. TypeOK
  BY <1>2, <1>6 DEF TypeOK
<1>8. FormsGrow /\ Undisturbed
  BY <1>2 DEF FormsGrow, Undisturbed, Quiet
<1>9. InfoKept /\ InfoWritten /\ ChaptersInv
  BY <1>2, <1>5 DEF InfoKept, InfoWritten, ChaptersInv, ChaptersKept, ChaptersWritten, ChapterWritten
<1>10. Created
  BY <1>2, <1>5 DEF Created
<1>11. ListInv
  BY <1>2, <1>4, <1>5 DEF ListInv, NumbersDistinct, ChaptersCounted, ListSeen
<1>12. RatingInv
  BY <1>2, <1>4 DEF RatingInv, RatingSeen, RatingWritten, RatingAgrees
<1> QED
  BY <1>7, <1>8, <1>9, <1>10, <1>11, <1>12, DocInvParts

LEMMA Stay ==
  ASSUME DocInv, UNCHANGED vars
  PROVE  DocInv'
<1> USE DEF vars
<1>1. TypeOK'
  BY DEF DocInv, TypeOK
<1>2. FormsGrow' /\ InfoKept' /\ InfoWritten' /\ Undisturbed'
  BY DEF DocInv, FormsGrow, InfoKept, InfoWritten, Undisturbed, Quiet
<1>3. There(book') = There(book)
  BY DEF There
<1>4. ChaptersKept' /\ ChaptersWritten'
  BY <1>3 DEF DocInv, ChaptersKept, ChaptersWritten, ChapterWritten
<1>5. Created'
  BY <1>3 DEF DocInv, Created, There
<1>6. NumbersDistinct' /\ ChaptersCounted' /\ ListSeen'
  BY <1>3 DEF DocInv, NumbersDistinct, ChaptersCounted, ListSeen, There, NumberTaken
<1>7. RatingSeen' /\ RatingWritten' /\ RatingAgrees'
  BY DEF DocInv, RatingSeen, RatingWritten, RatingAgrees, Reviewing
<1> QED
  BY <1>1, <1>2, <1>4, <1>5, <1>6, <1>7 DEF DocInv

LEMMA Steps ==
  ASSUME DocInv, [Next]_vars
  PROVE  DocInv'
<1>1. CASE UNCHANGED vars
  BY <1>1, Stay
<1>2. CASE Next
  <2>1. /\ TypeOK /\ FormsGrow /\ InfoKept /\ InfoWritten /\ ChaptersInv /\ Created
        /\ Undisturbed /\ ListInv /\ RatingInv
    BY DocInvParts
  <2>2. Classes
    BY <1>2, <2>1, NextClasses
  <2>3. /\ TypeOK' /\ FormsGrow' /\ InfoKept' /\ InfoWritten' /\ ChaptersInv' /\ Created'
        /\ Undisturbed' /\ ListInv' /\ RatingInv'
    BY <2>1, <2>2, TypeStep, FormsStep, InfoStep, ChaptersStep, CreatedStep, UndisturbedStep,
       ListStep, RatingStep
  <2> QED
    BY <2>3 DEF DocInv, ChaptersInv, ListInv, RatingInv
<1> QED
  BY <1>1, <1>2

(***************************************************************************)
(* The inductive invariant of the book and its pages, for any number of    *)
(* staff, readers, chapters, changes and requests.                         *)
(***************************************************************************)
THEOREM DocInvariance == Spec => []DocInv
<1>1. Init => DocInv
  BY Start
<1>2. DocInv /\ [Next]_vars => DocInv'
  BY Steps
<1> QED
  BY <1>1, <1>2, PTL DEF Spec

(***************************************************************************)
(* Documents, requests and pages keep their shape.                         *)
(***************************************************************************)
THEOREM DocTypes == Spec => []TypeOK
<1>1. DocInv => TypeOK
  BY DEF DocInv
<1> QED
  BY <1>1, DocInvariance, PTL

(***************************************************************************)
(* Nothing staff were told was saved is lost, unless a call wrote over     *)
(* what its page or its handler had not seen: a book edited as a whole     *)
(* and chapters edited inside it do not hurt each other otherwise.         *)
(***************************************************************************)
THEOREM WorkKeptHolds == Spec => []WorkKept
<1>1. DocInv => WorkKept
  BY DEF DocInv, WorkKept
<1> QED
  BY <1>1, DocInvariance, PTL

(***************************************************************************)
(* Numbers of chapters are distinct, totalChapters counts them and the     *)
(* rating is that of the reviews, unless two calls kept one of these books *)
(* at once or a review was cut short.                                      *)
(***************************************************************************)
THEOREM CountsAgreeHolds == Spec => []CountsAgree
<1>1. DocInv => CountsAgree
  BY DEF DocInv, CountsAgree
<1> QED
  BY <1>1, DocInvariance, PTL
=============================================================================
