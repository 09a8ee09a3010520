---------------------------- MODULE MC_ListPages ----------------------------
(* Every list page of both clients; two words, two picks, and lists of two *)
(* pages, one page and none.                                               *)
EXTENDS ListPages

AllPages ==
    {BooksPage, BorrowingsPage, UsersPage, AuditLogsPage, ChaptersPage, DashboardPage,
     ReportsPage, VouchersPage, BannersPage, RolesPage, ModerationPage, TransactionsPage,
     EmailCampaignsPage, SettingsPage, CategoriesPage, CategoryDetailPage, SearchPage,
     UserBorrowingsSection, UserReadingHistorySection, UserPicker, BookCopyPicker,
     BannerCarousel, ReviewsSection, ProfileContainer, ReadingHistoryTab, PaymentHistoryTab}

Rows == [w \in Words |-> [p \in Picks |->
           IF w = NoWord /\ p = NoPick THEN 2
           ELSE IF w # NoWord /\ p # NoPick THEN 0 ELSE 1]]
=============================================================================
