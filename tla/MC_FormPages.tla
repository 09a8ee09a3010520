---------------------------- MODULE MC_FormPages ----------------------------
(* The forms, dialogs and detail pages of both clients, with two rows.      *)
EXTENDS FormPages

AllPages ==
    {UserDetailPage, CreateUserPage, BorrowingDetailPage, BorrowingFinesCard,
     CreateBorrowingPage, CreateBookForm, VouchersPage, BannersPage, RolesPage,
     EmailCampaignsPage, SettingsPage, RegisterForm, ForgotPassword,
     ChangePasswordModal, EditProfileModal, ReviewForm, UserReviewCard}
=============================================================================
