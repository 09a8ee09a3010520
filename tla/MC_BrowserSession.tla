------------------------- MODULE MC_BrowserSession -------------------------
(* Small instances of BrowserSession.                                       *)
EXTENDS BrowserSession, TLC

CONSTANTS staff, site, s1, s2, w1

MCTab == (s1 :> staff) @@ (s2 :> staff) @@ (w1 :> site)
=============================================================================
