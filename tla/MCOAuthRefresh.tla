--------------------------- MODULE MCOAuthRefresh ---------------------------
(* Two instances: a background loop on each, and request handlers.           *)
EXTENDS OAuthRefresh, TLC

CONSTANTS l1, l2, r1, i1, i2

MCInstanceOf == (l1 :> i1) @@ (l2 :> i2) @@ (r1 :> i1)
=============================================================================
