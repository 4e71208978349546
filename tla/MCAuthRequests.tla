--------------------------- MODULE MCAuthRequests ---------------------------
(* AuthRequests with two keys: one can be withdrawn, replaced or kept      *)
(* while the other is, which is all a request can tell apart.              *)
EXTENDS AuthRequests
=============================================================================
