------------------------- MODULE MCBrowserConnection -------------------------
(* Three RFB objects: the current one and two that are still closing.      *)
EXTENDS BrowserConnection
=============================================================================
