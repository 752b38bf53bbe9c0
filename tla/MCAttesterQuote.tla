--------------------------- MODULE MCAttesterQuote ---------------------------
(* AttesterQuote for TLC: two handlers, two requests to tell apart, and two *)
(* keys, so that a reload or a reboot puts another key in service.          *)
EXTENDS AttesterQuote, TLC
==============================================================================
