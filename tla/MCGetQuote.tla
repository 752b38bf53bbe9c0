------------------------------ MODULE MCGetQuote ------------------------------
(* GetQuote for TLC, with the real sizes of prefix and header.  The guest's  *)
(* buffer is too short for any reply, or has room for 1 or 4 bytes of quote; *)
(* the prefix is on both sides of every comparison in Parse.                 *)
EXTENDS GetQuote

MCSizes == {0, MESSAGE, MESSAGE + 1, MESSAGE + 4, MESSAGE + 5, MESSAGE + 8}
MCLengths == 0..HEADER + 8
===============================================================================
