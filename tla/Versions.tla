------------------------------ MODULE Versions ------------------------------
(***************************************************************************)
(* The data of a page, as far as the pool is concerned.  Version v > 0 is  *)
(* what the v-th write through a guard has made of the page, 0 is the new  *)
(* page.  A write to the file that stops inside the data leaves some of    *)
(* version v and some of what was there: that mixture is -v, and the pool  *)
(* meets it after a restart only, when version v is no longer anywhere.    *)
(***************************************************************************)
EXTENDS Integers

Torn(v) == -v

\* What a write through a guard makes of v
Newer(v) == IF v < 0 THEN -v ELSE v + 1
=============================================================================
