---------------------------- MODULE MCApiServer -----------------------------
(* Three worker threads, TYPEEASY_ASYNC_OVERLAP off (the default) and on.   *)
EXTENDS ApiServer

CONSTANTS t1, t2, t3

MCThreads == {t1, t2, t3}
=============================================================================
