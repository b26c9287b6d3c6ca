------------------------------ MODULE MCTaskCache ------------------------------
(***************************************************************************)
(* TaskCache for TLC: a bulk of one level and a bulk of two. The users are    *)
(* all of the first level.                                                   *)
(***************************************************************************)
EXTENDS TaskCache

CONSTANTS A1, A2, t1

MCBulks ==
  {<<[level |-> A1, task |-> t1]>>,
   <<[level |-> A1, task |-> t1], [level |-> A2, task |-> t1]>>}
===============================================================================
