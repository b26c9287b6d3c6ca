------------------------------- MODULE MCNotify -------------------------------
(***************************************************************************)
(* Notify for TLC, with a cursor of 3 bits: int32(9) is 1 and int32(-6) is 2. *)
(* One table has fewer users than a page holds, the other a user and a group  *)
(* for which the cursor happens to be sound.  In MCLarge, as with real chat   *)
(* ids, the last chat id of the first page is beyond the ids that follow.     *)
(***************************************************************************)
EXTENDS Notify, TLC

MCChats == {-6, 2, 3, 9}
MCNewChats == {3}
MCTables == {<<2>>, <<9, -6>>}
MCLarge == {<<9, 3, 2>>}
MCSlots == <<0, 2>>
===============================================================================
