-------------------------- MODULE MCDownloadManager --------------------------
(***************************************************************************)
(* Instances of DownloadManager: one item whose server copy changes, and   *)
(* two items that compete for the thread.                                  *)
(***************************************************************************)
EXTENDS DownloadManager

TwoThenOne == <<2, 1>>
Single     == <<1>>
AllCalls   == {"Queue", "QueueNow", "Cancel", "Pause"}
QueueOnly  == {"QueueNow"}
=============================================================================
