---------------------------- MODULE FileDownload ----------------------------
(***************************************************************************)
(* What the download of one file promises, whatever ranges, proxies and    *)
(* connections it is made of: bytes reach the file in runs, the ".stat"    *)
(* file says where to go on, and the task is complete when no byte is left *)
(* that was neither written nor, as the code does in the places the ghosts *)
(* of DownloadTask name, given up.                                         *)
(***************************************************************************)
EXTENDS Integers

CONSTANT Length

VARIABLES
    written,   \* bytes present in the output file
    lost,      \* bytes given up
    saved,     \* bytes the ".stat" file leads a new process to
    saving,    \* SaveStat has truncated the file and not written it yet
    complete   \* "task complete" was logged and the ".stat" file removed

vars == <<written, lost, saved, saving, complete>>

Bytes == 0..(Length - 1)
Left == Bytes \ (written \cup lost)

Runs == {{b \in Bytes : lo <= b /\ b < hi} : lo, hi \in 0..Length}

Init == /\ written = {} /\ lost = {}
        /\ saved = Bytes /\ saving = FALSE
        /\ complete = FALSE

\* Consecutive bytes of the answer are written at their own offset.
Fetch == /\ \E run \in Runs : written' = written \cup run
         /\ UNCHANGED <<lost, saved, saving, complete>>

\* A range is cut or removed with bytes nobody has fetched.
GiveUp == /\ \E run \in Runs : lost' = lost \cup run
          /\ UNCHANGED <<written, saved, saving, complete>>

\* Between the two steps the file may lead anywhere; after them, to all that
\* is left now, although proxies went on since the ranges were listed.
BeginSave == /\ ~saving /\ ~complete
             /\ saved' \in SUBSET Bytes /\ saving' = TRUE
             /\ UNCHANGED <<written, lost, complete>>
EndSave == /\ saving
           /\ saved' \in SUBSET Bytes /\ Left \subseteq saved' /\ saving' = FALSE
           /\ UNCHANGED <<written, lost, complete>>

Finish == /\ ~saving /\ ~complete /\ Left = {}
          /\ complete' = TRUE /\ saved' = Bytes
          /\ UNCHANGED <<written, lost, saving>>

\* A new process goes on from the ".stat" file.  Only a kill in the middle of
\* saving costs bytes, those the file does not lead to.
Restart == /\ ~complete
           /\ \E gone \in SUBSET (Bytes \ saved) :
                 /\ lost' = lost \cup gone
                 /\ gone # {} => saving
           /\ Left' \subseteq saved
           /\ saving' = FALSE
           /\ UNCHANGED <<written, saved, complete>>

Next == Fetch \/ GiveUp \/ BeginSave \/ EndSave \/ Finish \/ Restart

Spec == Init /\ [][Next]_vars
=============================================================================
