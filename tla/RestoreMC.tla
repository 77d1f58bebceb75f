----------------------------- MODULE RestoreMC -----------------------------
(***************************************************************************)
(* BackupRestore for TLC, with the bounds spent in either of two ways:     *)
(* restores one after the other, cut short and written beside, of which    *)
(* one rename or write fails; or one restore of a disk that fails more     *)
(* than once and keeps a leftover.                                         *)
(***************************************************************************)
EXTENDS BackupRestore

Repeated == OneFailure
Failing == restore <= 1 /\ cuts <= 2 /\ edits <= 1
Budgeted == Repeated \/ Failing

\* Neither stops a start or a recovery: what fails is what they bound.
RestoreSpec ==
  Init /\ [][Next /\ Budgeted']_vars /\ WF_vars(Start) /\ WF_vars(Recovery)
=============================================================================
