------------------------------ MODULE Journal -------------------------------
(***************************************************************************)
(* What the reports of a run promise whoever opens report.md while the run *)
(* goes on, or after it: a page tells of the work up to some moment, no    *)
(* page tells of less than the one before it, and the last page tells of   *)
(* all of it and is never replaced.                                        *)
(***************************************************************************)
EXTENDS Naturals

VARIABLES
  work,      \* transactions sent
  page,      \* transactions the page on disk tells of
  closed     \* the page on disk is the last one

journalVars == <<work, page, closed>>

JournalInit == work = 0 /\ page = 0 /\ closed = FALSE

Work == ~closed /\ work' = work + 1 /\ UNCHANGED <<page, closed>>

Publish == ~closed /\ page' \in page..work /\ UNCHANGED <<work, closed>>

Close == ~closed /\ page' = work /\ closed' = TRUE /\ UNCHANGED work

JournalNext == Work \/ Publish \/ Close

JournalSpec == JournalInit /\ [][JournalNext]_journalVars
=============================================================================
