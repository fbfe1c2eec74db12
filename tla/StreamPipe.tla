------------------------------ MODULE StreamPipe ------------------------------
(***************************************************************************)
(* What the relay of a stream promises its client, without saying how:     *)
(* what the upstream has written reaches the client in order and without   *)
(* loss, as long as the client stays and reads.                            *)
(***************************************************************************)
EXTENDS Naturals, Sequences, SequencesExt

VARIABLES
  written,   \* what the upstream has written
  over,      \* it writes no more
  got,       \* what the client has read
  reader     \* "reading", "stalled" or "gone"

pipeVars == <<written, over, got, reader>>

PipeInit == written = <<>> /\ over = FALSE /\ got = <<>> /\ reader = "reading"

Write ==
  /\ ~over
  /\ IsStrictPrefix(written, written')
  /\ UNCHANGED <<over, got, reader>>

Over == ~over /\ over' = TRUE /\ UNCHANGED <<written, got, reader>>

Read ==
  /\ reader = "reading"
  /\ IsStrictPrefix(got, got') /\ IsPrefix(got', written)
  /\ UNCHANGED <<written, over, reader>>

Turn ==
  /\ reader # "gone"
  /\ reader' \in {"reading", "stalled", "gone"} \ {reader}
  /\ UNCHANGED <<written, over, got>>

PipeNext == Write \/ Over \/ Read \/ Turn

(* A client that stays and reads has read everything in the end.           *)
Delivers ==
  (over /\ reader = "reading") ~> (got = written \/ reader # "reading")

PipeSteps == PipeInit /\ [][PipeNext]_pipeVars

PipeSpec == PipeSteps /\ Delivers
=============================================================================
