----------------------------- MODULE MCPipeline -----------------------------
(* An instance of Pipeline, and so of Recorder, for TLC. *)
EXTENDS Pipeline, TLC

MCTime == 1 .. MaxEvents

Some(kind) == {t \in DOMAIN emitted : emitted[t].kind = kind}

\* Bound: one mirrored packet and one answer, among what is captured.
FewEmitted == Cardinality(Some("mirrored")) <= 1 /\ Cardinality(Some("answer")) <= 1

\* Bound: with a second recording two events, neither of them an answer.
FewRecorded == Cardinality(used) <= 1 \/ (Some("answer") = {} /\ Len(emitted) <= 2)

\* Bound: a signal comes with one recording and two events at most.
FewInterrupted == stopped => Cardinality(used) <= 1 /\ Len(emitted) <= 2
=============================================================================
