---------------------------- MODULE MCRequestLog ----------------------------
(***************************************************************************)
(* The instance of RequestLog for TLC, with a history variable: whether    *)
(* the updates of the JSON log have left each other alone so far.          *)
(***************************************************************************)
EXTENDS RequestLog

VARIABLE spaced  \* there was never more than one update under way

MCInit == Init /\ spaced = TRUE

\* An update is under way from its read on; one that was cut off stays so.
UnderWay(e) == jsonOp[e] \in {"reading", "truncating", "writing", "lost"}

OneAtMost == \A d, e \in Entries : UnderWay(d) /\ UnderWay(e) => d = e

MCNext == Next /\ spaced' = (spaced /\ OneAtMost')

MCSpec == MCInit /\ [][MCNext]_<<vars, spaced>> /\ Fairness

\* logging_middleware.js:149-163: reading, extending and writing back is enough
\* as long as updates do not overlap: then the JSON log is an array that holds
\* each entry whose update succeeded, whether or not the file was there at the
\* start.  Spacing the responses is not enough for it: one response of the alias
\* starts two updates when the file is there.
SpacedUpdatesKeepAll == spaced => JsonIsComplete
=============================================================================
