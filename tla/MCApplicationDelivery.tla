------------------------ MODULE MCApplicationDelivery ------------------------
(* Instances of ApplicationDelivery for TLC: bounds and timing of behaviours. *)
EXTENDS ApplicationDelivery

Ordinary == [edits |-> 2, faults |-> 1, aborts |-> 1, reject |-> FALSE,
             stale |-> FALSE, eager |-> FALSE, pinned |-> FALSE, slow |-> TRUE]

\* Reconciles start on lagging caches; something fails, or a canary does.
Lagging == {[Ordinary EXCEPT !.stale = TRUE, !.aborts = 0],
            [Ordinary EXCEPT !.stale = TRUE, !.faults = 0]}

\* Specs are edited whatever is under way, and pods are fast.
Eager == [Ordinary EXCEPT !.faults = 0, !.aborts = 0, !.eager = TRUE, !.slow = FALSE]

\* Policy may reject an Application at any reconcile.
Rejecting == [Eager EXCEPT !.edits = 1, !.reject = TRUE]

\* A migration is taken back before it has ended.
Reverting == [Ordinary EXCEPT !.faults = 0, !.aborts = 0, !.eager = TRUE]

\* Images are pinned to digests in the Application's image reference.
Pinned == [Ordinary EXCEPT !.edits = 1, !.faults = 0, !.aborts = 0, !.pinned = TRUE]

MCSettling == {Ordinary}
MCHazards == Lagging \cup {Eager, Rejecting}
MCReverting == {Reverting}
MCPinned == {Pinned}
=============================================================================
