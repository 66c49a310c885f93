--------------------------- MODULE MCJournalStore ---------------------------
(* Two processes, two effects and one resource whose observations reach    *)
(* rollback, preservation and (when nothing is reported) continuation.     *)
EXTENDS JournalStore

CONSTANTS p, q, account, identity, noIdentity, noResource

MCWriters == {p, q}
MCSymmetry == Permutations(MCWriters)
MCResourceIds == {account}
MCIdentities == {identity}
Observed(state, published) ==
    [identity |-> identity, state |-> state, published |-> published,
     used |-> FALSE, modified |-> FALSE]
MCObservations == {Observed("owned-empty", FALSE), Observed("published", TRUE)}
=============================================================================
