------------------------- MODULE MCJournalLifecycle -------------------------
(* Three effects, three resource ids of which a journal holds at most two, and the     *)
(* observations that reach every branch of assess_recovery.                *)
EXTENDS JournalLifecycle

CONSTANTS account, home, root, identity, otherIdentity, noIdentity, noResource

Observed(id, state, published, used, modified) ==
    [identity |-> id, state |-> state, published |-> published,
     used |-> used, modified |-> modified]

MCObservations ==
    {Observed(identity, "not-created", FALSE, FALSE, FALSE),
     Observed(identity, "owned-empty", FALSE, FALSE, FALSE),
     Observed(identity, "owned-modified", FALSE, TRUE, TRUE),
     Observed(identity, "published", TRUE, FALSE, FALSE),
     Observed(noIdentity, "identity-uncertain", FALSE, FALSE, FALSE),
     Observed(identity, "foreign-or-conflicting", FALSE, FALSE, FALSE),
     Observed(identity, "owned-empty", TRUE, FALSE, FALSE),
     Observed(otherIdentity, "owned-empty", FALSE, FALSE, FALSE)}

MCResourceIds == {account, home, root}
MCIdentities == {identity, otherIdentity}
=============================================================================
