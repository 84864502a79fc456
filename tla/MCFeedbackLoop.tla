--------------------------- MODULE MCFeedbackLoop ---------------------------
(* No repository, InMemoryFeedbackRepository, which lacks the hooks of an     *)
(* evaluation, and InMemoryStorageRepository, which has them all.            *)
EXTENDS FeedbackLoop

MCRepositories ==
    {{}, {"feedback", "improvement_task", "log", "error"}, Hooks}

MCTexts == {"freshness", Nothing}

Checked(failed, rejected) ==
    [failed |-> failed, stale |-> FALSE, uncited |-> FALSE, rejected |-> rejected]
MCValidations == {Nothing, Checked({}, TRUE)}

ReviewOf(id, rating) == [kind |-> "feedback", id |-> id, rating |-> rating, category |-> Nothing]
MCReviewed == {ReviewOf(0, "partially_useful"), ReviewOf(-1, "incorrect")}
=============================================================================
