---------------------------- MODULE MCStepLedger ----------------------------
(* Three actions in at most four rows, two handlers and one call of the    *)
(* API: each kind of call alone, also with numbers that its caller gives,  *)
(* failures, also of a removal and beside moves and updates, and calls that*)
(* run beside each other, with two actions.                                *)
EXTENDS StepLedger
CONSTANTS s1, s2, e1

MCSyncs == {s1, s2}
MCEdits == {e1}
MCSettings == {{"fails"}, {"fails", "remove"}, {"fails", "move"},
               {"create"}, {"insert"}, {"remove"}, {"move"},
               {"create", "given"}, {"update", "given"}, {"update", "move", "given", "fails"},
               {"beside"}, {"remove", "edits"}}
=============================================================================
