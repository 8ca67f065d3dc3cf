--------------------------- MODULE MCIssueIntake ---------------------------
(* Instance of IssueIntake: who opened the issue, and what may happen to it. *)
EXTENDS IssueIntake

Case(by, events) == [by |-> by, events |-> events]

IntakeCases ==
  {Case("stranger", {"deliver", "retry"}),
   Case("stranger", {"crash"}),
   Case("stranger", {"park"}),
   Case("listed", {"lose"}),
   Case("listed", {"close"}),
   Case("listed", {"defer"}),
   Case("brainstorm", {"park", "crash"}),
   Case("brainstorm", {"close"})}
============================================================================
