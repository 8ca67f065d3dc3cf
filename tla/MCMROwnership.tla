--------------------------- MODULE MCMROwnership ---------------------------
(* Instance of MROwnership: who opened the merge request, whether a Task     *)
(* drives it already, and what may happen to it.                             *)
EXTENDS MROwnership

Case(by, driven, events) == [by |-> by, driven |-> driven, events |-> events]

MRCases ==
  {Case("human", TRUE, {"comment", "takeover", "intrude"}),
   Case("human", TRUE, {"comment", "takeover", "crash"}),
   Case("human", TRUE, {"comment", "takeover", "unread"}),
   Case("human", TRUE, {"comment", "park", "reap", "lose"}),
   Case("human", FALSE, {"finish", "checks"}),
   Case("human", TRUE, {"checks", "intrude"}),
   Case("human", FALSE, {"park", "reap"}),
   Case("engine", TRUE, {"intrude", "crash"}),
   Case("engine", TRUE, {"intrude", "push"}),
   Case("engine", FALSE, {"close"}),
   Case("engine", TRUE, {"finish", "reap", "comment"}),
   Case("bot", TRUE, {"intrude", "crash"}),
   Case("bot", FALSE, {"push", "lose"}),
   Case("bot", TRUE, {"push", "lose", "unread"}),
   Case("bot", TRUE, {"note", "crash"}),
   Case("bot", TRUE, {"checks", "intrude", "lose"})}

============================================================================
