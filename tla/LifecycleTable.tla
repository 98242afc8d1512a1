--------------------------- MODULE LifecycleTable ---------------------------
(***************************************************************************)
(* The registration state machine as data: its states, its events and the  *)
(* transition table of state-machine-definition.js.  The table is a set of *)
(* rows <<from, event, to>>, so that "no row" is "not allowed".            *)
(***************************************************************************)

States == {"DRAFT", "REVIEWED", "APPROVED", "REGISTERED", "REJECTED"}

Events == {"submit_for_review", "approve", "reject", "register",
           "revert_to_draft"}

Transitions ==
  { <<"DRAFT",    "submit_for_review", "REVIEWED">>,
    <<"REVIEWED", "approve",           "APPROVED">>,
    <<"REVIEWED", "reject",            "REJECTED">>,
    <<"REVIEWED", "revert_to_draft",   "DRAFT">>,
    <<"APPROVED", "register",          "REGISTERED">>,
    <<"APPROVED", "reject",            "REJECTED">>,
    <<"APPROVED", "revert_to_draft",   "DRAFT">>,
    <<"REJECTED", "revert_to_draft",   "DRAFT">> }

InitialState == "DRAFT"

IsTerminal(s) == s = "REGISTERED"
=============================================================================
