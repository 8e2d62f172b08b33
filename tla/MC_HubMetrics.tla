----------------------------- MODULE MC_HubMetrics -----------------------------
(***************************************************************************)
(* Two concurrent request goroutines serving four requests through         *)
(* RegisterHandler's paths, with the 10000/5000 trim scaled to 2/1 so the  *)
(* trim happens and happens again.                                         *)
(***************************************************************************)
EXTENDS HubMetrics

\* the vocabulary words each call-site literal contains
MentionTable ==
    [weak_password |-> {"password"},
     security_switch_forward_failed |-> {},
     security_switch_timeout |-> {"timeout"},
     registration_rejected_by_security_switch |-> {}]

MCMentions(s, w) == w \in MentionTable[s]

Created      == [status |-> 201, calls |-> <<[op |-> "registration", success |-> TRUE]>>]
WeakPassword == [status |-> 400, calls |-> <<[op |-> "validation", reason |-> "weak_password"]>>]
SwitchTimeout ==
    [status |-> 504,
     calls |-> <<[op |-> "error", type |-> "security_switch_forward_failed"],
                 [op |-> "error", type |-> "security_switch_timeout"],
                 [op |-> "registration", success |-> FALSE]>>]
Rejected ==
    [status |-> 400,
     calls |-> <<[op |-> "registration", success |-> FALSE],
                 [op |-> "error", type |-> "registration_rejected_by_security_switch"]>>]
BadJson      == [status |-> 400, calls |-> <<>>]

MCOutcomes == {Created, WeakPassword, SwitchTimeout, Rejected, BadJson}

=============================================================================
