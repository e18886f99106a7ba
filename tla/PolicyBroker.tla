---------------------------- MODULE PolicyBroker ----------------------------
(***************************************************************************)
(* PolicyBroker.evaluate: the decision on one permission request, a pure    *)
(* function of the rules and of which of them have expired by now.  The     *)
(* pattern match is abstracted to the set of requests a rule matches.       *)
(***************************************************************************)
EXTENDS Naturals, Sequences

CONSTANTS
  Requests,  \* the permission requests of one tool call
  Rules      \* the broker's rules, in the order they were given

Decisions == {"ALLOW", "DENY", "REQUIRE_APPROVAL"}

Rule == [matches : SUBSET Requests, length : Nat, decision : Decisions,
         requireApproval : BOOLEAN, expires : BOOLEAN]

ASSUME RequestsAssumption == Requests # {}
ASSUME RulesAssumption == Rules \in Seq(Rule)

Expiring == {i \in DOMAIN Rules : Rules[i].expires}

Matching(request, expired) ==
  {i \in DOMAIN Rules : request \in Rules[i].matches /\ i \notin expired}

\* The stable sort by pattern length, longest first.
Precedes(i, j) ==
  \/ Rules[i].length > Rules[j].length
  \/ Rules[i].length = Rules[j].length /\ i <= j

\* Its first element.
MostSpecific(matching) == CHOOSE i \in matching : \A j \in matching : Precedes(i, j)

Evaluate(request, expired) ==
  LET matching == Matching(request, expired)
      rule == Rules[MostSpecific(matching)]
  IN  IF matching = {} \/ rule.decision = "DENY" THEN "DENY"
      ELSE IF rule.requireApproval \/ rule.decision = "REQUIRE_APPROVAL"
           THEN "REQUIRE_APPROVAL"
           ELSE "ALLOW"

=============================================================================
