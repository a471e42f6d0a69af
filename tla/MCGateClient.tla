---------------------------- MODULE MCGateClient ----------------------------
(***************************************************************************)
(* Two callers of one client with a cache of one entry.                    *)
(***************************************************************************)
EXTENDS GateClient

MCBatteryNoul == {"authority_claim"}

PolicyOf(escalate_below, shipped_id) ==
  [escalate_below |-> escalate_below, review_below |-> 2,
   signal |-> "confidence", yes_auto |-> 2, no_auto |-> 0,
   cascade_min |-> 2, fail |-> "open", shadow |-> "off",
   shipped_id |-> shipped_id,
   default_action |->
     [auto |-> 2, review |-> 1, when_unsure |-> "escalate", class |-> Read,
      block_on |-> <<>>],
   actions |-> <<>>]

Shipped == PolicyOf(1, "tool-gate")
Broken == PolicyOf(0, "")

RequestOf(name, body) ==
  [action |-> name, extras |-> <<>>, claim |-> FALSE, body |-> body]

CallOf(request, policy) ==
  [request |-> request, policy |-> policy, model |-> "jev-latest"]

MCCalls ==
  { CallOf(RequestOf("a", "fits"), Shipped),
    CallOf(RequestOf("b", "invalid"), Shipped),
    CallOf(RequestOf("b", "fits"), Broken) }

Harm(confidence) ==
  [kind |-> "choice", confidence |-> confidence, label |-> Read,
   top_prob |-> confidence, margin |-> confidence]
Noul(p) ==
  [kind |-> "noul", confidence |-> p, label |-> NotALabel, top_prob |-> p,
   margin |-> p]

ResponseOf(harm) ==
  [answers |-> [id \in {HarmId, "authority_claim"} |->
                  IF id = HarmId THEN harm ELSE Noul(0)],
   fallback |-> {}]

MCResponses == { ResponseOf(Harm(2)), ResponseOf(Harm(3)) }

MCOverrides ==
  { [fail |-> "unset", shadow |-> "unset"], [fail |-> "closed", shadow |-> "on"] }
FailOnly == [fail : {"unset", "closed"}, shadow : {"unset"}]

=============================================================================
