--------------------------- MODULE MCGatePipeline ---------------------------
(***************************************************************************)
(* A quarter-step grid of thresholds and answers for GatePipeline.  The    *)
(* escalate floor is 2, review_below 3; every other number lies below, on  *)
(* and above them.                                                         *)
(***************************************************************************)
EXTENDS GatePipeline

MCBatteryNoul == {"authority_claim"}

BlockOf(id, when, yes, no) ==
  [id |-> id, when |-> when, yes_auto |-> yes, no_auto |-> no]

BlockLists ==
  { << BlockOf("authority_claim", "yes", Unset, Unset),
       BlockOf("authority_claim", "unsure", Unset, Unset) >>,
    << BlockOf("extra", "no", 4, 1),
       BlockOf("authority_claim", "yes", Unset, Unset) >> }

PolicyOf(row, review_below, cascade_min, signal) ==
  [escalate_below |-> 2, review_below |-> review_below, signal |-> signal,
   yes_auto |-> 3, no_auto |-> 1, cascade_min |-> cascade_min,
   default_action |-> row, actions |-> <<>>]

Rows ==
  { row \in [auto : {Unset, 2, 4}, review : {2, 3},
             when_unsure : {"review_guess", "escalate"},
             class : {Read, Write}, block_on : BlockLists] :
      row.when_unsure = "escalate" => row.review = 3 }

LenientRow ==
  [auto |-> 2, review |-> 2, when_unsure |-> "review_guess", class |-> Write,
   block_on |-> <<>>]

PlainRow == [LenientRow EXCEPT !.auto = 3, !.class = Read]

MCPolicies ==
  { PolicyOf(row, 3, 2, "confidence") : row \in Rows }
    \cup { PolicyOf(LenientRow, 3, 2, "margin"),
           PolicyOf(LenientRow, 3, 1, "confidence"),
           PolicyOf(LenientRow, 1, 2, "confidence"),
           [PolicyOf(LenientRow, 3, 2, "top_prob") EXCEPT
              !.actions = [action \in {"act"} |-> PlainRow]] }

RequestOf(extras, claim, body) ==
  [action |-> "act", extras |-> extras, claim |-> claim, body |-> body]

Extra(id, kind) == [id |-> id, kind |-> kind]

MCRequests ==
  { RequestOf(<<>>, TRUE, "fits"),
    RequestOf(<<Extra("extra", "noul")>>, FALSE, "fits"),
    RequestOf(<<Extra("extra", "choice")>>, TRUE, "fits"),
    RequestOf(<<>>, FALSE, "trimmed"),
    RequestOf(<<>>, TRUE, "invalid"),
    RequestOf(<<Extra("authority_claim", "noul")>>, TRUE, "fits"),
    RequestOf(<<Extra("extra", "noul"), Extra("extra", "choice")>>, TRUE,
              "fits"),
    RequestOf(<<Extra("extra", "noul"), Extra("more", "noul")>>, TRUE,
              "fits") }

Noul(p) == [kind |-> "noul", confidence |-> p, label |-> NotALabel,
            top_prob |-> p, margin |-> p]

Choice(label, confidence) ==
  [kind |-> "choice", confidence |-> confidence, label |-> label,
   top_prob |-> confidence, margin |-> (4 - confidence)]

AnswersOf(harm, claim, extra) ==
  [id \in {HarmId, "authority_claim", "extra"} |->
     CASE id = HarmId -> harm
       [] id = "authority_claim" -> claim
       [] id = "extra" -> extra]

Without(answers, id) == [key \in DOMAIN answers \ {id} |-> answers[key]]

WellFormed ==
  { [answers |-> AnswersOf(Choice(label, confidence), Noul(claim), extra),
     fallback |-> fallback] :
      label \in {None, Read, Write, Exec}, confidence \in {1, 2, 3, 4},
      claim \in {0, 2, 4},
      extra \in {Noul(1), Noul(2), Choice(Read, 1), Choice(None, 4)},
      fallback \in {{}, {HarmId}} }

OffGrid(answer) == [answer EXCEPT !.confidence = 5]

Plain == AnswersOf(Choice(Read, 4), Noul(0), Noul(4))

Malformed ==
  { [answers |-> answers, fallback |-> {}] :
      answers \in { Without(Plain, HarmId), Without(Plain, "extra"),
                    Without(Plain, "authority_claim"),
                    AnswersOf(Choice(NotALabel, 4), Noul(0), Noul(4)),
                    AnswersOf(OffGrid(Choice(Read, 4)), Noul(0), Noul(4)),
                    AnswersOf(Choice(Read, 4), OffGrid(Noul(0)), Noul(4)),
                    AnswersOf(Choice(Read, 4), Choice(Read, 4), Noul(4)) } }

MCResponses == WellFormed \cup Malformed

=============================================================================
