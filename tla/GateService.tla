---------------------------- MODULE GateService ----------------------------
(***************************************************************************)
(* What Client::gate promises its callers, with the cache and the log as   *)
(* they look from outside.  Every answer is either freshly judged for the  *)
(* call, or one that was judged for a call with the same key at most TTL   *)
(* ago and was not the verdict of a failed scorer; the scorer is not asked *)
(* while such a verdict is remembered, and reusing one does not make it    *)
(* younger.  An answer is published in the log before anybody sees it;     *)
(* when it cannot be, the caller gets an escalation in its place.          *)
(*                                                                         *)
(* The service may forget what it remembers at any moment, and a caller    *)
(* may give up while the scorer works.                                     *)
(***************************************************************************)
EXTENDS Integers

CONSTANTS
  Callers, Calls,
  TTL,
  Modes,            \* how the host may have set the client up
  Fresh(_, _),      \* the verdicts a call may freshly be given in a mode
  KeyOf(_, _),      \* what two calls share when one may reuse the other's
  Reusable(_),      \* the verdict may be remembered
  Nothing,          \* no answer
  Unpublished       \* the answer that stands in for an unpublished one

VARIABLES
  phase,       \* "idle", "asked", "scoring", "decided", "published"
  ticket,      \* the call each caller asked about
  answer,      \* the answer each caller will see
  fresh,       \* the answer was judged for this very call
  memory,      \* set of [key, verdict, at]
  clock,
  mode

svars == <<phase, ticket, answer, fresh, memory, clock, mode>>

Forgets == memory' \subseteq memory

Init ==
  /\ phase = [c \in Callers |-> "idle"]
  /\ ticket \in [Callers -> Calls]
  /\ answer = [c \in Callers |-> Nothing]
  /\ fresh = [c \in Callers |-> FALSE]
  /\ memory = {}
  /\ clock = 0
  /\ mode \in Modes

Ask(c) ==
  /\ phase[c] = "idle"
  /\ phase' = [phase EXCEPT ![c] = "asked"]
  /\ \E call \in Calls : ticket' = [ticket EXCEPT ![c] = call]
  /\ fresh' = [fresh EXCEPT ![c] = FALSE]
  /\ UNCHANGED <<answer, clock, mode>>
  /\ Forgets

Alive(c, entry) ==
  /\ entry.key = KeyOf(ticket[c], mode)
  /\ clock - entry.at <= TTL

(* Nothing to reuse: the call has to be judged.                            *)
Consult(c) ==
  /\ phase[c] = "asked"
  /\ \A entry \in memory : ~Alive(c, entry)
  /\ phase' = [phase EXCEPT ![c] = "scoring"]
  /\ UNCHANGED <<ticket, answer, fresh, clock, mode>>
  /\ Forgets

Judged(c) ==
  /\ phase[c] = "scoring"
  /\ phase' = [phase EXCEPT ![c] = "decided"]
  /\ \E verdict \in Fresh(ticket[c], mode) : answer' = [answer EXCEPT ![c] = verdict]
  /\ fresh' = [fresh EXCEPT ![c] = TRUE]
  /\ UNCHANGED <<ticket, clock, mode>>
  /\ Forgets

Reused(c) ==
  /\ phase[c] = "asked"
  /\ phase' = [phase EXCEPT ![c] = "decided"]
  /\ \E entry \in memory :
       /\ Alive(c, entry)
       /\ answer' = [answer EXCEPT ![c] = entry.verdict]
  /\ fresh' = [fresh EXCEPT ![c] = FALSE]
  /\ UNCHANGED <<ticket, clock, mode>>
  /\ Forgets

(* The call itself is refused, or its caller gives up.                     *)
Abandoned(c) ==
  /\ phase[c] = "scoring"
  /\ phase' = [phase EXCEPT ![c] = "idle"]
  /\ answer' = [answer EXCEPT ![c] = Nothing]
  /\ UNCHANGED <<ticket, fresh, clock, mode>>
  /\ Forgets

Published(c) ==
  /\ phase[c] = "decided"
  /\ phase' = [phase EXCEPT ![c] = "published"]
  /\ UNCHANGED <<ticket, answer, fresh, clock, mode>>
  /\ Forgets

NotPublished(c) ==
  /\ phase[c] = "decided"
  /\ phase' = [phase EXCEPT ![c] = "idle"]
  /\ answer' = [answer EXCEPT ![c] = Unpublished]
  /\ UNCHANGED <<ticket, fresh, clock, mode>>
  /\ Forgets

(* Only a fresh verdict is remembered, as of now.                          *)
Replied(c) ==
  /\ phase[c] = "published"
  /\ phase' = [phase EXCEPT ![c] = "idle"]
  /\ LET entry == [key |-> KeyOf(ticket[c], mode), verdict |-> answer[c],
                   at |-> clock]
     IN  memory' \subseteq
           memory \cup (IF fresh[c] /\ Reusable(answer[c]) THEN {entry}
                        ELSE {})
  /\ UNCHANGED <<ticket, answer, fresh, clock, mode>>

Elapse ==
  /\ clock' = clock + 1
  /\ UNCHANGED <<phase, ticket, answer, fresh, memory, mode>>

Forget ==
  /\ Forgets
  /\ UNCHANGED <<phase, ticket, answer, fresh, clock, mode>>

(* The host changes the set-up while nobody waits for an answer.           *)
SetUp ==
  /\ \A c \in Callers : phase[c] = "idle"
  /\ mode' \in Modes
  /\ UNCHANGED <<phase, ticket, answer, fresh, clock>>
  /\ Forgets

Next ==
  \/ \E c \in Callers :
       \/ Ask(c) \/ Consult(c) \/ Judged(c) \/ Reused(c) \/ Abandoned(c)
       \/ Published(c) \/ NotPublished(c) \/ Replied(c)
  \/ Elapse \/ SetUp
  \/ Forget

Spec == Init /\ [][Next]_svars

=============================================================================
