------------------------------- MODULE Validation -------------------------------
(***************************************************************************)
(* Message validation of publish-subscribe (core/src/pubsub/validation.rs) *)
(* as GossipSubService sets it up: a BasicValidator and then a             *)
(* StreamDataValidator, which limits the rate of each source with a fixed  *)
(* window and keeps the last sequence number of each track of a stream.    *)
(*                                                                         *)
(* Each tracker has a mutex of its own, and a call changes one after the   *)
(* other without looking back, so a call is one step.  A message is what   *)
(* the checks tell apart; a source that is neither given nor named in the  *)
(* message is Nobody.                                                      *)
(***************************************************************************)
EXTENDS Integers, Sequences, FiniteSets, SequencesExt

CONSTANTS
    Senders,            \* source peers
    Tracks,             \* stream_id:track_id
    TrackSequences,     \* sequence numbers a segment may carry
    MaxPerSecond,       \* max_messages_per_second
    Second,             \* ticks of the clock in a second
    MaxTime,            \* bound: the clock
    MaxValidations      \* bound: messages validated

ASSUME ValidationAssumption ==
    /\ TrackSequences \subseteq Nat
    /\ {MaxPerSecond, Second} \subseteq Nat \ {0} /\ {MaxTime, MaxValidations} \subseteq Nat

VARIABLES
    now,
    rate_tracker,       \* count and window start of each source, <<>> for none
    sequence_tracker,   \* last number of each track, <<>> for none
    passed,             \* ghost: times at which a stream message of a source was accepted
    sent,               \* ghost: times at which a source's rate was looked at
    validations

validatorVars == <<now, rate_tracker, sequence_tracker, passed, sent, validations>>

Nobody == "nobody"

\* A segment of a track in order, and messages that one check or another stops
Segments == [fault : {"none"}, track : Tracks, sequence : TrackSequences]
Faults == {"oversized", "expired", "forbidden publisher", "other topic", "garbled",
           "incompatible version", "unknown media type"}
PubSubMessages == Segments \cup [fault : Faults, track : Tracks, sequence : TrackSequences]

ValidatorInit ==
    /\ now = 0 /\ validations = 0
    /\ rate_tracker = [s \in Senders |-> <<>>]
    /\ sequence_tracker = [t \in Tracks |-> <<>>]
    /\ passed = [s \in Senders |-> <<>>]
    /\ sent = [s \in Senders |-> <<>>]

Tick == now < MaxTime /\ now' = now + 1
        /\ UNCHANGED <<rate_tracker, sequence_tracker, passed, sent, validations>>

-----------------------------------------------------------------------------
\* BasicValidator::validate
basic_validate(m) ==
    CASE m.fault = "oversized" -> "Reject"
      [] m.fault = "expired" -> "Ignore"
      [] m.fault = "forbidden publisher" -> "Reject"
      [] OTHER -> "Accept"

\* Mutant: the message that opens a window is not counted
OpenUncounted(s) ==
    LET e == IF rate_tracker[s] = <<>> THEN [count |-> 0, start |-> now] ELSE rate_tracker[s][1]
    IN IF now - e.start >= Second THEN [allowed |-> TRUE, entry |-> [count |-> 0, start |-> now]]
       ELSE [allowed |-> e.count + 1 <= MaxPerSecond, entry |-> [e EXCEPT !.count = @ + 1]]

\* Mutant: the window is a tick too long
WindowTooLong(s) ==
    LET e == IF rate_tracker[s] = <<>> THEN [count |-> 0, start |-> now] ELSE rate_tracker[s][1]
    IN IF now - e.start > Second THEN [allowed |-> TRUE, entry |-> [count |-> 1, start |-> now]]
       ELSE [allowed |-> e.count + 1 <= MaxPerSecond, entry |-> [e EXCEPT !.count = @ + 1]]

\* The source's entry after one more message, and whether it is allowed
check_rate_limit(s) ==
    LET e == IF rate_tracker[s] = <<>> THEN [count |-> 0, start |-> now] ELSE rate_tracker[s][1]
    IN IF now - e.start >= Second THEN [allowed |-> TRUE, entry |-> [count |-> 1, start |-> now]]
       ELSE [allowed |-> e.count + 1 <= MaxPerSecond, entry |-> [e EXCEPT !.count = @ + 1]]

\* Gaps and older numbers are only logged
check_sequence(t, n) == IF sequence_tracker[t] = <<n>> THEN "Ignore" ELSE "Accept"

IsStreamData(m) == m.fault # "other topic"

\* What the StreamDataValidator says of a message that is within the rate
wire_validate(m) ==
    IF m.fault = "none" THEN check_sequence(m.track, m.sequence) ELSE "Reject"

\* The composite: the first verdict that is not Accept is the verdict
Verdict(m, s) ==
    CASE basic_validate(m) # "Accept" -> basic_validate(m)
      [] ~IsStreamData(m) -> "Accept"
      [] s \in Senders /\ ~check_rate_limit(s).allowed -> "Reject"
      [] OTHER -> wire_validate(m)

\* A message beyond the rate, and one that is malformed, count in the window too
validate(m, s) ==
    /\ validations < MaxValidations
    /\ validations' = validations + 1
    /\ LET limited == basic_validate(m) = "Accept" /\ IsStreamData(m) /\ s \in Senders
           accepted == IsStreamData(m) /\ Verdict(m, s) = "Accept"
       IN /\ rate_tracker' = IF limited
                             THEN [rate_tracker EXCEPT ![s] = <<check_rate_limit(s).entry>>]
                             ELSE rate_tracker
          /\ sequence_tracker' = IF accepted
                                 THEN [sequence_tracker EXCEPT ![m.track] = <<m.sequence>>]
                                 ELSE sequence_tracker
          /\ passed' = IF accepted /\ s \in Senders
                       THEN [passed EXCEPT ![s] = Append(@, now)] ELSE passed
          /\ sent' = IF limited THEN [sent EXCEPT ![s] = Append(@, now)] ELSE sent
    /\ UNCHANGED now

\* CompositeValidator::async_validate runs every synchronous validation again
async_validate(m, s) == validate(m, s)

\* GossipSubService::publish_message: no source, and the publisher is not set
publish_message(m) == validate(m, Nobody)

ValidatorNext ==
    \/ Tick
    \/ \E m \in PubSubMessages :
          publish_message(m) \/ \E s \in Senders : validate(m, s) \/ async_validate(m, s)

ValidatorSpec == ValidatorInit /\ [][ValidatorNext]_validatorVars

-----------------------------------------------------------------------------
\* The places of s whose value is in A
Places(s, A) == {i \in DOMAIN s : s[i] \in A}

\* The fixed window lets at most twice max_messages_per_second of one source's stream
\* messages through within any second, however they lie across windows.
RateHonoured ==
    \A s \in Senders, t \in 0..MaxTime :
        Cardinality(Places(passed[s], t .. t + Second - 1)) <= 2 * MaxPerSecond

\* Nobody is refused for the rate who keeps to it: when a source's next stream message
\* would be refused, it has sent max_messages_per_second within the last second,
\* whatever it sent in earlier windows.
RefusedForCause ==
    \A s \in Senders : ~check_rate_limit(s).allowed =>
        Cardinality(Places(sent[s], now - Second + 1 .. now)) >= MaxPerSecond
=============================================================================
