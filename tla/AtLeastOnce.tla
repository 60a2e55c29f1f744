---------------------------- MODULE AtLeastOnce ----------------------------
(***************************************************************************)
(* What a stage of the log pipeline promises for the messages it takes     *)
(* over: the ingest service for the payloads of its clients until they are *)
(* in Kafka, and the consumer group for the records of Kafka until they    *)
(* are in ClickHouse.  A message is delivered once or more often, or is    *)
(* given up on record; until then the stage keeps it where a crash of its  *)
(* processes does not reach.                                               *)
(***************************************************************************)
CONSTANT Message

VARIABLES
    accepted,   \* the messages whose sender may forget them
    kept,       \* the messages the stage would find again after a crash
    delivered,  \* the messages that the next stage has
    dropped     \* the messages given up on record

vars == <<accepted, kept, delivered, dropped>>

Init == accepted = {} /\ kept = {} /\ delivered = {} /\ dropped = {}

\* Messages are safe when a crash now would not lose them.
Safe == kept \cup delivered \cup dropped

Keep(S) ==
    /\ kept' = kept \cup S
    /\ UNCHANGED <<accepted, delivered, dropped>>

\* The senders are told: what was not safe before is kept or passed on at once.
Take(S) ==
    /\ \E K \in SUBSET S : kept' = kept \cup K
    /\ \E D \in SUBSET S : delivered' = delivered \cup D
    /\ UNCHANGED dropped
    /\ accepted' = accepted \cup S
    /\ S \subseteq Safe'

\* An attempt that fails may have delivered as well.
Deliver(S) ==
    /\ delivered' = delivered \cup S
    /\ UNCHANGED <<accepted, kept, dropped>>

\* One message makes room for others, whose senders may be told.
Drop(m, S) ==
    /\ dropped' = dropped \cup {m}
    /\ kept' \in {kept, kept \ {m}}
    /\ UNCHANGED delivered
    /\ accepted' = accepted \cup S
    /\ S \subseteq Safe'

\* The stage lets go only of what had been delivered or dropped before, or
\* belongs to nobody.
Release(S) ==
    /\ S \cap accepted \subseteq delivered \cup dropped
    /\ kept' = kept \ S
    /\ UNCHANGED <<accepted, delivered, dropped>>

Next ==
    \E S \in SUBSET Message :
        \/ Keep(S) \/ Take(S) \/ Deliver(S) \/ Release(S)
        \/ \E m \in Message : Drop(m, S)

Spec == Init /\ [][Next]_vars

\* The stage does not sit on what it has taken.
Progress == \A m \in Message : m \in accepted ~> m \in delivered \cup dropped

LiveSpec == Spec /\ Progress
=============================================================================
