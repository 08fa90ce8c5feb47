---------------------------- MODULE DirectoryGate ----------------------------
(***************************************************************************)
(* What Wordwarden promises of its directory, without saying how: the      *)
(* directory is asked only on behalf of genuine requests, about each of    *)
(* them at most once in the life of a process, and never about more        *)
(* requests of a connector at a time than its concurrency limit.           *)
(***************************************************************************)
EXTENDS Integers, FiniteSets

CONSTANTS
    Requests,    \* calls that may be made to Wordwarden
    Messages,    \* what they may carry
    NoMessage,
    Genuine,     \* the messages that are signed and addressed as they should be
    Capacity     \* Capacity[c]: the concurrency limit of connector c

VARIABLES
    phase,       \* of each call: waiting, consulting, answered or gone
    question     \* the message about which it asked the directory

vars == <<phase, question>>

Init ==
    /\ phase = [r \in Requests |-> "waiting"]
    /\ question = [r \in Requests |-> NoMessage]

\* The calls that have the directory busy for connector c.
Consulting(c) ==
    {r \in Requests : phase[r] = "consulting" /\ question[r].connector = c}

Consult(r, m) ==
    /\ phase[r] = "waiting"
    /\ m \in Genuine
    /\ \A q \in Requests : question[q] # m
    /\ Cardinality(Consulting(m.connector)) < Capacity[m.connector]
    /\ phase' = [phase EXCEPT ![r] = "consulting"]
    /\ question' = [question EXCEPT ![r] = m]

Conclude(r) ==
    /\ phase[r] = "consulting"
    /\ phase' = [phase EXCEPT ![r] = "answered"]
    /\ UNCHANGED question

Refuse(r) ==
    /\ phase[r] = "waiting"
    /\ phase' = [phase EXCEPT ![r] = "answered"]
    /\ UNCHANGED question

\* The process ends with the calls it had received; what it knew is forgotten.
Restart ==
    /\ \E kept \in SUBSET {r \in Requests : phase[r] = "waiting"} :
          phase' = [r \in Requests |-> IF r \in kept THEN "waiting" ELSE "gone"]
    /\ question' = [r \in Requests |-> NoMessage]

Next ==
    \/ \E r \in Requests :
          \/ \E m \in Messages : Consult(r, m)
          \/ Conclude(r)
          \/ Refuse(r)
    \/ Restart

Spec == Init /\ [][Next]_vars
=============================================================================
