---------------------------- MODULE CheckConfig ----------------------------
(***************************************************************************)
(* conode check: one goroutine per server of the roster requests its       *)
(* status and sends the reply or the error into an unbuffered channel; the *)
(* command takes them one at a time until it has all replies, an error, or *)
(* the timeout.  A server may never answer.                                *)
(***************************************************************************)
EXTENDS Naturals, FiniteSets

CONSTANT Roster    \* the servers of the group definition

ASSUME RosterAssumption == IsFiniteSet(Roster)

VARIABLES
    answer,        \* what client.Request returned: "none", "reply" or "error"
    received,      \* servers whose answer the command has received
    counter,
    timeout,       \* time.After has fired
    verdict        \* "idle", "none" while waiting, then "nil", "error" or "timeout"

kvars == <<answer, received, counter, timeout, verdict>>

-----------------------------------------------------------------------------
\* The operator runs the command; it starts the goroutines and the timeout.
CheckRoster ==
    /\ verdict = "idle"
    /\ verdict' = "none"
    /\ UNCHANGED <<answer, received, counter, timeout>>

\* client.Request returns; the goroutine then waits for the command to receive
\* its answer, for ever if the command has returned.
Answer(s) ==
    /\ verdict # "idle"
    /\ answer[s] = "none"
    /\ \E a \in {"reply", "error"} : answer' = [answer EXCEPT ![s] = a]
    /\ UNCHANGED <<received, counter, timeout, verdict>>

Waiting == verdict = "none" /\ counter < Cardinality(Roster)

\* Mutant: replies and errors come through one channel and are all counted.
TakeAnything(s) ==
    /\ Waiting
    /\ answer[s] # "none" /\ s \notin received
    /\ received' = received \cup {s}
    /\ counter' = counter + 1
    /\ UNCHANGED <<answer, timeout, verdict>>

TakeReply(s) ==
    /\ Waiting
    /\ answer[s] = "reply" /\ s \notin received
    /\ received' = received \cup {s}
    /\ counter' = counter + 1
    /\ UNCHANGED <<answer, timeout, verdict>>

\* Mutant: an answer is counted before it is looked at.
TakeErrorCounted(s) ==
    /\ Waiting
    /\ answer[s] = "error" /\ s \notin received
    /\ received' = received \cup {s}
    /\ counter' = counter + 1
    /\ verdict' = "error"
    /\ UNCHANGED <<answer, timeout>>

TakeError(s) ==
    /\ Waiting
    /\ answer[s] = "error" /\ s \notin received
    /\ received' = received \cup {s}
    /\ verdict' = "error"
    /\ UNCHANGED <<answer, counter, timeout>>

TimeoutFires ==
    /\ verdict # "idle" /\ ~timeout
    /\ timeout' = TRUE
    /\ UNCHANGED <<answer, received, counter, verdict>>

\* Mutant: the timeout is only looked at once a server has answered.
TakeTimeoutAfterReply ==
    /\ Waiting
    /\ timeout /\ counter > 0
    /\ verdict' = "timeout"
    /\ UNCHANGED <<answer, received, counter, timeout>>

\* The select may prefer the timeout to answers that are ready too.
TakeTimeout ==
    /\ Waiting
    /\ timeout
    /\ verdict' = "timeout"
    /\ UNCHANGED <<answer, received, counter, timeout>>

AllCounted ==
    /\ verdict = "none"
    /\ counter = Cardinality(Roster)
    /\ verdict' = "nil"
    /\ UNCHANGED <<answer, received, counter, timeout>>

KInit ==
    /\ answer = [s \in Roster |-> "none"]
    /\ received = {}
    /\ counter = 0
    /\ timeout = FALSE
    /\ verdict = "idle"

Command == AllCounted \/ TakeTimeout \/ \E s \in Roster : TakeReply(s) \/ TakeError(s)

KNext == CheckRoster \/ TimeoutFires \/ Command \/ \E s \in Roster : Answer(s)

KSpec == KInit /\ [][KNext]_kvars

\* The clock runs and the command is scheduled; servers promise nothing.
KFairness == WF_kvars(TimeoutFires) /\ WF_kvars(Command)

-----------------------------------------------------------------------------
\* Every variable holds what its Go declaration allows, and counter counts the
\* good replies received.
KTypeOK ==
    /\ answer \in [Roster -> {"none", "reply", "error"}]
    /\ received \subseteq Roster
    /\ counter = Cardinality({s \in received : answer[s] = "reply"})
    /\ timeout \in BOOLEAN
    /\ verdict \in {"idle", "none", "nil", "error", "timeout"}

\* The verdict tells the truth: "all fine" only after a good reply of every
\* server, and no failed one is passed over; an error only if one failed.
VerdictIsTrue ==
    /\ verdict = "nil" => \A s \in Roster : answer[s] = "reply"
    /\ verdict = "error" => \E s \in Roster : answer[s] = "error"

\* The check ends even if no server ever answers.
CheckEnds == verdict = "none" ~> verdict # "none"
=============================================================================
