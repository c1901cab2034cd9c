------------------------- MODULE CheckConfigProofs -------------------------
(***************************************************************************)
(* Proofs about CheckConfig, for any finite roster.                        *)
(***************************************************************************)
EXTENDS CheckConfig, FiniteSetTheorems, TLAPS

Good == {s \in received : answer[s] = "reply"}

\* What is received was answered; an error is the last thing received.
ErrorsEndTheCheck ==
    \A s \in received : answer[s] = "reply" \/ (answer[s] = "error" /\ verdict = "error")

CheckInv == KTypeOK /\ ErrorsEndTheCheck /\ VerdictIsTrue

\* As many good replies as servers are a good reply of every server.
LEMMA AllGood ==
    ASSUME KTypeOK, counter = Cardinality(Roster)
    PROVE  \A s \in Roster : answer[s] = "reply"
  <1>1. Good \in SUBSET Roster
    BY DEF Good, KTypeOK
  <1>2. Cardinality(Good) = Cardinality(Roster)
    BY DEF Good, KTypeOK
  <1>3. Good = Roster
    BY <1>1, <1>2, RosterAssumption, FS_Subset
  <1> QED
    BY <1>3 DEF Good

LEMMA CheckInvInit ==
    ASSUME KInit
    PROVE  CheckInv
  <1>1. {s \in received : answer[s] = "reply"} = {}
    BY DEF KInit
  <1>2. counter = Cardinality({s \in received : answer[s] = "reply"})
    BY <1>1, FS_EmptySet DEF KInit
  <1> QED
    BY <1>2 DEF KInit, CheckInv, KTypeOK, ErrorsEndTheCheck, VerdictIsTrue

\* The steps that receive nothing.
LEMMA NothingReceived ==
    ASSUME CheckInv, CheckRoster \/ TimeoutFires \/ TakeTimeout \/ AllCounted
    PROVE  CheckInv'
  <1>1. UNCHANGED <<answer, received, counter>>
    BY DEF CheckRoster, TimeoutFires, TakeTimeout, AllCounted
  <1>2. verdict' = "nil" => \A s \in Roster : answer[s] = "reply"
    BY AllGood DEF CheckRoster, TimeoutFires, TakeTimeout, AllCounted, CheckInv, VerdictIsTrue
  <1>3. verdict' = "error" <=> verdict = "error"
    BY DEF CheckRoster, TimeoutFires, TakeTimeout, AllCounted, Waiting
  <1>4. timeout' \in BOOLEAN /\ verdict' \in {"idle", "none", "nil", "error", "timeout"}
    BY DEF CheckRoster, TimeoutFires, TakeTimeout, AllCounted, CheckInv, KTypeOK
  <1> QED
    BY <1>1, <1>2, <1>3, <1>4 DEF CheckInv, KTypeOK, ErrorsEndTheCheck, VerdictIsTrue

\* An answer that arrives has not been received.
LEMMA Answers ==
    ASSUME CheckInv, NEW r \in Roster, Answer(r)
    PROVE  CheckInv'
  <1>1. r \notin received
    BY DEF Answer, CheckInv, ErrorsEndTheCheck
  <1>2. answer' \in [Roster -> {"none", "reply", "error"}]
    BY DEF Answer, CheckInv, KTypeOK
  <1>3. \A s \in Roster : s # r => answer'[s] = answer[s]
    BY DEF Answer, CheckInv, KTypeOK
  <1>4. UNCHANGED <<received, counter, timeout, verdict>> /\ answer[r] = "none"
    BY DEF Answer
  <1>5. \A s \in received : answer'[s] = answer[s]
    BY <1>1, <1>3 DEF CheckInv, KTypeOK
  <1>6. {s \in received : answer'[s] = "reply"} = {s \in received : answer[s] = "reply"}
    BY <1>5
  <1>7. KTypeOK'
    BY <1>2, <1>4, <1>6 DEF CheckInv, KTypeOK
  <1>8. ErrorsEndTheCheck'
    BY <1>4, <1>5 DEF CheckInv, ErrorsEndTheCheck
  <1>9. VerdictIsTrue'
    BY <1>3, <1>4 DEF CheckInv, VerdictIsTrue
  <1> QED
    BY <1>7, <1>8, <1>9 DEF CheckInv

LEMMA Replies ==
    ASSUME CheckInv, NEW r \in Roster, TakeReply(r)
    PROVE  CheckInv'
  <1>1. Good' = Good \cup {r} /\ r \notin Good
    BY DEF TakeReply, Good
  <1>2. IsFiniteSet(Good)
    BY RosterAssumption, FS_Subset DEF Good, CheckInv, KTypeOK
  <1>3. Cardinality(Good') = Cardinality(Good) + 1
    BY <1>1, <1>2, FS_AddElement
  <1>4. counter' = Cardinality(Good')
    BY <1>3 DEF TakeReply, Good, CheckInv, KTypeOK
  <1>5. KTypeOK'
    BY <1>4 DEF TakeReply, Good, CheckInv, KTypeOK
  <1> QED
    BY <1>5 DEF TakeReply, Waiting, CheckInv, ErrorsEndTheCheck, VerdictIsTrue

LEMMA Errors ==
    ASSUME CheckInv, NEW r \in Roster, TakeError(r)
    PROVE  CheckInv'
  <1>1. Good' = Good
    BY DEF TakeError, Good
  <1>2. KTypeOK'
    BY <1>1 DEF TakeError, Good, CheckInv, KTypeOK
  <1> QED
    BY <1>2 DEF TakeError, Waiting, CheckInv, ErrorsEndTheCheck, VerdictIsTrue

LEMMA CheckInvAlways == KSpec => []CheckInv
  <1>1. ASSUME CheckInv, [KNext]_kvars
        PROVE  CheckInv'
    <2>1. CASE KNext
      BY <1>1, <2>1, NothingReceived, Answers, Replies, Errors DEF KNext, Command
    <2>2. CASE UNCHANGED kvars
      BY <1>1, <2>2 DEF kvars, CheckInv, KTypeOK, ErrorsEndTheCheck, VerdictIsTrue
    <2> QED
      BY <1>1, <2>1, <2>2
  <1> QED
    BY CheckInvInit, <1>1, PTL DEF KSpec

-----------------------------------------------------------------------------
\* The counter of checkConfig counts good replies and nothing else, in every
\* order of replies, errors and the timeout.
THEOREM CheckTypeOK == KSpec => []KTypeOK
  <1>1. CheckInv => KTypeOK
    BY DEF CheckInv
  <1> QED
    BY <1>1, CheckInvAlways, PTL

\* conode check says "all fine" only if every server of the roster answered
\* well, and fails only if one of them did, for a roster of any size.
THEOREM CheckTellsTheTruth == KSpec => []VerdictIsTrue
  <1>1. CheckInv => VerdictIsTrue
    BY DEF CheckInv
  <1> QED
    BY <1>1, CheckInvAlways, PTL
=============================================================================
