---------------------------- MODULE StormProofs ----------------------------
(***************************************************************************)
(* Theorems about the storm counters of VerifyPassword: how far a counter  *)
(* overshoots its limit, what it counts and when a block ends.             *)
(***************************************************************************)
EXTENDS VerifyPasswordProofs

\* The kinds whose check and record are both made while holding a token.
Guarded == {"malformed_request", "directory_error"}

\* Where a handler is that has passed the check of a kind and may record it.
Section(kind) ==
    IF kind = "malformed_request" THEN {"record_malformed"}
                                  ELSE {"in_directory", "record_directory"}

\* The handlers in the section that may still count into the current window.
Pending(c, kind) ==
    {r \in Requests :
        /\ pc[r] \in Section(kind)
        /\ msg[r].connector = c
        /\ since[r] <= storms[c][kind].windowStart + Window}

\* Windows and blocks start in the past.
Clocked ==
    \A c \in Connectors, k \in StormKinds :
        /\ storms[c][k].windowStart <= clock
        /\ storms[c][k].blockedUntil <= clock + Block

\* While the limit is reached, nobody passes the check before the window is over,
\* and those who already did fit under the bound.
Covered(c, k) ==
    storms[c][k].count >= Limit[k] =>
        /\ storms[c][k].blockedUntil > storms[c][k].windowStart + Window
        /\ storms[c][k].count + Cardinality(Pending(c, k))
              <= Limit[k] - 1 + Capacity[c]

AllCovered == \A c \in Connectors, k \in Guarded : Covered(c, k)

LEMMA StormTypes ==
    ASSUME Base, NEW c \in Connectors, NEW k \in StormKinds
    PROVE  /\ storms[c][k] \in StormState
           /\ storms[c][k].windowStart \in Int /\ storms[c][k].blockedUntil \in Int
           /\ storms[c][k].count \in Nat
           /\ Limit[k] \in Nat /\ Limit[k] >= 1 /\ Window \in Nat /\ Window >= 1
           /\ Block \in Nat /\ Block >= 1 /\ Capacity[c] \in Nat /\ Capacity[c] >= 1
<1>1. storms[c][k] \in StormState
    BY DEF Base, Typed
<1> QED
    BY <1>1, StormAssumption, CapacityType DEF StormState, Never

\* What one event does to a storm state that is Clocked.
LEMMA RecordEffect ==
    ASSUME Base, Clocked, NEW c \in Connectors, NEW k \in StormKinds,
           NEW now \in Nat, now <= clock
    PROVE  LET s == storms[c][k]
               t == Record(s, k, now)
           IN  /\ t \in StormState /\ t.windowStart <= clock
               /\ t.blockedUntil <= clock + Block
               /\ t.count <= s.count + 1
               /\ t.blockedUntil = s.blockedUntil \/ t.blockedUntil = now + Block
               /\ \/ t.windowStart = now /\ t.count = 1
                  \/ /\ t.windowStart = s.windowStart /\ t.count = s.count + 1
                     /\ s.windowStart # Never /\ now <= s.windowStart + Window
               /\ t.count >= Limit[k] => t.blockedUntil = now + Block
<1> DEFINE s == storms[c][k]
           t == Record(s, k, now)
<1>1. s.windowStart \in Int /\ s.count \in Nat /\ s.blockedUntil \in Int
      /\ Window \in Nat /\ Block \in Nat /\ Limit[k] \in Nat /\ clock \in Nat
    BY StormTypes DEF Base, Typed
<1>2. t \in StormState
    BY StormTypes, RecordType
<1>3. s.windowStart <= clock /\ s.blockedUntil <= clock + Block
    BY DEF Clocked
<1>4. CASE WindowOver(s, now)
  <2>1. t = [windowStart |-> now, count |-> 1,
             blockedUntil |-> IF 1 >= Limit[k] THEN now + Block ELSE s.blockedUntil]
      BY <1>4 DEF Record
  <2> QED
      BY <1>1, <1>2, <1>3, <2>1
<1>5. CASE ~ WindowOver(s, now)
  <2>1. t = [windowStart |-> s.windowStart, count |-> s.count + 1,
             blockedUntil |-> IF s.count + 1 >= Limit[k] THEN now + Block
                                                         ELSE s.blockedUntil]
      BY <1>5 DEF Record
  <2>2. s.windowStart # Never /\ now <= s.windowStart + Window
      BY <1>1, <1>5 DEF WindowOver
  <2> QED
      BY <1>1, <1>2, <1>3, <2>1, <2>2
<1> QED
    BY <1>4, <1>5
LEMMA PendingFinite ==
    ASSUME NEW c, NEW k
    PROVE  IsFiniteSet(Pending(c, k)) /\ Cardinality(Pending(c, k)) \in Nat
<1>1. Pending(c, k) \in SUBSET Requests
    BY DEF Pending
<1> QED
    BY <1>1, FS_Subset, FS_CardinalityType, RequestsAssumption

LEMMA PendingFiniteNext ==
    ASSUME NEW c, NEW k
    PROVE  IsFiniteSet(Pending(c, k)') /\ Cardinality(Pending(c, k)') \in Nat
<1>1. Pending(c, k)' \in SUBSET Requests
    BY DEF Pending
<1> QED
    BY <1>1, FS_Subset, FS_CardinalityType, RequestsAssumption

\* A step that leaves a counter alone, and lets nobody into its section who could
\* count into a window that has reached the limit.
LEMMA QuietCovered ==
    ASSUME Base, NEW c \in Connectors, NEW k \in Guarded, Covered(c, k),
           storms'[c][k] = storms[c][k],
           storms[c][k].count >= Limit[k] => Pending(c, k)' \subseteq Pending(c, k)
    PROVE  Covered(c, k)'
<1> SUFFICES ASSUME storms[c][k].count >= Limit[k]
             PROVE  storms[c][k].count + Cardinality(Pending(c, k)')
                       <= Limit[k] - 1 + Capacity[c]
    BY DEF Covered
<1>1. Cardinality(Pending(c, k)') <= Cardinality(Pending(c, k))
    BY PendingFinite, FS_Subset
<1>2. k \in StormKinds
    BY DEF Guarded, StormKinds
<1> QED
    BY <1>1, <1>2, PendingFinite, PendingFiniteNext, StormTypes DEF Covered

\* The same for a step of handler r that changes no counter.
LEMMA PassiveStep ==
    ASSUME Base, AllCovered, NEW r \in Requests, NEW l \in Locations, Goto(r, l),
           UNCHANGED storms, \A q \in Requests \ {r} : msg'[q] = msg[q],
           \A k \in Guarded : l \in Section(k) =>
              /\ msg'[r] = msg[r] /\ msg[r].connector \in Connectors
              /\ \/ pc[r] \in Section(k)
                 \/ LET s == storms[msg[r].connector][k]
                    IN  s.count >= Limit[k] => clock > s.windowStart + Window
    PROVE  AllCovered'
<1> SUFFICES ASSUME NEW c \in Connectors, NEW k \in Guarded,
                    storms[c][k].count >= Limit[k]
             PROVE  Pending(c, k)' \subseteq Pending(c, k)
    BY QuietCovered DEF AllCovered
<1>1. storms[c][k].windowStart \in Int /\ Window \in Nat
    BY StormTypes DEF Guarded, StormKinds
<1> SUFFICES ASSUME NEW q \in Pending(c, k)' PROVE q \in Pending(c, k)
    OBVIOUS
<1>2. /\ q \in Requests /\ pc'[q] \in Section(k) /\ msg'[q].connector = c
      /\ since'[q] <= storms[c][k].windowStart + Window
    BY DEF Pending, Section
<1>3. CASE q # r
    BY <1>2, <1>3, GotoEffect DEF Base, Pending
<1>4. CASE q = r
  <2>1. pc'[r] = l /\ l \in Section(k) /\ msg'[r] = msg[r] /\ l \notin Finished
      BY <1>2, <1>4, GotoEffect DEF Base, Section, Finished
  <2>2. since'[r] = clock /\ since[r] <= clock /\ since[r] \in Nat /\ clock \in Nat
      BY <2>1, GotoEffect DEF Base, Typed
  <2>3. pc[r] \in Section(k)
      BY <1>1, <1>2, <1>4, <2>1, <2>2
  <2> QED
      BY <1>1, <1>2, <1>4, <2>1, <2>2, <2>3 DEF Pending
<1> QED
    BY <1>3, <1>4

\* Recording an event of a kind, by a handler in the section of that kind.
LEMMA RecordCovered ==
    ASSUME BlockOutlastsWindow, Base, TokensConserved, AllTimely, Clocked, AllCovered,
           NEW r \in Requests, NEW k \in Guarded, RecordStorm(r, k, "releasing"),
           pc[r] \in Section(k) \ {"in_directory"}
    PROVE  AllCovered'
<1>1. PICK c \in Connectors : c = msg[r].connector
    BY DEF Base, Informed, Authentic, Section
<1>2. PICK now \in Sampled(r) :
          storms' = [storms EXCEPT ![c][k] = Record(storms[c][k], k, now)]
    BY <1>1 DEF RecordStorm
<1>3. Goto(r, "releasing") /\ msg' = msg /\ clock' = clock /\ k \in StormKinds
    BY DEF RecordStorm, Continue, Guarded, StormKinds
<1>4. /\ pc'[r] = "releasing"
      /\ \A q \in Requests \ {r} : pc'[q] = pc[q] /\ since'[q] = since[q]
    BY <1>3, GotoEffect DEF Base, Locations, Running, Holding
<1>5. now \in Nat /\ since[r] <= now /\ now <= clock
    BY <1>2, SampledType DEF Base
<1>6. clock <= now + MaxLag
    BY <1>5, TimeAssumption
       DEF AllTimely, Timely, Section, Running, Holding, Base, Typed
<1>7. \A d \in Connectors, j \in StormKinds :
          <<d, j>> # <<c, k>> => storms'[d][j] = storms[d][j]
    BY <1>2, <1>3 DEF Base, Typed
<1>8. ASSUME NEW d \in Connectors, NEW j \in Guarded, <<d, j>> # <<c, k>>
      PROVE  Covered(d, j)'
  <2>1. storms'[d][j] = storms[d][j]
      BY <1>7, <1>8 DEF Guarded, StormKinds
  <2>2. Pending(d, j)' \subseteq Pending(d, j)
      BY <1>3, <1>4, <2>1 DEF Pending, Section
  <2> QED
      BY <2>1, <2>2, QuietCovered DEF AllCovered
<1>9. Covered(c, k)'
  <2> DEFINE s == storms[c][k]
             t == storms'[c][k]
  <2>1. /\ t \in StormState /\ t.windowStart <= clock
        /\ \/ t.windowStart = now /\ t.count = 1
           \/ /\ t.windowStart = s.windowStart /\ t.count = s.count + 1
              /\ s.windowStart # Never /\ now <= s.windowStart + Window
        /\ t.count >= Limit[k] => t.blockedUntil = now + Block
    <3>1. t = Record(s, k, now)
        BY <1>2, <1>3 DEF Base, Typed
    <3> QED
        BY <1>3, <1>5, <3>1, RecordEffect
  <2>2. /\ t.windowStart \in Int /\ t.count \in Nat /\ t.blockedUntil \in Int
        /\ s.windowStart \in Int /\ s.count \in Nat
        /\ Limit[k] \in Nat /\ Limit[k] >= 1 /\ Capacity[c] \in Nat
        /\ Window \in Nat /\ Block \in Nat /\ MaxLag \in Nat /\ clock \in Nat
      BY <1>3, <2>1, StormTypes, TimeAssumption DEF StormState, Never, Base, Typed
  <2> SUFFICES ASSUME t.count >= Limit[k]
               PROVE  /\ t.blockedUntil > t.windowStart + Window
                      /\ t.count + Cardinality(Pending(c, k)')
                            <= Limit[k] - 1 + Capacity[c]
      BY DEF Covered
  <2>3. t.blockedUntil > t.windowStart + Window
      BY <1>5, <1>6, <2>1, <2>2 DEF BlockOutlastsWindow
  <2>4. Cardinality(Pending(c, k)') <= Capacity[c] - 1
    <3>1. r \in Holders(c) /\ Pending(c, k)' \subseteq Holders(c) \ {r}
        BY <1>1, <1>3, <1>4 DEF Pending, Section, Holders, Holding
    <3>2. Cardinality(Holders(c) \ {r}) = Cardinality(Holders(c)) - 1
          /\ IsFiniteSet(Holders(c) \ {r})
        BY <3>1, HoldersFinite, FS_RemoveElement
    <3>3. Cardinality(Pending(c, k)') <= Cardinality(Holders(c) \ {r})
        BY <3>1, <3>2, FS_Subset
    <3>4. Cardinality(Holders(c)) <= Capacity[c]
        BY DEF TokensConserved
    <3> QED
        BY <3>2, <3>3, <3>4, <2>2, HoldersFinite, PendingFiniteNext
  <2>5. CASE t.count = Limit[k]
      BY <2>2, <2>3, <2>4, <2>5, PendingFiniteNext
  <2>6. CASE t.count # Limit[k]
    <3>1. s.count >= Limit[k] /\ t.count = s.count + 1 /\ t.windowStart = s.windowStart
          /\ now <= s.windowStart + Window
        BY <2>1, <2>2, <2>6
    <3>2. r \in Pending(c, k) /\ Pending(c, k)' \subseteq Pending(c, k) \ {r}
      <4>1. since[r] <= s.windowStart + Window
          BY <1>5, <2>2, <3>1 DEF Base, Typed
      <4> QED
          BY <1>1, <1>3, <1>4, <3>1, <4>1 DEF Pending, Section
    <3>3. Cardinality(Pending(c, k) \ {r}) = Cardinality(Pending(c, k)) - 1
          /\ IsFiniteSet(Pending(c, k) \ {r})
        BY <3>2, PendingFinite, FS_RemoveElement
    <3>4. Cardinality(Pending(c, k)') <= Cardinality(Pending(c, k) \ {r})
        BY <3>2, <3>3, FS_Subset
    <3>5. s.count + Cardinality(Pending(c, k)) <= Limit[k] - 1 + Capacity[c]
        BY <3>1 DEF AllCovered, Covered
    <3> QED
        BY <2>2, <2>3, <3>1, <3>3, <3>4, <3>5, PendingFinite, PendingFiniteNext
  <2> QED
      BY <2>5, <2>6
<1> QED
    BY <1>8, <1>9 DEF AllCovered
-----------------------------------------------------------------------------
(* What each step does to the counters *)

\* The storm states change only by recording an event, by a verdict of the
\* directory and by a restart.
LEMMA StormChanges ==
    ASSUME Base, [Next]_vars
    PROVE  \/ UNCHANGED storms
           \/ \E r \in Requests : \/ RecordReplay(r) \/ RecordMalformed(r)
                                  \/ RecordDirectoryError(r) \/ ResetDirectoryErrors(r)
           \/ Restart
BY DEF Next, Handle, Exhausted, Tick, WallStep, vars, protection, Arrive,
       CheckReplayStorm, Remember, Acquire, Decode, CheckDirectoryStorm,
       DirectoryReturn, Release

\* The one storm state that a record changes, and how.
LEMMA RecordChanges ==
    ASSUME Base, Clocked, AllTimely, NEW r \in Requests, NEW k \in StormKinds, NEW l,
           RecordStorm(r, k, l), pc[r] \in Running
    PROVE  \E c \in Connectors, now \in Nat :
              /\ c = msg[r].connector /\ now <= clock /\ clock <= now + MaxLag
              /\ storms'[c][k] = Record(storms[c][k], k, now)
              /\ \A d \in Connectors, j \in StormKinds :
                    d # c \/ j # k => storms'[d][j] = storms[d][j]
<1>1. PICK c \in Connectors : c = msg[r].connector
    BY DEF Base, Informed, Authentic, Running, Arriving, Holding
<1>2. PICK now \in Sampled(r) :
          storms' = [storms EXCEPT ![c][k] = Record(storms[c][k], k, now)]
    BY <1>1 DEF RecordStorm
<1>3. now \in Nat /\ since[r] <= now /\ now <= clock
    BY <1>2, SampledType DEF Base
<1>4. clock <= now + MaxLag
    BY <1>3, TimeAssumption DEF AllTimely, Timely, Base, Typed
<1> QED
    BY <1>1, <1>2, <1>3, <1>4 DEF Base, Typed

LEMMA RecordSteps ==
    ASSUME NEW r \in Requests,
           RecordReplay(r) \/ RecordMalformed(r) \/ RecordDirectoryError(r)
    PROVE  /\ pc[r] \in Running /\ clock' = clock
           /\ \E k \in StormKinds, l \in {"done", "releasing"} : RecordStorm(r, k, l)
BY DEF RecordReplay, RecordMalformed, RecordDirectoryError, RecordStorm, StormKinds,
       Running, Holding

LEMMA NextClocked == Base /\ AllTimely /\ Clocked /\ [Next]_vars => Clocked'
<1> SUFFICES ASSUME Base, AllTimely, Clocked, [Next]_vars PROVE Clocked'
    OBVIOUS
<1>1. ASSUME NEW r \in Requests,
             RecordReplay(r) \/ RecordMalformed(r) \/ RecordDirectoryError(r)
      PROVE  Clocked'
  <2>1. PICK k \in StormKinds, l \in {"done", "releasing"} : RecordStorm(r, k, l)
      BY <1>1, RecordSteps
  <2>2. PICK c \in Connectors, now \in Nat :
              /\ now <= clock
              /\ storms'[c][k] = Record(storms[c][k], k, now)
              /\ \A d \in Connectors, j \in StormKinds :
                    d # c \/ j # k => storms'[d][j] = storms[d][j]
      BY <1>1, <2>1, RecordSteps, RecordChanges
  <2>3. clock' = clock
      BY <1>1, RecordSteps
  <2>4. ASSUME NEW d \in Connectors, NEW j \in StormKinds
        PROVE  /\ storms'[d][j].windowStart <= clock
               /\ storms'[d][j].blockedUntil <= clock + Block
    <3>1. CASE d = c /\ j = k
        BY <2>2, <3>1, RecordEffect
    <3>2. CASE d # c \/ j # k
        BY <2>2, <3>2 DEF Clocked
    <3> QED
        BY <3>1, <3>2
  <2> QED
      BY <2>3, <2>4 DEF Clocked
<1>2. clock \in Nat /\ Block \in Nat /\ clock' \in Nat /\ clock <= clock'
  <2>1. clock' = clock \/ clock' = clock + 1
      BY DEF Next, Handle, Exhausted, Tick, WallStep, Restart, vars, protection, Arrive,
         CheckReplayStorm, Remember, RecordReplay, Acquire, Decode, RecordMalformed,
         CheckDirectoryStorm, DirectoryReturn, RecordDirectoryError,
         ResetDirectoryErrors, Release, RecordStorm
  <2> QED
      BY <2>1, StormAssumption DEF Base, Typed
<1>3. CASE UNCHANGED storms
  <2>1. ASSUME NEW d \in Connectors, NEW j \in StormKinds
        PROVE  /\ storms'[d][j].windowStart <= clock'
               /\ storms'[d][j].blockedUntil <= clock' + Block
      BY <1>2, <1>3, StormTypes DEF Clocked
  <2> QED
      BY <2>1 DEF Clocked
<1>4. ASSUME NEW r \in Requests, ResetDirectoryErrors(r) PROVE Clocked'
  <2>1. msg[r].connector \in Connectors
      BY <1>4 DEF ResetDirectoryErrors, Base, Informed, Authentic
  <2>2. ASSUME NEW d \in Connectors, NEW j \in StormKinds
        PROVE  storms'[d][j] = storms[d][j] \/ storms'[d][j] = ZeroState
      BY <1>4, <2>1 DEF ResetDirectoryErrors, Base, Typed, StormKinds
  <2>3. ZeroState.windowStart = -1 /\ ZeroState.blockedUntil = -1
      BY DEF ZeroState, Never
  <2>4. ASSUME NEW d \in Connectors, NEW j \in StormKinds
        PROVE  /\ storms'[d][j].windowStart <= clock'
               /\ storms'[d][j].blockedUntil <= clock' + Block
      BY <1>2, <2>2, <2>3, StormTypes DEF Clocked
  <2> QED
      BY <2>4 DEF Clocked
<1>5. CASE Restart
  <2>1. ASSUME NEW d \in Connectors, NEW j \in StormKinds
        PROVE  storms'[d][j].windowStart = -1 /\ storms'[d][j].blockedUntil = -1
      BY <1>5 DEF Restart, ZeroState, Never
  <2>2. ASSUME NEW d \in Connectors, NEW j \in StormKinds
        PROVE  /\ storms'[d][j].windowStart <= clock'
               /\ storms'[d][j].blockedUntil <= clock' + Block
      BY <1>2, <2>1
  <2> QED
      BY <2>2 DEF Clocked
<1> QED
    BY <1>1, <1>3, <1>4, <1>5, StormChanges

LEMMA SpecClocked == Spec => []Clocked
<1>1. Init => Clocked
  <2> SUFFICES ASSUME Init, NEW d \in Connectors, NEW j \in StormKinds
               PROVE  /\ storms[d][j].windowStart <= clock
                      /\ storms[d][j].blockedUntil <= clock + Block
      BY DEF Clocked
  <2>1. storms[d][j].windowStart = -1 /\ storms[d][j].blockedUntil = -1 /\ clock = 0
      BY DEF Init, ZeroState, Never
  <2> QED
      BY <2>1, StormAssumption
<1> QED
    BY <1>1, NextClocked, SpecBase, SpecTimely, PTL DEF Spec

-----------------------------------------------------------------------------
(* Blocks run their time *)

\* A record moves the end of a block back by at most MaxLag; only a verdict of the
\* directory (directory_error) and the end of the process lift a block.
THEOREM BlocksRunTheirTime == Spec => BlocksNotCutShort
<1> DEFINE Step ==
        \A c \in Connectors, k \in StormKinds :
          storms'[c][k].blockedUntil < storms[c][k].blockedUntil - MaxLag =>
              \/ ProcessEnded
              \/ k = "directory_error" /\ VerdictAnswered(c)
<1>1. ASSUME Base, AllTimely, Clocked, [Next]_vars PROVE Step
  <2> USE <1>1
  <2> SUFFICES ASSUME NEW c \in Connectors, NEW k \in StormKinds,
                      storms'[c][k].blockedUntil < storms[c][k].blockedUntil - MaxLag
               PROVE  \/ ProcessEnded
                      \/ k = "directory_error" /\ VerdictAnswered(c)
      OBVIOUS
  <2>1. /\ storms[c][k].blockedUntil \in Int /\ MaxLag \in Nat /\ clock \in Nat
        /\ Block \in Nat /\ storms[c][k].blockedUntil <= clock + Block
      BY StormTypes, TimeAssumption DEF Base, Typed, Clocked
  <2>2. storms'[c][k].blockedUntil # storms[c][k].blockedUntil
      BY <2>1
  <2>3. ASSUME NEW r \in Requests,
               RecordReplay(r) \/ RecordMalformed(r) \/ RecordDirectoryError(r)
        PROVE  FALSE
    <3>1. PICK j \in StormKinds, l \in {"done", "releasing"} : RecordStorm(r, j, l)
        BY <2>3, RecordSteps
    <3>2. PICK d \in Connectors, now \in Nat :
              /\ now <= clock /\ clock <= now + MaxLag
              /\ storms'[d][j] = Record(storms[d][j], j, now)
              /\ \A e \in Connectors, i \in StormKinds :
                    e # d \/ i # j => storms'[e][i] = storms[e][i]
        BY <2>3, <3>1, RecordSteps, RecordChanges
    <3>3. c = d /\ k = j
        BY <2>2, <3>2
    <3>4. storms'[c][k].blockedUntil = now + Block
        BY <2>2, <3>2, <3>3, RecordEffect
    <3> QED
        BY <2>1, <3>2, <3>4
  <2>4. ASSUME NEW r \in Requests, ResetDirectoryErrors(r)
        PROVE  k = "directory_error" /\ VerdictAnswered(c)
    <3>1. /\ msg[r].connector \in Connectors /\ verdict[r] \in Verdicts
          /\ pc[r] = "resetting"
        BY <2>4 DEF ResetDirectoryErrors, Base, Informed, Authentic
    <3>2. k = "directory_error" /\ c = msg[r].connector
        BY <2>2, <2>4, <3>1 DEF ResetDirectoryErrors, Base, Typed, StormKinds
    <3>3. pc'[r] = "releasing" /\ response'[r] = verdict[r]
        BY <2>4 DEF ResetDirectoryErrors, Answer, Goto, Base, Typed
    <3> QED
        BY <3>1, <3>2, <3>3 DEF VerdictAnswered
  <2>5. ASSUME Restart PROVE ProcessEnded
      BY <2>5 DEF Restart, ProcessEnded
  <2> QED
      BY <2>2, <2>3, <2>4, <2>5, StormChanges
<1>2. Base /\ AllTimely /\ Clocked /\ [Next]_vars => [Step]_vars
    BY <1>1
<1> QED
    BY <1>2, SpecBase, SpecTimely, SpecClocked, PTL DEF Spec, BlocksNotCutShort
-----------------------------------------------------------------------------
(* Counters overshoot by no more than the semaphore lets in *)

\* A handler that passes the check of a kind which has reached its limit does so
\* after the window is over.
LEMMA PassedLate ==
    ASSUME Base, AllCovered, NEW r \in Requests, NEW c \in Connectors, NEW k \in Guarded,
           NEW now \in Sampled(r), ~ Blocked(storms[c][k], now)
    PROVE  storms[c][k].count >= Limit[k] => clock > storms[c][k].windowStart + Window
<1>1. now \in Nat /\ now <= clock /\ clock \in Nat
    BY SampledType DEF Base, Typed
<1>2. /\ storms[c][k] \in StormState /\ storms[c][k].blockedUntil \in Int
      /\ storms[c][k].windowStart \in Nat \union {-1} /\ Window \in Nat /\ Window >= 1
    BY StormTypes DEF Guarded, StormKinds, StormState, Never
<1>3. storms[c][k].blockedUntil = -1 \/ now >= storms[c][k].blockedUntil
    BY <1>1, <1>2 DEF Blocked, Never
<1> QED
    BY <1>1, <1>2, <1>3 DEF AllCovered, Covered

LEMMA NextCovered ==
    ASSUME BlockOutlastsWindow, Base, TokensConserved, AllTimely, Clocked, AllCovered,
           [Next]_vars
    PROVE  AllCovered'
<1>1. ASSUME NEW r \in Requests, NEW m \in Messages, Arrive(r, m) PROVE AllCovered'
  <2>1. PICK l \in {"verified", "done"} : Goto(r, l)
      BY <1>1 DEF Arrive, Continue, Answer
  <2>2. UNCHANGED storms /\ \A q \in Requests \ {r} : msg'[q] = msg[q]
      BY <1>1 DEF Arrive, protection, Base, Typed
  <2> QED
      BY <2>1, <2>2, PassiveStep DEF Section, Locations, Running, Arriving, Finished
<1>2. ASSUME NEW r \in Requests,
             CheckReplayStorm(r) \/ Remember(r) \/ Acquire(r) \/ Release(r)
      PROVE  AllCovered'
  <2>1. PICK l \in {"storm_checked", "record_replay", "remembered", "acquired", "done"} :
            Goto(r, l)
      BY <1>2 DEF CheckReplayStorm, Remember, Acquire, Release, Continue, Answer
  <2>2. UNCHANGED storms /\ msg' = msg
      BY <1>2 DEF CheckReplayStorm, Remember, Acquire, Release, protection
  <2> QED
      BY <2>1, <2>2, PassiveStep
         DEF Section, Locations, Running, Arriving, Holding, Finished
<1>3. ASSUME NEW r \in Requests, Decode(r) PROVE AllCovered'
  <2>1. PICK c \in Connectors : c = msg[r].connector
      BY <1>3 DEF Decode, Base, Informed, Authentic
  <2>2. UNCHANGED storms /\ msg' = msg
      BY <1>3 DEF Decode, protection
  <2>3. PICK now \in Sampled(r) :
            \/ \E l \in {"releasing", "authorised"} : Goto(r, l)
            \/ Goto(r, "record_malformed") /\ ~ Blocked(storms[c]["malformed_request"], now)
    <3>1. msg[r].body \in BodyClasses
        BY <1>3, MessagesAssumption DEF Decode, Base, Informed, Authentic
    <3> QED
        BY <1>3, <2>1, <3>1 DEF Decode, Answer, Continue, BodyClasses
  <2>4. CASE \E l \in {"releasing", "authorised"} : Goto(r, l)
    <3>1. PICK l \in {"releasing", "authorised"} : Goto(r, l)
        BY <2>4
    <3> QED
        BY <2>2, <3>1, PassiveStep DEF Section, Locations, Running, Holding
  <2>5. CASE Goto(r, "record_malformed") /\ ~ Blocked(storms[c]["malformed_request"], now)
    <3>1. storms[c]["malformed_request"].count >= Limit["malformed_request"] =>
             clock > storms[c]["malformed_request"].windowStart + Window
        BY <2>5, PassedLate DEF Guarded
    <3> QED
        BY <2>1, <2>2, <2>5, <3>1, PassiveStep
           DEF Section, Guarded, Locations, Running, Holding
  <2> QED
      BY <2>3, <2>4, <2>5
<1>4. ASSUME NEW r \in Requests, CheckDirectoryStorm(r) PROVE AllCovered'
  <2>1. PICK c \in Connectors : c = msg[r].connector
      BY <1>4 DEF CheckDirectoryStorm, Base, Informed, Authentic
  <2>2. UNCHANGED storms /\ msg' = msg
      BY <1>4 DEF CheckDirectoryStorm, protection
  <2>3. PICK now \in Sampled(r) :
            \/ Goto(r, "releasing")
            \/ Goto(r, "in_directory") /\ ~ Blocked(storms[c]["directory_error"], now)
      BY <1>4, <2>1 DEF CheckDirectoryStorm, Answer, Continue
  <2>4. CASE Goto(r, "releasing")
      BY <2>2, <2>4, PassiveStep DEF Section, Locations, Running, Holding
  <2>5. CASE Goto(r, "in_directory") /\ ~ Blocked(storms[c]["directory_error"], now)
    <3>1. storms[c]["directory_error"].count >= Limit["directory_error"] =>
             clock > storms[c]["directory_error"].windowStart + Window
        BY <2>5, PassedLate DEF Guarded
    <3> QED
        BY <2>1, <2>2, <2>5, <3>1, PassiveStep DEF Section, Guarded, Locations
  <2> QED
      BY <2>3, <2>4, <2>5
<1>5. ASSUME NEW r \in Requests, DirectoryReturn(r) PROVE AllCovered'
  <2>1. msg[r].connector \in Connectors /\ pc[r] = "in_directory"
      BY <1>5 DEF DirectoryReturn, Base, Informed, Authentic
  <2>2. UNCHANGED storms /\ msg' = msg
      BY <1>5 DEF DirectoryReturn, protection
  <2>3. Goto(r, "record_directory") \/ Goto(r, "resetting")
      BY <1>5 DEF DirectoryReturn, Answer, Continue
  <2> QED
      BY <2>1, <2>2, <2>3, PassiveStep DEF Section, Guarded, Locations, Running, Holding
<1>6. ASSUME NEW r \in Requests, RecordMalformed(r) \/ RecordDirectoryError(r)
      PROVE  AllCovered'
    BY <1>6, RecordCovered DEF RecordMalformed, RecordDirectoryError, Guarded, Section
<1>7. ASSUME NEW r \in Requests, RecordReplay(r) PROVE AllCovered'
  <2>1. /\ \A d \in Connectors, j \in Guarded : storms'[d][j] = storms[d][j]
        /\ msg' = msg /\ Goto(r, "done")
    <3>1. RecordStorm(r, "replay", "done") /\ pc[r] \in Running
        BY <1>7 DEF RecordReplay, Running
    <3>2. \A d \in Connectors, j \in StormKinds \ {"replay"} :
             storms'[d][j] = storms[d][j]
        BY <3>1, RecordChanges DEF StormKinds
    <3> QED
        BY <3>1, <3>2 DEF RecordStorm, Continue, Guarded, StormKinds
  <2>2. /\ pc'[r] = "done"
        /\ \A q \in Requests \ {r} : pc'[q] = pc[q] /\ since'[q] = since[q]
      BY <2>1, GotoEffect DEF Base, Locations, Finished
  <2>3. ASSUME NEW d \in Connectors, NEW j \in Guarded
        PROVE  Pending(d, j)' \subseteq Pending(d, j)
      BY <2>1, <2>2 DEF Pending, Section
  <2> QED
      BY <2>1, <2>3, QuietCovered DEF AllCovered
<1>8. ASSUME NEW r \in Requests, ResetDirectoryErrors(r) PROVE AllCovered'
  <2>1. PICK c \in Connectors : c = msg[r].connector
      BY <1>8 DEF ResetDirectoryErrors, Base, Informed, Authentic
  <2>2. storms' = [storms EXCEPT ![c]["directory_error"] = ZeroState]
        /\ msg' = msg /\ Goto(r, "releasing")
      BY <1>8, <2>1 DEF ResetDirectoryErrors, Answer
  <2>3. /\ pc'[r] = "releasing"
        /\ \A q \in Requests \ {r} : pc'[q] = pc[q] /\ since'[q] = since[q]
      BY <2>2, GotoEffect DEF Base, Locations, Running, Holding
  <2>4. ASSUME NEW d \in Connectors, NEW j \in Guarded PROVE Covered(d, j)'
    <3>1. CASE d = c /\ j = "directory_error"
      <4>1. storms'[d][j].count = 0 /\ Limit[j] \in Nat \ {0}
          BY <2>2, <3>1, StormAssumption DEF ZeroState, Base, Typed, StormKinds
      <4> QED
          BY <4>1 DEF Covered
    <3>2. CASE d # c \/ j # "directory_error"
      <4>1. storms'[d][j] = storms[d][j]
          BY <2>2, <3>2 DEF Base, Typed, Guarded, StormKinds
      <4>2. Pending(d, j)' \subseteq Pending(d, j)
          BY <2>2, <2>3, <4>1 DEF Pending, Section
      <4> QED
          BY <4>1, <4>2, QuietCovered DEF AllCovered
    <3> QED
        BY <3>1, <3>2
  <2> QED
      BY <2>4 DEF AllCovered
<1>9. ASSUME UNCHANGED <<pc, msg, since, storms>> PROVE AllCovered'
  <2>1. ASSUME NEW d \in Connectors, NEW j \in Guarded
        PROVE  Pending(d, j)' = Pending(d, j)
      BY <1>9 DEF Pending, Section
  <2> QED
      BY <1>9, <2>1, QuietCovered DEF AllCovered
<1>10. CASE Restart
  <2>1. ASSUME NEW d \in Connectors, NEW j \in Guarded
        PROVE  storms'[d][j].count = 0 /\ Limit[j] \in Nat \ {0}
      BY <1>10, StormAssumption DEF Restart, ZeroState, Guarded, StormKinds
  <2> QED
      BY <2>1 DEF AllCovered, Covered
<1> QED
    BY <1>1, <1>2, <1>3, <1>4, <1>5, <1>6, <1>7, <1>8, <1>9, <1>10
       DEF Next, Handle, Tick, WallStep, Exhausted, vars, protection

\* What the counters of malformed requests and directory errors count beyond their
\* limit in one window is at most what the semaphore lets into the section between
\* the check and the record, if a block outlasts the window that led to it.
THEOREM OvershootBounded ==
    ASSUME BlockOutlastsWindow
    PROVE  Spec => []StormOvershootBounded
<1>1. Init => AllCovered
  <2> SUFFICES ASSUME Init, NEW d \in Connectors, NEW j \in Guarded
               PROVE  ~ (storms[d][j].count >= Limit[j])
      BY DEF AllCovered, Covered
  <2> QED
      BY StormAssumption DEF Init, ZeroState, Guarded, StormKinds
<1>2. Base /\ TokensConserved /\ AllTimely /\ Clocked /\ AllCovered /\ [Next]_vars
         => AllCovered'
    BY NextCovered
<1>3. Base /\ AllCovered => StormOvershootBounded
  <2> SUFFICES ASSUME Base, AllCovered, NEW c \in Connectors, NEW k \in Guarded
               PROVE  storms[c][k].count <= Limit[k] - 1 + Capacity[c]
      BY DEF StormOvershootBounded, Guarded
  <2>1. storms[c][k].count \in Nat /\ Limit[k] \in Nat /\ Limit[k] >= 1
        /\ Capacity[c] \in Nat /\ Capacity[c] >= 1
      BY StormTypes DEF Guarded, StormKinds
  <2>2. CASE storms[c][k].count >= Limit[k]
    <3>1. storms[c][k].count + Cardinality(Pending(c, k)) <= Limit[k] - 1 + Capacity[c]
        BY <2>2 DEF AllCovered, Covered
    <3> QED
        BY <2>1, <3>1, PendingFinite
  <2>3. CASE storms[c][k].count < Limit[k]
      BY <2>1, <2>3
  <2> QED
      BY <2>1, <2>2, <2>3
<1> QED
    BY <1>1, <1>2, <1>3, SpecBase, SpecTimely, SpecClocked, TokensConservedAlways, PTL
       DEF Spec
-----------------------------------------------------------------------------
(* A counter counts each recorded request once *)

LEMMA RecordedFinite ==
    ASSUME NEW c, NEW k
    PROVE  /\ IsFiniteSet(Recorded(c, k)) /\ Cardinality(Recorded(c, k)) \in Nat
           /\ IsFiniteSet(Recorded(c, k)') /\ Cardinality(Recorded(c, k)') \in Nat
<1>1. Recorded(c, k) \in SUBSET Requests /\ Recorded(c, k)' \in SUBSET Requests
    BY DEF Recorded
<1> QED
    BY <1>1, FS_Subset, FS_CardinalityType, RequestsAssumption

\* What was recorded stays recorded, until the process ends.
LEMMA RecordedStays ==
    ASSUME Base, [Next]_vars, ~ Restart, NEW c, NEW k
    PROVE  Recorded(c, k) \subseteq Recorded(c, k)'
<1> SUFFICES ASSUME NEW q \in Requests, pc[q] \in {"releasing", "done"}
             PROVE  /\ pc'[q] \in {"releasing", "done"}
                    /\ msg'[q] = msg[q] /\ response'[q] = response[q]
    BY DEF Recorded
<1>1. ASSUME NEW r \in Requests, NEW m \in Messages, Arrive(r, m)
      PROVE  pc'[q] = pc[q] /\ msg'[q] = msg[q] /\ response'[q] = response[q]
    BY <1>1 DEF Arrive, Continue, Answer, Goto, Base, Typed
<1>2. CASE UNCHANGED <<pc, msg, response>>
    BY <1>2
<1> QED
    BY <1>1, <1>2, OnlyHandler DEF Next, Tick, WallStep, Exhausted, vars

\* A request joins those recorded at the moment it is counted.
LEMMA RecordJustified ==
    ASSUME Base, Clocked, AllTimely, StormCountsJustified, NEW r \in Requests,
           NEW k \in StormKinds, NEW l \in {"done", "releasing"}, RecordStorm(r, k, l),
           \/ pc[r] = "record_replay" /\ k = "replay"
           \/ pc[r] = "record_malformed" /\ k = "malformed_request"
           \/ pc[r] = "record_directory" /\ k = "directory_error",
           \A c, j : Recorded(c, j) \subseteq Recorded(c, j)'
    PROVE  StormCountsJustified'
<1>1. pc[r] \in Running
    BY DEF Running, Holding
<1>2. PICK c \in Connectors, now \in Nat :
          /\ c = msg[r].connector /\ now <= clock
          /\ storms'[c][k] = Record(storms[c][k], k, now)
          /\ \A d \in Connectors, j \in StormKinds :
                d # c \/ j # k => storms'[d][j] = storms[d][j]
    BY <1>1, RecordChanges
<1> SUFFICES ASSUME NEW d \in Connectors, NEW j \in StormKinds
             PROVE  storms'[d][j].count <= Cardinality(Recorded(d, j)')
    BY DEF StormCountsJustified
<1>3. storms[d][j].count <= Cardinality(Recorded(d, j)) /\ storms[d][j].count \in Nat
    BY StormTypes DEF StormCountsJustified
<1>4. CASE d # c \/ j # k
  <2>1. Cardinality(Recorded(d, j)) <= Cardinality(Recorded(d, j)')
      BY RecordedFinite, FS_Subset
  <2> QED
      BY <1>2, <1>3, <1>4, <2>1, RecordedFinite
<1>5. CASE d = c /\ j = k
  <2>1. r \notin Recorded(c, k)
      BY DEF Recorded
  <2>2. r \in Recorded(c, k)'
    <3>1. pc'[r] = l /\ msg'[r] = msg[r] /\ response'[r] = response[r]
        BY DEF RecordStorm, Continue, Goto, Base, Typed
    <3>2. /\ k = "replay" => response[r] = "replay_detected"
          /\ k = "malformed_request" => response[r] = "malformed_request"
          /\ k = "directory_error" => response[r] \in DirectoryFailures
        BY DEF Base, Informed
    <3> QED
        BY <1>2, <3>1, <3>2 DEF Recorded, StormKinds
  <2>3. Cardinality(Recorded(c, k) \union {r}) = Cardinality(Recorded(c, k)) + 1
      BY <2>1, RecordedFinite, FS_AddElement
  <2>4. Cardinality(Recorded(c, k) \union {r}) <= Cardinality(Recorded(c, k)')
      BY <2>2, RecordedFinite, FS_Subset
  <2>5. storms'[c][k].count <= storms[c][k].count + 1 /\ storms'[c][k].count \in Nat
      BY <1>2, RecordEffect DEF StormState
  <2> QED
      BY <1>3, <1>5, <2>3, <2>4, <2>5, RecordedFinite
<1> QED
    BY <1>4, <1>5

LEMMA NextJustified ==
    ASSUME Base, Clocked, AllTimely, StormCountsJustified, [Next]_vars
    PROVE  StormCountsJustified'
<1>1. CASE Restart
  <2>1. ASSUME NEW d \in Connectors, NEW j \in StormKinds
        PROVE  storms'[d][j].count <= Cardinality(Recorded(d, j)')
    <3>1. storms'[d][j].count = 0
        BY <1>1 DEF Restart, ZeroState
    <3> QED
        BY <3>1, RecordedFinite
  <2> QED
      BY <2>1 DEF StormCountsJustified
<1>2. CASE ~ Restart
  <2>1. \A c, j : Recorded(c, j) \subseteq Recorded(c, j)'
      BY <1>2, RecordedStays
  <2>2. ASSUME NEW r \in Requests,
               RecordReplay(r) \/ RecordMalformed(r) \/ RecordDirectoryError(r)
        PROVE  StormCountsJustified'
      BY <2>1, <2>2, RecordJustified
         DEF RecordReplay, RecordMalformed, RecordDirectoryError, StormKinds
  <2>3. ASSUME \A d \in Connectors, j \in StormKinds :
                  storms'[d][j].count = storms[d][j].count \/ storms'[d][j].count = 0
        PROVE  StormCountsJustified'
    <3> SUFFICES ASSUME NEW d \in Connectors, NEW j \in StormKinds
                 PROVE  storms'[d][j].count <= Cardinality(Recorded(d, j)')
        BY DEF StormCountsJustified
    <3>1. storms[d][j].count <= Cardinality(Recorded(d, j)) /\ storms[d][j].count \in Nat
        BY StormTypes DEF StormCountsJustified
    <3>2. Cardinality(Recorded(d, j)) <= Cardinality(Recorded(d, j)')
        BY <2>1, RecordedFinite, FS_Subset
    <3> QED
        BY <2>3, <3>1, <3>2, RecordedFinite
  <2>4. ASSUME NEW r \in Requests, ResetDirectoryErrors(r) PROVE StormCountsJustified'
    <3>1. \A d \in Connectors, j \in StormKinds :
              storms'[d][j].count = storms[d][j].count \/ storms'[d][j].count = 0
        BY <2>4 DEF ResetDirectoryErrors, ZeroState, Base, Typed
    <3> QED
        BY <2>3, <3>1
  <2>5. CASE UNCHANGED storms
      BY <2>3, <2>5
  <2> QED
      BY <1>2, <2>2, <2>4, <2>5, StormChanges
<1> QED
    BY <1>1, <1>2

\* A storm counter counts only authenticated requests of its own connector that were
\* answered as an event of its kind, and each of them once: requests that fail the
\* HMAC check or are refused by a storm never bring a connector nearer to a block.
THEOREM CountsJustified == Spec => []StormCountsJustified
<1>1. Init => StormCountsJustified
  <2> SUFFICES ASSUME Init, NEW d \in Connectors, NEW j \in StormKinds
               PROVE  storms[d][j].count <= Cardinality(Recorded(d, j))
      BY DEF StormCountsJustified
  <2>1. storms[d][j].count = 0
      BY DEF Init, ZeroState
  <2> QED
      BY <2>1, RecordedFinite
<1>2. Base /\ Clocked /\ AllTimely /\ StormCountsJustified /\ [Next]_vars
         => StormCountsJustified'
    BY NextJustified
<1> QED
    BY <1>1, <1>2, SpecBase, SpecTimely, SpecClocked, PTL DEF Spec
=============================================================================
