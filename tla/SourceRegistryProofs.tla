------------------------ MODULE SourceRegistryProofs ------------------------
(***************************************************************************)
(* IInv of SourceRegistry is inductive.  A step changes one session and    *)
(* nothing else that IInv speaks of (SessionStepKeeps), or it commits one  *)
(* row and closes its session (CommitKeeps), so an action only has to show *)
(* that the session it leaves behind is sound, or that the row it commits  *)
(* is ACTIVE for a reason.  The theorems at the end read the promises of   *)
(* the registry off IInv.                                                  *)
(***************************************************************************)
EXTENDS SourceRegistry, TLAPS

(***************************************************************************)
(* What IInv asks of one session, were it n.                               *)
(***************************************************************************)
Sound(x, n) ==
    /\ n \in Session
    /\ n.at = "loaded" => x \in Workers \cup Operators
    /\ n.at \in {"recorded", "ordered"} => x \in Operators
    /\ n.at \in {"copied", "merged", "running"} => x \in Batches
    /\ n.at # "idle" =>
          /\ n.src \in Sources
          /\ n.mine.verification = "PASSED" => n.src \in passed \/ "verification" \in n.dirty
          /\ n.mine.lifecycle = "ACTIVE" => n.src \in passed \/ n.mine.verification = "PASSED"
          /\ ~n.raced => \A c \in Known(x) \ n.dirty : n.mine[c] = row[n.src][c]
    /\ n.order # "none" =>
          /\ n.mine.lifecycle = n.order
          /\ n.mine.active = Schedulable(n.order)
          /\ n.mine.paused = (n.order = "PAUSED")

\* What a session has loaded is sound.
LEMMA SessionsAreSound ==
  ASSUME IInv, NEW x \in Sessions
  PROVE  Sound(x, session[x])
  BY DEF IInv, TypeOK, SessionsKeepToTheirKind, CopiesAreBacked, UnracedIsCurrent,
         OrdersAreWhole, Sound

\* A row is a row, and what it says of verification rests on a passing one.
LEMMA RowsAreRows ==
  ASSUME IInv, NEW s \in Sources
  PROVE  row[s] \in Row /\ (row[s].verification = "PASSED" => s \in passed)
                        /\ (row[s].lifecycle = "ACTIVE" => s \in passed)
  BY DEF IInv, TypeOK, PassesAreRemembered, ActiveWasVerified

(***************************************************************************)
(* The records the operations build.                                       *)
(***************************************************************************)
LEMMA RegisteredIsRow == \A e \in BOOLEAN : Registered(e) \in Row
  BY BoundAssumption
     DEF Registered, Row, SourceLifecycle, VerificationStatus, HealthStatus

\* A session that has nothing loaded is sound.
LEMMA IdleIsSound == \A x \in Sessions : Sound(x, Idle)
  BY RegisteredIsRow DEF Idle, Sound, Session

\* Written has, column by column, the value in memory or that of the row.
LEMMA WrittenByColumn ==
  ASSUME IInv, NEW x \in Sessions, session[x].src \in Sources,
         NEW mine \in Row, NEW dirty \in SUBSET Columns
  PROVE  /\ Written(x, mine, dirty) \in Row
         /\ \A c \in Columns :
               Written(x, mine, dirty)[c] =
                  IF c \in dirty THEN mine[c] ELSE row[session[x].src][c]
<1> DEFINE value(c) == IF c \in dirty THEN mine[c] ELSE row[session[x].src][c]
           new == [lifecycle |-> value("lifecycle"), active |-> value("active"),
                   paused |-> value("paused"), verification |-> value("verification"),
                   failures |-> value("failures"), health |-> value("health")]
<1>1. row[session[x].src] \in Row
  BY RowsAreRows
<1>2. /\ value("lifecycle") \in SourceLifecycle
      /\ value("active") \in BOOLEAN /\ value("paused") \in BOOLEAN
      /\ value("verification") \in VerificationStatus
      /\ value("failures") \in 0..MaxFailures /\ value("health") \in HealthStatus
  BY <1>1 DEF Row
<1>3. Written(x, mine, dirty) = new
  BY DEF Written
<1> HIDE DEF value
<1>4. new \in Row
  BY <1>2 DEF Row
<1>5. \A c \in Columns : new[c] = value(c)
  <2>1. /\ new.lifecycle = value("lifecycle") /\ new.active = value("active")
        /\ new.paused = value("paused") /\ new.verification = value("verification")
        /\ new.failures = value("failures") /\ new.health = value("health")
    OBVIOUS
  <2>2. \A c \in Columns : c \in {"lifecycle", "active", "paused", "verification", "failures", "health"}
    BY DEF Columns
  <2> HIDE DEF new
  <2> QED
    BY <2>1, <2>2, SMTT(30)
<1> QED
  BY <1>3, <1>4, <1>5 DEF value

\* Recording a run's outcome changes the failures and the health, which agree.
LEMMA UpdateHealthIsRow ==
  ASSUME NEW mine \in Row, NEW ok \in BOOLEAN, ok \/ CanFail(mine.failures)
  PROVE  LET new == UpdateHealth(mine, ok)
         IN  /\ new \in Row
             /\ new.health = HealthFor(new.failures)
             /\ Changes(mine, new) \subseteq {"failures", "health"}
<1> DEFINE new == UpdateHealth(mine, ok)
<1>1. mine.failures \in 0..MaxFailures /\ MaxFailures \in Nat
  BY BoundAssumption DEF Row
<1>2. CASE ok
  <2>1. new = [mine EXCEPT !.failures = 0, !.health = "HEALTHY"]
    BY <1>2 DEF UpdateHealth
  <2>2. HealthFor(0) = "HEALTHY"
    BY ThresholdAssumption DEF HealthFor
  <2>3. new \in Row /\ new.health = "HEALTHY" /\ new.failures = 0
    <3>1. 0 \in 0..MaxFailures /\ "HEALTHY" \in HealthStatus
      BY <1>1 DEF HealthStatus
    <3> QED
      BY <2>1, <3>1 DEF Row
  <2>4. Changes(mine, new) \subseteq {"failures", "health"}
    BY <2>1 DEF Changes, Columns, Row
  <2> QED
    BY <2>2, <2>3, <2>4
<1>3. CASE ~ok
  <2>1. new = [mine EXCEPT !.failures = @ + 1, !.health = HealthFor(mine.failures + 1)]
    BY <1>3 DEF UpdateHealth
  <2>2. mine.failures + 1 \in 0..MaxFailures
    BY <1>1, <1>3 DEF CanFail
  <2>3. HealthFor(mine.failures + 1) \in HealthStatus
    BY DEF HealthFor, HealthStatus
  <2> QED
    BY <2>1, <2>2, <2>3 DEF Row, Changes, Columns
<1> QED
  BY <1>2, <1>3

(***************************************************************************)
(* The initial state.                                                      *)
(***************************************************************************)
LEMMA InitIInv == Init => IInv
<1> SUFFICES ASSUME Init PROVE IInv
  OBVIOUS
<1>1. \A s \in Sources : row[s] = Registered(TRUE) \/ row[s] = Registered(FALSE)
  BY DEF Init
<1>2. TypeOK
  <2>1. row \in [Sources -> Row]
    <3>1. \E f \in [Sources -> {Registered(e) : e \in BOOLEAN}] : row = f
      BY DEF Init
    <3> QED
      BY <3>1, RegisteredIsRow
  <2>2. age \in [Sources -> 0..Never]
    BY BoundAssumption DEF Init, Never
  <2>3. session \in [Sessions -> Session] /\ \A x \in Sessions : session[x].at = "idle"
    BY IdleIsSound DEF Init, Sound, Idle
  <2> QED
    BY <2>1, <2>2, <2>3 DEF Init, TypeOK
<1>3. PassesAreRemembered /\ ActiveWasVerified
  <2>1. /\ Registered(TRUE).verification = "UNVERIFIED"
        /\ Registered(FALSE).verification = "UNVERIFIED"
        /\ Registered(TRUE).lifecycle = "DISCOVERED"
        /\ Registered(FALSE).lifecycle = "DISCOVERED"
    BY DEF Registered
  <2>2. \A s \in Sources : row[s].verification = "UNVERIFIED" /\ row[s].lifecycle = "DISCOVERED"
    BY <1>1, <2>1
  <2> QED
    BY <2>2 DEF PassesAreRemembered, ActiveWasVerified
<1>4. SessionsKeepToTheirKind /\ CopiesAreBacked /\ UnracedIsCurrent /\ OrdersAreWhole
  BY DEF Init, Idle, SessionsKeepToTheirKind, CopiesAreBacked, UnracedIsCurrent,
         OrdersAreWhole
<1> QED
  BY <1>2, <1>3, <1>4 DEF IInv

(***************************************************************************)
(* Steps that touch at most one session.                                   *)
(***************************************************************************)
LEMMA SessionStepKeeps ==
  ASSUME IInv, NEW x \in Sessions, NEW n, Sound(x, n),
         session' = [session EXCEPT ![x] = n],
         row' = row, passed' = passed,
         age' \in [Sources -> 0..Never], queued' \subseteq Sources
  PROVE  IInv'
<1>1. \A y \in Sessions : Sound(y, session'[y]) /\ session'[y] \in Session
  BY SessionsAreSound DEF Sound, IInv, TypeOK
<1>2. TypeOK'
  BY <1>1 DEF IInv, TypeOK, Sound
<1>3. PassesAreRemembered' /\ ActiveWasVerified'
  BY DEF IInv, PassesAreRemembered, ActiveWasVerified
<1>4. SessionsKeepToTheirKind' /\ CopiesAreBacked' /\ OrdersAreWhole'
  BY <1>1 DEF SessionsKeepToTheirKind, CopiesAreBacked, OrdersAreWhole, Sound
<1>5. UnracedIsCurrent'
  BY <1>1 DEF UnracedIsCurrent, Sound, Known
<1> QED
  BY <1>2, <1>3, <1>4, <1>5 DEF IInv

\* The passing of time keeps the invariant ...
LEMMA ClockKeeps ==
  ASSUME IInv, Tick \/ TimePasses
  PROVE  IInv'
<1>1. queued' \subseteq Sources
  <2>1. \A offered \in Offers : offered \subseteq Sources
    BY DEF Offers, First
  <2> QED
    BY <2>1 DEF IInv, TypeOK, Tick, TimePasses
<1>2. age' \in [Sources -> 0..Never]
  BY BoundAssumption DEF IInv, TypeOK, Tick, TimePasses, Never
<1>3. UNCHANGED <<row, session, passed>>
  BY DEF Tick, TimePasses
<1> QED
  BY <1>1, <1>2, <1>3
     DEF IInv, TypeOK, SessionsKeepToTheirKind, PassesAreRemembered, CopiesAreBacked,
         UnracedIsCurrent, OrdersAreWhole, ActiveWasVerified, Known

\* ... reading a source into a session does ...
LEMMA LoadKeeps ==
  ASSUME IInv, NEW x \in Sessions, NEW s \in Sources, Load(x, s) \/ CopyOut(x, s)
  PROVE  IInv'
<1>1. row[s] \in Row /\ (row[s].verification = "PASSED" => s \in passed)
                     /\ (row[s].lifecycle = "ACTIVE" => s \in passed)
  BY RowsAreRows
<1>2. CASE Load(x, s)
  <2> DEFINE mine == Loaded(x, row[s])
             n == [Idle EXCEPT !.at = "loaded", !.src = s, !.mine = mine]
  <2>1. /\ mine \in Row
        /\ mine.verification = "PASSED" => s \in passed
        /\ mine.lifecycle = "ACTIVE" => s \in passed
        /\ x \in Workers \cup Operators => \A c \in Known(x) : mine[c] = row[s][c]
    <3>1. CASE x \in Workers
      <4>1. mine = [Registered(FALSE) EXCEPT !.failures = row[s].failures,
                                             !.health = row[s].health]
        BY <3>1 DEF Loaded
      <4> QED
        BY <1>1, <3>1, <4>1, RegisteredIsRow DEF Known, Registered, Row
    <3>2. CASE x \in Operators
      <4>1. mine = [row[s] EXCEPT !.failures = 0, !.health = "UNKNOWN"]
        BY <3>2, SessionAssumption DEF Loaded
      <4>2. Known(x) = {"lifecycle", "active", "paused", "verification"}
        BY <3>2, SessionAssumption DEF Known
      <4>3. 0 \in 0..MaxFailures /\ "UNKNOWN" \in HealthStatus
        BY BoundAssumption DEF HealthStatus
      <4>4. mine \in Row
        BY <1>1, <4>1, <4>3 DEF Row
      <4> QED
        BY <1>1, <4>1, <4>2, <4>4 DEF Row
    <3>3. CASE x \notin Workers \cup Operators
      BY <1>1, <3>3 DEF Loaded
    <3> QED
      BY <3>1, <3>2, <3>3
  <2>2. Sound(x, n)
    <3> HIDE DEF mine
    <3> QED
      BY <1>2, <2>1 DEF Load, Sound, Idle, Session
  <2> HIDE DEF n
  <2> QED
    BY <1>2, <2>2, SessionStepKeeps DEF Load, n, IInv, TypeOK
<1>3. CASE CopyOut(x, s)
  <2> DEFINE n == [Idle EXCEPT !.at = "copied", !.src = s, !.mine = row[s]]
  <2>1. Sound(x, n)
    BY <1>1, <1>3 DEF CopyOut, Sound, Idle, Session
  <2> QED
    BY <1>3, <2>1, SessionStepKeeps DEF CopyOut, IInv, TypeOK
<1> QED
  BY <1>2, <1>3

\* ... writing the outcome of a verification does ...
LEMMA RecordKeeps ==
  ASSUME IInv, NEW x \in Sessions, NEW status \in {"PASSED", "FAILED"}, Record(x, status)
  PROVE  IInv'
<1> DEFINE old == session[x]
           new == Reported(old.mine, status)
           n == [old EXCEPT !.at = "recorded", !.mine = new, !.order = "none",
                            !.dirty = @ \cup Changes(old.mine, new)]
<1>1. Sound(x, old) /\ old.at = "loaded" /\ x \in Operators /\ old.mine \in Row
  BY SessionsAreSound DEF Record, Sound, Session
<1>2. /\ new \in Row
      /\ new.verification = status
      /\ new.lifecycle = "ACTIVE" => status = "PASSED"
  <2> DEFINE next == IF status = "PASSED" /\ old.mine.lifecycle \in {"DISCOVERED", "PENDING_VERIFICATION"}
                     THEN "VERIFIED"
                     ELSE IF status # "PASSED" /\ old.mine.lifecycle = "ACTIVE" THEN "DEGRADED"
                     ELSE old.mine.lifecycle
  <2>1. new = [old.mine EXCEPT !.verification = status, !.lifecycle = next]
    BY <1>1 DEF Reported, Row
  <2>2. /\ next \in SourceLifecycle /\ status \in VerificationStatus
        /\ next = "ACTIVE" => status = "PASSED"
    BY <1>1 DEF Row, SourceLifecycle, VerificationStatus
  <2> HIDE DEF next
  <2> QED
    BY <1>1, <2>1, <2>2 DEF Row
<1>3. /\ Changes(old.mine, new) \subseteq Columns
      /\ \A c \in Columns \ Changes(old.mine, new) : new[c] = old.mine[c]
  BY DEF Changes
<1>4. Known(x) \subseteq Columns /\ "verification" \in Columns
  BY DEF Known, Columns
<1> HIDE DEF new
<1>5. n \in Session
  BY <1>1, <1>2, <1>3 DEF Sound, Session
<1>6. Sound(x, n)
  <2>1. /\ n.at = "recorded" /\ n.mine = new /\ n.order = "none" /\ n.src = old.src
        /\ n.raced = old.raced /\ n.dirty = old.dirty \cup Changes(old.mine, new)
    BY <1>1 DEF Sound, Session
  <2>2. n.mine.verification = "PASSED" => n.src \in passed \/ "verification" \in n.dirty
    BY <1>1, <1>3, <1>4, <2>1 DEF Sound
  <2>3. n.mine.lifecycle = "ACTIVE" => n.mine.verification = "PASSED"
    BY <1>2, <2>1
  <2>4. ~n.raced => \A c \in Known(x) \ n.dirty : n.mine[c] = row[n.src][c]
    BY <1>1, <1>3, <1>4, <2>1 DEF Sound
  <2> QED
    BY <1>1, <1>5, <2>1, <2>2, <2>3, <2>4 DEF Sound
<1>7. session' = [session EXCEPT ![x] = n] /\ UNCHANGED <<row, age, queued, passed>>
  BY DEF Record, Operate, new, IInv, TypeOK
<1> QED
  BY <1>6, <1>7, SessionStepKeeps DEF IInv, TypeOK

\* ... setting a lifecycle status does ...
LEMMA SetLifecycleKeeps ==
  ASSUME IInv, NEW x \in Sessions, NEW target \in Targets, SetLifecycle(x, target)
  PROVE  IInv'
<1> DEFINE old == session[x]
           new == Ordered(old.mine, target)
           written == Changes(old.mine, new) \cup (IF target = "PAUSED" THEN {"paused"} ELSE {})
           n == [old EXCEPT !.at = "ordered", !.mine = new, !.order = target,
                            !.dirty = @ \cup written]
<1>1. /\ Sound(x, old) /\ old.at \in {"loaded", "recorded"}
      /\ x \in Operators /\ old.mine \in Row
      /\ target = "ACTIVE" => old.mine.verification = "PASSED"
  BY SessionsAreSound DEF SetLifecycle, Sound, Session, Verified
<1>2. /\ new \in Row
      /\ new.verification = old.mine.verification
      /\ new.lifecycle = target
      /\ new.active = Schedulable(target)
      /\ new.paused = (target = "PAUSED")
  <2>1. target \in SourceLifecycle /\ Schedulable(target) \in BOOLEAN
    BY TargetAssumption DEF Schedulable
  <2> QED
    BY <1>1, <2>1 DEF Ordered, Row
<1>3. /\ written \subseteq Columns
      /\ \A c \in Columns \ written : new[c] = old.mine[c]
  BY DEF Changes, Columns
<1>4. Known(x) \subseteq Columns
  BY DEF Known, Columns
<1>5. session' = [session EXCEPT ![x] = n] /\ UNCHANGED <<row, age, queued, passed>>
  BY DEF SetLifecycle, Operate, IInv, TypeOK
<1> HIDE DEF new, written
<1>6. n \in Session
  BY <1>1, <1>2, <1>3 DEF Sound, Session
<1>7. Sound(x, n)
  <2>1. /\ n.at = "ordered" /\ n.mine = new /\ n.order = target /\ n.src = old.src
        /\ n.raced = old.raced /\ n.dirty = old.dirty \cup written
    BY <1>1 DEF Sound, Session
  <2>2. n.mine.verification = "PASSED" => n.src \in passed \/ "verification" \in n.dirty
    BY <1>1, <1>2, <2>1 DEF Sound
  <2>3. n.mine.lifecycle = "ACTIVE" => n.mine.verification = "PASSED"
    BY <1>1, <1>2, <2>1
  <2>4. ~n.raced => \A c \in Known(x) \ n.dirty : n.mine[c] = row[n.src][c]
    BY <1>1, <1>3, <1>4, <2>1 DEF Sound
  <2> QED
    BY <1>1, <1>2, <1>6, <2>1, <2>2, <2>3, <2>4 DEF Sound
<1> QED
  BY <1>5, <1>7, SessionStepKeeps DEF IInv, TypeOK

\* ... merging an old copy, the start of a run and a rollback do ...
LEMMA BatchStepKeeps ==
  ASSUME IInv, NEW x \in Sessions, Merge(x) \/ StartRun(x) \/ Rollback(x)
  PROVE  IInv'
<1> DEFINE old == session[x]
<1>1. Sound(x, old)
  BY SessionsAreSound
<1>2. CASE Merge(x)
  <2> DEFINE written == Changes(row[old.src], old.mine)
             n == [old EXCEPT !.at = "merged", !.dirty = written]
  <2>1. old.at = "copied" /\ x \in Batches /\ old.src \in Sources
    BY <1>1, <1>2 DEF Merge, Sound
  <2>2. row[old.src].verification = "PASSED" => old.src \in passed
    BY <2>1, RowsAreRows
  <2>3. /\ written \subseteq Columns
        /\ \A c \in Columns \ written : old.mine[c] = row[old.src][c]
    BY DEF Changes
  <2>4. Known(x) \subseteq Columns /\ "verification" \in Columns
    BY DEF Known, Columns
  <2>5. session' = [session EXCEPT ![x] = n] /\ UNCHANGED <<row, age, queued, passed>>
    BY <1>2 DEF Merge, IInv, TypeOK
  <2> HIDE DEF written
  <2>6. /\ n \in Session /\ n.at = "merged" /\ n.mine = old.mine /\ n.order = old.order
        /\ n.src = old.src /\ n.raced = old.raced /\ n.dirty = written
    BY <1>1, <2>3 DEF Sound, Session
  <2>7. Sound(x, n)
    <3>1. n.mine.verification = "PASSED" => n.src \in passed \/ "verification" \in n.dirty
      BY <2>2, <2>3, <2>4, <2>6
    <3> QED
      BY <1>1, <2>1, <2>3, <2>4, <2>6, <3>1 DEF Sound
  <2> QED
    BY <2>5, <2>7, SessionStepKeeps DEF IInv, TypeOK
<1>3. CASE StartRun(x)
  <2> DEFINE n == [old EXCEPT !.at = "running"]
  <2>1. /\ old.at = "merged"
        /\ session' = [session EXCEPT ![x] = n] /\ UNCHANGED <<row, age, queued, passed>>
    BY <1>3 DEF StartRun, IInv, TypeOK
  <2>2. /\ n \in Session /\ n.at = "running" /\ n.mine = old.mine /\ n.order = old.order
        /\ n.src = old.src /\ n.raced = old.raced /\ n.dirty = old.dirty
    BY <1>1 DEF Sound, Session
  <2>3. Sound(x, n)
    BY <1>1, <2>1, <2>2 DEF Sound
  <2> QED
    BY <2>1, <2>3, SessionStepKeeps DEF IInv, TypeOK
<1>4. CASE Rollback(x)
  BY <1>4, IdleIsSound, SessionStepKeeps DEF Rollback, IInv, TypeOK
<1> QED
  BY <1>2, <1>3, <1>4

(***************************************************************************)
(* Steps that commit a row.                                                *)
(***************************************************************************)
LEMMA CommitKeeps ==
  ASSUME IInv, NEW x \in Sessions, session[x].src \in Sources,
         NEW new \in Row,
         new.lifecycle = "ACTIVE" => session[x].src \in passed \/ new.verification = "PASSED",
         Commits(x, new),
         age' \in [Sources -> 0..Never], queued' = queued
  PROVE  IInv'
<1> DEFINE s == session[x].src
<1>1. /\ row' = [row EXCEPT ![s] = new]
      /\ passed \subseteq passed' /\ passed' \subseteq Sources
      /\ new.verification = "PASSED" => s \in passed'
  BY DEF Commits, IInv, TypeOK
<1>2. \A y \in Sessions : session'[y] =
         IF y = x THEN Idle
         ELSE IF session[y].src = s THEN [session[y] EXCEPT !.raced = TRUE] ELSE session[y]
  BY DEF Commits
<1>3. \A t \in Sources : row'[t] = IF t = s THEN new ELSE row[t]
  BY <1>1 DEF IInv, TypeOK
<1>4. Idle \in Session /\ Idle.at = "idle" /\ Idle.order = "none"
  BY IdleIsSound DEF Sound, Idle
<1>5. \A y \in Sessions :
         \/ session'[y] = Idle
         \/ /\ session'[y] \in Session
            /\ session'[y].at = session[y].at /\ session'[y].src = session[y].src
            /\ session'[y].mine = session[y].mine /\ session'[y].dirty = session[y].dirty
            /\ session'[y].order = session[y].order
            /\ ~session'[y].raced => ~session[y].raced /\ session[y].src # s
  <2> TAKE y \in Sessions
  <2>1. session[y] \in Session
    BY SessionsAreSound DEF Sound
  <2>2. CASE y = x
    BY <1>2, <2>2
  <2>3. CASE y # x /\ session[y].src = s
    BY <1>2, <2>1, <2>3 DEF Session
  <2>4. CASE y # x /\ session[y].src # s
    BY <1>2, <2>1, <2>4
  <2> QED
    BY <2>2, <2>3, <2>4
<1>6. TypeOK'
  <2>1. session' \in [Sessions -> Session]
    BY <1>4, <1>5 DEF Commits
  <2>2. \A y \in Sessions : session'[y].at # "idle" => session'[y].src \in Sources
    BY <1>4, <1>5 DEF IInv, TypeOK
  <2>3. row' \in [Sources -> Row] /\ queued' \subseteq Sources
    BY <1>1 DEF IInv, TypeOK
  <2> QED
    BY <1>1, <2>1, <2>2, <2>3 DEF TypeOK
<1>7. SessionsKeepToTheirKind'
  BY <1>4, <1>5 DEF IInv, SessionsKeepToTheirKind
<1>8. PassesAreRemembered' /\ ActiveWasVerified'
  BY <1>1, <1>3 DEF IInv, PassesAreRemembered, ActiveWasVerified
<1>9. CopiesAreBacked'
  BY <1>1, <1>4, <1>5 DEF IInv, CopiesAreBacked
<1>10. UnracedIsCurrent'
  <2> SUFFICES ASSUME NEW y \in Sessions, session'[y].at # "idle", ~session'[y].raced
               PROVE  \A c \in Known(y) \ session'[y].dirty :
                         session'[y].mine[c] = row'[session'[y].src][c]
    BY DEF UnracedIsCurrent, Known
  <2>1. \A c \in Known(y) \ session[y].dirty : session[y].mine[c] = row[session[y].src][c]
    BY <1>4, <1>5 DEF IInv, UnracedIsCurrent
  <2>2. session[y].src \in Sources /\ session[y].src # s
    BY <1>4, <1>5 DEF IInv, TypeOK
  <2>3. row'[session'[y].src] = row[session[y].src]
    BY <1>3, <1>4, <1>5, <2>2
  <2> QED
    BY <1>4, <1>5, <2>1, <2>3
<1>11. OrdersAreWhole'
  BY <1>4, <1>5 DEF IInv, OrdersAreWhole
<1> QED
  BY <1>6, <1>7, <1>8, <1>9, <1>10, <1>11 DEF IInv

\* A session that writes back the lifecycle and the verification it has in
\* memory makes the row ACTIVE only if the source passed a verification.
LEMMA WrittenIsBacked ==
  ASSUME IInv, NEW x \in Sessions, session[x].at # "idle",
         NEW mine \in Row, NEW dirty \in SUBSET Columns,
         mine.lifecycle = session[x].mine.lifecycle,
         mine.verification = session[x].mine.verification,
         "verification" \in session[x].dirty => "verification" \in dirty
  PROVE  LET new == Written(x, mine, dirty)
         IN  /\ session[x].src \in Sources
             /\ new \in Row
             /\ new.lifecycle = "ACTIVE" =>
                   session[x].src \in passed \/ new.verification = "PASSED"
<1> DEFINE new == Written(x, mine, dirty)
           s == session[x].src
<1>1. s \in Sources
  BY DEF IInv, TypeOK
<1>2. /\ new \in Row
      /\ new.lifecycle = IF "lifecycle" \in dirty THEN mine.lifecycle ELSE row[s].lifecycle
      /\ "verification" \in dirty => new.verification = mine.verification
  <2>1. "lifecycle" \in Columns /\ "verification" \in Columns
    BY DEF Columns
  <2> QED
    BY <1>1, <2>1, WrittenByColumn
<1> HIDE DEF new
<1>3. row[s].lifecycle = "ACTIVE" => s \in passed
  BY <1>1, RowsAreRows
<1>4. /\ mine.lifecycle = "ACTIVE" => s \in passed \/ mine.verification = "PASSED"
      /\ mine.verification = "PASSED" => s \in passed \/ "verification" \in dirty
  BY SessionsAreSound DEF Sound
<1> QED
  BY <1>1, <1>2, <1>3, <1>4 DEF new

\* ... a run that ends does ...
LEMMA FinishRunKeeps ==
  ASSUME IInv, NEW x \in Sessions, NEW ok \in BOOLEAN, FinishRun(x, ok)
  PROVE  IInv'
<1> DEFINE mine == session[x].mine
           new == UpdateHealth(mine, ok)
           dirty == session[x].dirty \cup Changes(mine, new)
<1>1. /\ session[x].at # "idle" /\ mine \in Row /\ session[x].dirty \subseteq Columns
      /\ ok \/ CanFail(mine.failures)
      /\ Commits(x, Written(x, new, dirty))
  BY SessionsAreSound DEF FinishRun, Sound, Session
<1>2. /\ new \in Row
      /\ Changes(mine, new) \subseteq {"failures", "health"}
  BY <1>1, UpdateHealthIsRow
<1>3. dirty \in SUBSET Columns
  BY <1>1, <1>2 DEF Columns
<1>4. new.lifecycle = mine.lifecycle /\ new.verification = mine.verification
  BY <1>2 DEF Changes, Columns
<1>5. age' \in [Sources -> 0..Never] /\ queued' = queued
  <2>1. 0 \in 0..Never
    BY BoundAssumption DEF Never
  <2> QED
    BY <2>1 DEF FinishRun, IInv, TypeOK
<1> HIDE DEF new
<1> DEFINE written == Written(x, new, dirty)
<1>6. /\ session[x].src \in Sources
      /\ written \in Row
      /\ written.lifecycle = "ACTIVE" =>
            session[x].src \in passed \/ written.verification = "PASSED"
  BY <1>1, <1>2, <1>3, <1>4, WrittenIsBacked
<1> HIDE DEF written, dirty
<1> QED
  BY <1>1, <1>5, <1>6, CommitKeeps DEF written

\* ... and so do a commit and the import of a definition.
LEMMA OperatorCommitKeeps ==
  ASSUME IInv, NEW x \in Sessions,
         Commit(x) \/ \E enabled \in BOOLEAN : ImportDefinition(x, enabled)
  PROVE  IInv'
<1> DEFINE mine == session[x].mine
<1>1. Sound(x, session[x]) /\ age \in [Sources -> 0..Never]
  BY SessionsAreSound DEF IInv, TypeOK
<1>2. CASE Commit(x)
  <2> DEFINE written == Written(x, mine, session[x].dirty)
  <2>1. /\ session[x].at # "idle" /\ mine \in Row /\ session[x].dirty \in SUBSET Columns
        /\ Commits(x, written) /\ UNCHANGED <<age, queued>>
    BY <1>1, <1>2 DEF Commit, Sound, Session
  <2>2. /\ session[x].src \in Sources
        /\ written \in Row
        /\ written.lifecycle = "ACTIVE" =>
              session[x].src \in passed \/ written.verification = "PASSED"
    BY <2>1, WrittenIsBacked
  <2> HIDE DEF written
  <2> QED
    BY <1>1, <2>1, <2>2, CommitKeeps
<1>3. ASSUME NEW enabled \in BOOLEAN, ImportDefinition(x, enabled) PROVE IInv'
  <2> DEFINE new == [mine EXCEPT !.active = enabled]
             written == Written(x, new, Changes(mine, new))
             s == session[x].src
  <2>1. /\ mine \in Row /\ s \in Sources
        /\ Commits(x, written) /\ UNCHANGED <<age, queued>>
    BY <1>1, <1>3 DEF ImportDefinition, Sound, Session
  <2>2. /\ new \in Row
        /\ Changes(mine, new) \subseteq {"active"}
    BY <2>1 DEF Row, Changes, Columns
  <2>3. /\ Changes(mine, new) \in SUBSET Columns /\ "lifecycle" \in Columns
        /\ "lifecycle" \notin Changes(mine, new)
    BY <2>2 DEF Columns
  <2> HIDE DEF new
  <2>4. written \in Row /\ written.lifecycle = row[s].lifecycle
    BY <2>1, <2>2, <2>3, WrittenByColumn
  <2>5. row[s].lifecycle = "ACTIVE" => s \in passed
    BY <2>1, RowsAreRows
  <2> HIDE DEF written
  <2> QED
    BY <1>1, <2>1, <2>4, <2>5, CommitKeeps
<1> QED
  BY <1>2, <1>3

(***************************************************************************)
(* The promises.                                                           *)
(***************************************************************************)
LEMMA NextKeepsIInv == IInv /\ [Next]_vars => IInv'
<1> SUFFICES ASSUME IInv, [Next]_vars PROVE IInv'
  OBVIOUS
<1>1. CASE UNCHANGED vars
  BY <1>1
     DEF vars, IInv, TypeOK, SessionsKeepToTheirKind, PassesAreRemembered, CopiesAreBacked,
         UnracedIsCurrent, OrdersAreWhole, ActiveWasVerified, Known
<1>2. CASE Tick \/ TimePasses
  BY <1>2, ClockKeeps
<1>3. ASSUME NEW x \in Sessions,
             \/ \E s \in Sources : Load(x, s) \/ CopyOut(x, s)
             \/ \E ok \in BOOLEAN : FinishRun(x, ok)
             \/ \E status \in {"PASSED", "FAILED"} : Record(x, status)
             \/ \E target \in Targets : SetLifecycle(x, target)
             \/ Commit(x)
             \/ \E enabled \in BOOLEAN : ImportDefinition(x, enabled)
             \/ Merge(x)
             \/ StartRun(x)
             \/ Rollback(x)
      PROVE  IInv'
  BY <1>3, LoadKeeps, FinishRunKeeps, RecordKeeps, SetLifecycleKeeps, OperatorCommitKeeps,
     BatchStepKeeps
<1> QED
  BY <1>1, <1>2, <1>3 DEF Next

\* The inductive invariant holds always, of the table and of every session.
THEOREM AlwaysIInv == Spec => []IInv
  BY InitIInv, NextKeepsIInv, PTL DEF Spec

\* Every variable stays of its type, for any number of sessions and sources.
THEOREM TypeCorrect == Spec => []TypeOK
<1>1. IInv => TypeOK
  BY DEF IInv
<1> QED
  BY <1>1, AlwaysIInv, PTL

\* Whatever copies of a row workers, operators and manual batches write back,
\* in any order, no source is ACTIVE without a pass on record.
THEOREM ActivationRestsOnAPass == Spec => []ActiveWasVerified
<1>1. IInv => ActiveWasVerified
  BY DEF IInv
<1> QED
  BY <1>1, AlwaysIInv, PTL

\* A run that no other commit overtook leaves the health its count calls for.
THEOREM HealthFollowsFailures == Spec => RunsReportHealth
<1>1. ASSUME IInv, NEW x \in Workers \cup Batches, NEW ok \in BOOLEAN,
             FinishRun(x, ok), ~session[x].raced
      PROVE  row'[session[x].src].health = HealthFor(row'[session[x].src].failures)
  <2> DEFINE mine == session[x].mine
             new == UpdateHealth(mine, ok)
             dirty == session[x].dirty \cup Changes(mine, new)
             written == Written(x, new, dirty)
             s == session[x].src
  <2>1. /\ x \in Sessions /\ session[x].at # "idle" /\ s \in Sources
        /\ mine \in Row /\ session[x].dirty \subseteq Columns
        /\ ok \/ CanFail(mine.failures)
        /\ Commits(x, written)
    BY <1>1, SessionsAreSound DEF Sessions, FinishRun, Sound, Session
  <2>2. new \in Row /\ new.health = HealthFor(new.failures)
    BY <2>1, UpdateHealthIsRow
  <2>3. \A c \in {"failures", "health"} \ dirty : new[c] = row[s][c]
    <3>1. {"failures", "health"} \subseteq Known(x) \cap Columns
      BY <1>1, SessionAssumption DEF Known, Columns
    <3>2. \A c \in Known(x) \ session[x].dirty : mine[c] = row[s][c]
      BY <1>1, <2>1 DEF IInv, UnracedIsCurrent
    <3> QED
      BY <3>1, <3>2 DEF Changes
  <2>4. dirty \in SUBSET Columns
    BY <2>1 DEF Changes
  <2> HIDE DEF new, dirty
  <2>5. written.health = new.health /\ written.failures = new.failures
    <3>1. "failures" \in Columns /\ "health" \in Columns
      BY DEF Columns
    <3> QED
      BY <1>1, <2>1, <2>2, <2>3, <2>4, <3>1, WrittenByColumn
  <2>6. row'[s] = written
    BY <1>1, <2>1 DEF Commits, IInv, TypeOK
  <2> QED
    BY <2>2, <2>5, <2>6
<1>2. IInv /\ [Next]_vars =>
         [\A x \in Workers \cup Batches, ok \in BOOLEAN :
             FinishRun(x, ok) /\ ~session[x].raced =>
                row'[session[x].src].health = HealthFor(row'[session[x].src].failures)]_vars
  BY <1>1
<1> QED
  BY <1>2, AlwaysIInv, PTL DEF Spec, RunsReportHealth

\* An order no other commit overtook is carried out as a whole.
THEOREM OrdersAreCarriedOut == Spec => OrdersTakeEffect
<1>1. ASSUME IInv, NEW x \in Operators, Commit(x), session[x].order # "none", ~session[x].raced
      PROVE  LET new == row'[session[x].src]
             IN  /\ new.lifecycle = session[x].order
                 /\ new.active = Schedulable(session[x].order)
                 /\ new.paused = (session[x].order = "PAUSED")
  <2> DEFINE mine == session[x].mine
             dirty == session[x].dirty
             written == Written(x, mine, dirty)
             s == session[x].src
  <2>1. /\ x \in Sessions /\ session[x].at # "idle" /\ s \in Sources
        /\ mine \in Row /\ dirty \in SUBSET Columns
        /\ Commits(x, written)
    BY <1>1, SessionsAreSound DEF Sessions, Commit, Sound, Session
  <2>2. \A c \in {"lifecycle", "active", "paused"} \ dirty : mine[c] = row[s][c]
    <3>1. {"lifecycle", "active", "paused"} \subseteq Known(x)
      BY SessionAssumption DEF Known
    <3> QED
      BY <1>1, <2>1, <3>1 DEF IInv, UnracedIsCurrent
  <2>3. /\ written.lifecycle = mine.lifecycle
        /\ written.active = mine.active
        /\ written.paused = mine.paused
    <3>1. "lifecycle" \in Columns /\ "active" \in Columns /\ "paused" \in Columns
      BY DEF Columns
    <3> QED
      BY <1>1, <2>1, <2>2, <3>1, WrittenByColumn
  <2>4. row'[s] = written
    BY <1>1, <2>1 DEF Commits, IInv, TypeOK
  <2>5. /\ mine.lifecycle = session[x].order
        /\ mine.active = Schedulable(session[x].order)
        /\ mine.paused = (session[x].order = "PAUSED")
    BY <1>1, <2>1, SessionsAreSound DEF Sound
  <2> QED
    BY <2>3, <2>4, <2>5
<1>2. IInv /\ [Next]_vars =>
         [\A x \in Operators :
             Commit(x) /\ session[x].order # "none" /\ ~session[x].raced =>
                LET new == row'[session[x].src]
                IN  /\ new.lifecycle = session[x].order
                    /\ new.active = Schedulable(session[x].order)
                    /\ new.paused = (session[x].order = "PAUSED")]_vars
  BY <1>1
<1> QED
  BY <1>2, AlwaysIInv, PTL DEF Spec, OrdersTakeEffect
=============================================================================
