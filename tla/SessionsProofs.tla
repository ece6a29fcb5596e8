------------------------------ MODULE SessionsProofs ------------------------------
(***************************************************************************)
(* The unique index holds however many sessions overlap.  A step leaves    *)
(* locks and index alone (Quiet), gives a session's locks up (RollBack),   *)
(* or is one of Write, Check and Commit, which are proved one by one.      *)
(***************************************************************************)
EXTENDS Sessions, SeedProofs

\* The invariant, with what the rows of the tables are indexed by.
LockInvariant ==
  /\ DOMAIN requests = Requests
  /\ DOMAIN at = Sessions
  /\ DOMAIN plan = Sessions
  /\ DOMAIN held = Sessions
  /\ IndexInvariant

\* A step of s that neither takes a lock, nor touches the index, nor commits.
Quiet(s) ==
  /\ UNCHANGED <<requests, held>>
  /\ DOMAIN at' = Sessions /\ DOMAIN plan' = Sessions
  /\ at[s] # "checking" /\ at'[s] # "checking"
  /\ \A o \in Others(s) : at'[o] = at[o] /\ plan'[o] = plan[o]

\* The index compares rows without regard to their order.
LEMMA ClashIsSymmetric ==
  ASSUME NEW row1, NEW row2, Clash(row1, row2)
  PROVE  Clash(row2, row1)
BY DEF Clash, Terminal

LEMMA UniqueMeansNoClash ==
  ASSUME NEW reqs
  PROVE  UniqueActive(reqs) <=>
           \A r1, r2 \in Requests : r1 # r2 => ~Clash(reqs[r1], reqs[r2])
BY DEF UniqueActive, Clash

\* Outside a unique check everything a session has written is in the index.
LEMMA IndexedRows ==
  ASSUME NEW s, at[s] # "checking"
  PROVE  Indexed(s) = Requests \cap DOMAIN held[s]
BY DEF Indexed

LEMMA QuietKeeps ==
  ASSUME LockInvariant, NEW s \in Sessions, Quiet(s)
  PROVE  LockInvariant'
<1>1. \A o \in Sessions : Indexed(o)' = Indexed(o)
  <2> SUFFICES ASSUME NEW o \in Sessions PROVE Indexed(o)' = Indexed(o)
    OBVIOUS
  <2>1. CASE o = s
    BY <2>1 DEF Quiet, Indexed
  <2>2. CASE o # s
    BY <2>2 DEF Quiet, Indexed, Others
  <2> QED BY <2>1, <2>2
<1>2. LocksExclude' /\ UniqueActive(requests)'
  BY DEF LockInvariant, IndexInvariant, LocksExclude, Quiet, UniqueActive
<1>3. /\ DOMAIN requests' = Requests /\ DOMAIN at' = Sessions
      /\ DOMAIN plan' = Sessions /\ DOMAIN held' = Sessions
  BY DEF LockInvariant, Quiet
<1>4. held' = held /\ requests' = requests
  BY DEF Quiet
<1> QED BY <1>1, <1>2, <1>3, <1>4 DEF LockInvariant, IndexInvariant

LEMMA RollBackKeeps ==
  ASSUME LockInvariant, NEW s \in Sessions, NEW outcome, RollBack(s, outcome)
  PROVE  LockInvariant'
<1>1. /\ DOMAIN requests' = Requests /\ DOMAIN at' = Sessions
      /\ DOMAIN plan' = Sessions /\ DOMAIN held' = Sessions
  BY DEF LockInvariant, RollBack, ReleasedBy, tables
<1>2. /\ requests' = requests
      /\ DOMAIN held'[s] = {}
      /\ \A o \in Others(s) : held'[o] = held[o] /\ at'[o] = at[o] /\ plan'[o] = plan[o]
  BY DEF LockInvariant, RollBack, ReleasedBy, NoRows, Others, tables
<1>3. Indexed(s)' = {} /\ \A o \in Others(s) : Indexed(o)' = Indexed(o)
  BY <1>2 DEF Indexed
<1>4. LocksExclude' /\ UniqueActive(requests)'
  BY <1>2 DEF LockInvariant, IndexInvariant, LocksExclude, Others, UniqueActive
<1> QED BY <1>1, <1>2, <1>3, <1>4 DEF LockInvariant, IndexInvariant, Others

-----------------------------------------------------------------------------
(* Taking a lock, entering the index and committing.                       *)

LEMMA WriteKeeps ==
  ASSUME LockInvariant, NEW s \in Sessions, Write(s)
  PROVE  LockInvariant'
<1> DEFINE k == plan[s][1]
           row == Merged(Stored(k), copies[s][k].db, copies[s][k].now)
<1>1. /\ at[s] = "writing"
      /\ Holders(s, k) = {}
      /\ held' = [held EXCEPT ![s] = With(@, k, row)]
      /\ requests' = requests
      /\ IF k \in Requests
           THEN at' = [at EXCEPT ![s] = "checking"] /\ plan' = plan
           ELSE plan' = [plan EXCEPT ![s] = Tail(@)] /\ at' = at
  BY DEF Write, tables
<1> HIDE DEF row
<1>2. /\ DOMAIN requests' = Requests /\ DOMAIN at' = Sessions
      /\ DOMAIN plan' = Sessions /\ DOMAIN held' = Sessions
  BY <1>1 DEF LockInvariant
<1>3. /\ DOMAIN held'[s] = DOMAIN held[s] \cup {k}
      /\ \A r \in DOMAIN held[s] : r # k => held'[s][r] = held[s][r]
      /\ \A o \in Others(s) : held'[o] = held[o] /\ at'[o] = at[o] /\ plan'[o] = plan[o]
  BY <1>1 DEF LockInvariant, With, Others
<1>4. Indexed(s)' \subseteq Indexed(s) \ {k}
  <2>1. CASE k \in Requests
    BY <1>1, <1>3, <2>1 DEF LockInvariant, Indexed
  <2>2. CASE k \notin Requests
    BY <1>1, <1>3, <2>2 DEF LockInvariant, Indexed
  <2> QED BY <2>1, <2>2
<1>5. \A o \in Others(s) : Indexed(o)' = Indexed(o)
  BY <1>3 DEF Indexed
<1>6. \A o \in Sessions : \A r \in Indexed(o)' : r \in Indexed(o) /\ held'[o][r] = held[o][r]
  BY <1>3, <1>4, <1>5 DEF Others, Indexed
<1>7. \A o \in Sessions : DOMAIN held[o] \subseteq DOMAIN held'[o]
  BY <1>3 DEF Others
<1>8. LocksExclude'
  BY <1>1, <1>3 DEF LockInvariant, IndexInvariant, LocksExclude, Others, Holders
<1>9. UniqueActive(requests)'
  BY <1>1 DEF LockInvariant, IndexInvariant, UniqueActive
<1> QED BY <1>1, <1>2, <1>6, <1>7, <1>8, <1>9 DEF LockInvariant, IndexInvariant

LEMMA CheckKeeps ==
  ASSUME LockInvariant, NEW s \in Sessions, Check(s)
  PROVE  LockInvariant'
<1> DEFINE k == plan[s][1]
<1>1. /\ at[s] = "checking"
      /\ ~Duplicate(s, k)
      /\ Rivals(s, k) = {}
      /\ at' = [at EXCEPT ![s] = "writing"]
      /\ plan' = [plan EXCEPT ![s] = Tail(@)]
      /\ requests' = requests /\ held' = held
  BY DEF Check, tables
<1>2. /\ DOMAIN requests' = Requests /\ DOMAIN at' = Sessions
      /\ DOMAIN plan' = Sessions /\ DOMAIN held' = Sessions
  BY <1>1 DEF LockInvariant
<1>3. \A o \in Others(s) : Indexed(o)' = Indexed(o)
  BY <1>1 DEF LockInvariant, Indexed, Others
<1>4. \A r \in Indexed(s)' :
        r \in Requests \cap DOMAIN held[s] /\ (r = k \/ r \in Indexed(s))
  BY <1>1 DEF LockInvariant, Indexed
<1>5. \A q \in Requests \ {k} :
        /\ q \notin DOMAIN held[s] => ~Clash(held[s][k], requests[q])
        /\ q \in DOMAIN held[s] => ~Clash(held[s][k], held[s][q])
        /\ \A o \in Others(s) : q \in Indexed(o) => ~Clash(held[s][k], held[o][q])
  <2> SUFFICES ASSUME NEW q \in Requests \ {k}
               PROVE  /\ q \notin DOMAIN held[s] => ~Clash(held[s][k], requests[q])
                      /\ q \in DOMAIN held[s] => ~Clash(held[s][k], held[s][q])
                      /\ \A o \in Others(s) :
                           q \in Indexed(o) => ~Clash(held[s][k], held[o][q])
    OBVIOUS
  <2>1. ASSUME q \notin DOMAIN held[s] PROVE ~Clash(held[s][k], requests[q])
    <3>1. CASE Holders(s, q) = {}
      BY <1>1, <2>1, <3>1 DEF Duplicate
    <3>2. CASE Holders(s, q) # {}
      BY <1>1, <3>2 DEF Rivals, Holders
    <3> QED BY <3>1, <3>2
  <2>2. ASSUME q \in DOMAIN held[s] PROVE ~Clash(held[s][k], held[s][q])
    <3>1. Holders(s, q) = {}
      BY <2>2 DEF LockInvariant, IndexInvariant, LocksExclude, Holders, Others
    <3> QED BY <1>1, <2>2, <3>1 DEF Duplicate
  <2>3. ASSUME NEW o \in Others(s), q \in Indexed(o) PROVE ~Clash(held[s][k], held[o][q])
    BY <1>1, <2>3 DEF Rivals, Indexed
  <2> QED BY <2>1, <2>2, <2>3
<1>6. \A r \in Indexed(s)' : \A q \in Requests \ {r} :
        /\ q \notin DOMAIN held[s] => ~Clash(held[s][r], requests[q])
        /\ \A o \in Sessions : q \in Indexed(o)' => ~Clash(held[s][r], held[o][q])
  <2> SUFFICES ASSUME NEW r \in Indexed(s)', NEW q \in Requests \ {r}
               PROVE  /\ q \notin DOMAIN held[s] => ~Clash(held[s][r], requests[q])
                      /\ \A o \in Sessions :
                           q \in Indexed(o)' => ~Clash(held[s][r], held[o][q])
    OBVIOUS
  <2>1. CASE r = k
    BY <1>3, <1>4, <1>5, <2>1 DEF Others
  <2>2. CASE r # k /\ q # k
    BY <1>3, <1>4, <2>2 DEF Others, LockInvariant, IndexInvariant
  <2>3. CASE r # k /\ q = k
    <3>1. /\ r \in Indexed(s)
          /\ r \in Requests \ {k}
          /\ r \in DOMAIN held[s]
      BY <1>4, <2>3
    <3>2. q \notin DOMAIN held[s] => ~Clash(held[s][r], requests[q])
      BY <3>1 DEF LockInvariant, IndexInvariant
    <3>3. ~Clash(held[s][r], held[s][q])
      BY <1>5, <2>3, <3>1, ClashIsSymmetric
    <3>4. \A o \in Others(s) : q \in Indexed(o)' => ~Clash(held[s][r], held[o][q])
      BY <1>3, <3>1 DEF LockInvariant, IndexInvariant, Others
    <3> QED BY <3>2, <3>3, <3>4 DEF Others
  <2> QED BY <2>1, <2>2, <2>3
<1>7. \A p \in Others(s) : \A r \in Indexed(p)' : \A q \in Requests \ {r} :
        /\ q \notin DOMAIN held[p] => ~Clash(held[p][r], requests[q])
        /\ \A o \in Sessions : q \in Indexed(o)' => ~Clash(held[p][r], held[o][q])
  <2> SUFFICES ASSUME NEW p \in Others(s), NEW r \in Indexed(p)', NEW q \in Requests \ {r}
               PROVE  /\ q \notin DOMAIN held[p] => ~Clash(held[p][r], requests[q])
                      /\ \A o \in Sessions :
                           q \in Indexed(o)' => ~Clash(held[p][r], held[o][q])
    OBVIOUS
  <2>1. p \in Sessions /\ r \in Indexed(p) /\ r \in Requests
    BY <1>3 DEF Others, Indexed
  <2>2. q \notin DOMAIN held[p] => ~Clash(held[p][r], requests[q])
    BY <2>1 DEF LockInvariant, IndexInvariant
  <2>3. \A o \in Others(s) : q \in Indexed(o)' => ~Clash(held[p][r], held[o][q])
    BY <1>3, <2>1 DEF LockInvariant, IndexInvariant, Others
  <2>4. q \in Indexed(s)' => ~Clash(held[p][r], held[s][q])
    BY <1>6, <2>1, ClashIsSymmetric
  <2> QED BY <2>2, <2>3, <2>4 DEF Others
<1>8. LocksExclude' /\ UniqueActive(requests)'
  BY <1>1 DEF LockInvariant, IndexInvariant, LocksExclude, UniqueActive
<1> QED BY <1>1, <1>2, <1>6, <1>7, <1>8 DEF LockInvariant, IndexInvariant, Others

LEMMA CommitKeeps ==
  ASSUME LockInvariant, NEW s \in Sessions, Commit(s)
  PROVE  LockInvariant'
<1>1. /\ at[s] = "answered"
      /\ requests' = Committed(s, requests)
      /\ at' = [at EXCEPT ![s] = "done"]
      /\ held' = [held EXCEPT ![s] = NoRows]
      /\ plan' = plan
  BY DEF Commit
<1>2. /\ DOMAIN requests' = Requests /\ DOMAIN at' = Sessions
      /\ DOMAIN plan' = Sessions /\ DOMAIN held' = Sessions
  BY <1>1 DEF LockInvariant, Committed
<1>3. \A q \in Requests :
        /\ q \in DOMAIN held[s] => requests'[q] = held[s][q]
        /\ q \notin DOMAIN held[s] => requests'[q] = requests[q]
  BY <1>1 DEF LockInvariant, Committed
<1>4. /\ DOMAIN held'[s] = {}
      /\ \A o \in Others(s) : held'[o] = held[o] /\ at'[o] = at[o] /\ plan'[o] = plan[o]
  BY <1>1 DEF LockInvariant, NoRows, Others
<1>5. Indexed(s)' = {} /\ \A o \in Others(s) : Indexed(o)' = Indexed(o)
  BY <1>4 DEF Indexed
<1>6. Indexed(s) = Requests \cap DOMAIN held[s]
  BY <1>1, IndexedRows
<1>7. LocksExclude'
  BY <1>4 DEF LockInvariant, IndexInvariant, LocksExclude, Others
<1>8. UniqueActive(requests')
  <2> SUFFICES ASSUME NEW r1 \in Requests, NEW r2 \in Requests, r1 # r2
               PROVE  ~Clash(requests'[r1], requests'[r2])
    BY UniqueMeansNoClash
  <2>1. CASE r1 \in DOMAIN held[s]
    BY <1>3, <1>6, <2>1 DEF LockInvariant, IndexInvariant
  <2>2. CASE r1 \notin DOMAIN held[s] /\ r2 \in DOMAIN held[s]
    BY <1>3, <1>6, <2>2, ClashIsSymmetric DEF LockInvariant, IndexInvariant
  <2>3. CASE r1 \notin DOMAIN held[s] /\ r2 \notin DOMAIN held[s]
    BY <1>3, <2>3, UniqueMeansNoClash DEF LockInvariant, IndexInvariant
  <2> QED BY <2>1, <2>2, <2>3
<1>9. \A p \in Others(s) : \A r \in Indexed(p) : \A q \in Requests \ {r} :
        q \notin DOMAIN held[p] => ~Clash(held[p][r], requests'[q])
  BY <1>3, <1>6 DEF LockInvariant, IndexInvariant, Others
<1> QED BY <1>2, <1>4, <1>5, <1>7, <1>8, <1>9 DEF LockInvariant, IndexInvariant, Others

-----------------------------------------------------------------------------
(* The other steps.                                                        *)

LEMMA HandlerIsQuiet ==
  ASSUME LockInvariant, NEW s \in Sessions, Handler(s)
  PROVE  Quiet(s) \/ RollBack(s, "refused")
<1> USE DEF LockInvariant, Quiet, Handle, Others, tables
<1>1. CASE HandleDecision(s)
  BY <1>1 DEF HandleDecision
<1>2. CASE HandleAssign(s)
  BY <1>2 DEF HandleAssign
<1>3. CASE HandleShipping(s)
  BY <1>3 DEF HandleShipping
<1>4. CASE HandleCascade(s)
  BY <1>4 DEF HandleCascade
<1>5. CASE HandleChange(s)
  BY <1>5 DEF HandleChange
<1>6. CASE HandleStart(s)
  BY <1>6 DEF HandleStart
<1>7. CASE HandleSendToRepair(s)
  BY <1>7 DEF HandleSendToRepair
<1>8. CASE HandleResolve(s)
  BY <1>8 DEF HandleResolve
<1> QED BY <1>1, <1>2, <1>3, <1>4, <1>5, <1>6, <1>7, <1>8 DEF Handler

LEMMA StepKeeps ==
  ASSUME LockInvariant, NEW s \in Sessions, Step(s)
  PROVE  LockInvariant'
<1>1. CASE Read(s) \/ Answer(s)
  BY <1>1, QuietKeeps DEF Read, Answer, Quiet, LockInvariant, Others, tables
<1>2. CASE Handler(s)
  BY <1>2, HandlerIsQuiet, QuietKeeps, RollBackKeeps
<1>3. CASE Write(s)
  BY <1>3, WriteKeeps
<1>4. CASE Check(s)
  BY <1>4, CheckKeeps
<1>5. CASE Collide(s)
  BY <1>5, RollBackKeeps DEF Collide
<1>6. CASE Commit(s)
  BY <1>6, CommitKeeps
<1> QED BY <1>1, <1>2, <1>3, <1>4, <1>5, <1>6 DEF Step

LEMMA InitLocks == SessionsInit => LockInvariant
<1> SUFFICES ASSUME SessionsInit PROVE LockInvariant
  OBVIOUS
<1>1. \A s \in Sessions : DOMAIN held[s] = {}
  BY DEF SessionsInit, NoRows
<1>2. UniqueActive(requests)
  BY SeedClaimsUnique DEF SessionsInit
<1>3. LocksExclude /\ \A s \in Sessions : Indexed(s) = {}
  BY <1>1 DEF LocksExclude, Indexed
<1>4. DOMAIN requests = Requests
  BY DEF SessionsInit, SeedInit
<1> QED BY <1>2, <1>3, <1>4 DEF SessionsInit, LockInvariant, IndexInvariant

LEMMA NextLocks == LockInvariant /\ [SessionsNext]_vars => LockInvariant'
<1> SUFFICES ASSUME LockInvariant, [SessionsNext]_vars PROVE LockInvariant'
  OBVIOUS
<1>1. CASE DetectDeadlock
  BY <1>1, RollBackKeeps DEF DetectDeadlock
<1>2. ASSUME NEW s \in Sessions, NEW m \in Messages, Begin(s, m) PROVE LockInvariant'
  BY <1>2, QuietKeeps DEF Begin, Quiet, LockInvariant, Others, tables
<1>3. ASSUME NEW s \in Sessions, Step(s) PROVE LockInvariant'
  BY <1>3, StepKeeps
<1>4. ASSUME NEW s \in Sessions, Lose(s) PROVE LockInvariant'
  BY <1>4, RollBackKeeps DEF Lose
<1>5. CASE UNCHANGED vars
  <2>1. UNCHANGED <<requests, at, plan, held>>
    BY <1>5 DEF vars, sessions, tables
  <2>2. \A s \in Sessions : Indexed(s)' = Indexed(s)
    BY <2>1 DEF Indexed
  <2> QED BY <2>1, <2>2 DEF LockInvariant, IndexInvariant, LocksExclude, UniqueActive
<1> QED BY <1>1, <1>2, <1>3, <1>4, <1>5 DEF SessionsNext

\* Any number of sessions, overlapping in any way and rolled back at any point:
\* no two requests are ever committed with one device and one active status.
THEOREM IndexHolds == SessionsSafety => []IndexInvariant
<1>1. LockInvariant => IndexInvariant
  BY DEF LockInvariant
<1> QED BY <1>1, InitLocks, NextLocks, PTL DEF SessionsSafety
=============================================================================
