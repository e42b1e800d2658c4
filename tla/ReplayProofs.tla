----------------------------- MODULE ReplayProofs -----------------------------
(***************************************************************************)
(* A replay that completed is what was asked for, and create_replay tells  *)
(* the truth, whatever requests and runs there are, in both repositories   *)
(* and whenever an operator cancels the child.                             *)
(***************************************************************************)
EXTENDS Replay, InductionLemmas, FiniteSetTheorems

(***************************************************************************)
(* Inputs and records.                                                     *)
(***************************************************************************)
\* Two inputs that agree but for the reserved keys are equal without them.
LEMMA PlainAgrees ==
  ASSUME NEW f, NEW g,
         DOMAIN f \ {ModeKey, MetaKey, ProvenanceKey} = DOMAIN g \ {ModeKey, MetaKey, ProvenanceKey},
         \A k \in DOMAIN f \ {ModeKey, MetaKey, ProvenanceKey} : f[k] = g[k]
  PROVE  Plain(f) = Plain(g)
  <1> DEFINE Rest(h) == [k \in DOMAIN h \ {ModeKey, MetaKey, ProvenanceKey} |-> h[k]]
  <1>1. ASSUME NEW h PROVE Plain(h) = Rest(h)
    BY DEF Plain, Without
  <1>2. Rest(f) = Rest(g)
    OBVIOUS
  <1> HIDE DEF Rest
  <1>3. Plain(f) = Rest(f) /\ Plain(g) = Rest(g)
    BY <1>1
  <1>4. QED BY <1>2, <1>3

LEMMA WithAt ==
  ASSUME NEW f, NEW key, NEW value
  PROVE  /\ DOMAIN With(f, key, value) = DOMAIN f \cup {key}
         /\ With(f, key, value)[key] = value
         /\ \A k \in DOMAIN f : k # key => With(f, key, value)[k] = f[k]
         /\ With(f, key, value) = [k \in DOMAIN f \cup {key} |-> With(f, key, value)[k]]
  BY DEF With, Merged

LEMMA WithoutAt ==
  ASSUME NEW f, NEW key
  PROVE  /\ DOMAIN Without(f, key) = DOMAIN f \ {key}
         /\ \A k \in DOMAIN f : k # key => Without(f, key)[k] = f[k]
         /\ Without(f, key) = [k \in DOMAIN f \ {key} |-> Without(f, key)[k]]
  BY DEF Without

\* What a record keeps of the one it was made from.
Follows(ex, next) ==
  /\ IsExecution(next)
  /\ Provenance(next) = Provenance(ex) /\ Plain(next.input) = Plain(ex.input)
  /\ next.execution_mode = ex.execution_mode /\ next.parent = ex.parent
  /\ ex.timeline # <<>> => next.timeline # <<>> /\ next.timeline[1] = ex.timeline[1]
  /\ Flagged(ex) => Flagged(next)

LEMMA FaithfulFollows ==
  ASSUME NEW ex, NEW next, NEW asked, Follows(ex, next), Faithful(ex, asked)
  PROVE  Faithful(next, asked)
  BY DEF Follows, Faithful

LEMMA FollowsOn ==
  ASSUME NEW a, NEW b, NEW c, Follows(a, b), Follows(b, c)
  PROVE  Follows(a, c)
  BY DEF Follows

\* A timeline that grows keeps its first row.
LEMMA FirstRow ==
  ASSUME NEW t \in Seq(TimelineRow), NEW more \in Seq(TimelineRow)
  PROVE  t \o more \in Seq(TimelineRow) /\ (t # <<>> => t \o more # <<>> /\ (t \o more)[1] = t[1])
  OBVIOUS

LEMMA FirstRowOfAppend ==
  ASSUME NEW t \in Seq(TimelineRow), NEW row \in TimelineRow
  PROVE  /\ Append(t, row) \in Seq(TimelineRow) /\ Append(t, row) # <<>>
         /\ t # <<>> => Append(t, row)[1] = t[1]
         /\ t = <<>> => Append(t, row)[1] = row
  OBVIOUS

LEMMA RowIsRow ==
  ASSUME NEW status \in ExecutionStatus \cup {"replay_created"}
  PROVE  Row(status) \in TimelineRow
  BY DEF TimelineRow

LEMMA MovesFollows ==
  ASSUME NEW ex, IsExecution(ex), NEW status \in ExecutionStatus
  PROVE  Follows(ex, Moves(ex, status)) /\ Moves(ex, status).status = status
  <1>1. Row(status) \in TimelineRow
    BY RowIsRow
  <1>2. PICK timeline : timeline = Append(ex.timeline, Row(status))
    OBVIOUS
  <1>3. /\ timeline \in Seq(TimelineRow) /\ timeline # <<>>
        /\ ex.timeline # <<>> => timeline[1] = ex.timeline[1]
    BY <1>1, <1>2, FirstRowOfAppend DEF IsExecution
  <1>4. Moves(ex, status) = [f \in Fields |-> IF f = "status" THEN status
                                              ELSE IF f = "timeline" THEN timeline ELSE ex[f]]
    BY <1>2 DEF Moves, IsExecution, Fields
  <1>5. QED
    BY <1>3, <1>4 DEF Follows, IsExecution, Fields, Provenance, Flagged

LEMMA FlagFollows ==
  ASSUME NEW ex, IsExecution(ex)
  PROVE  Follows(ex, Flag(ex)) /\ Flagged(Flag(ex)) /\ Flag(ex).status = ex.status
  <1>1. PICK input : input = With(ex.input, MetaKey, "requested")
    OBVIOUS
  <1>2. /\ DOMAIN input = DOMAIN ex.input \cup {MetaKey} /\ input[MetaKey] = "requested"
        /\ \A k \in DOMAIN ex.input : k # MetaKey => input[k] = ex.input[k]
        /\ input = [k \in DOMAIN input |-> input[k]]
    <2> DEFINE W == With(ex.input, MetaKey, "requested")
    <2>1. /\ DOMAIN W = DOMAIN ex.input \cup {MetaKey} /\ W[MetaKey] = "requested"
          /\ \A k \in DOMAIN ex.input : k # MetaKey => W[k] = ex.input[k]
          /\ W = [k \in DOMAIN ex.input \cup {MetaKey} |-> W[k]]
      BY DEF With, Merged
    <2> HIDE DEF W
    <2>2. input = W
      BY <1>1 DEF W
    <2>3. QED BY <2>1, <2>2
  <1>3. Plain(input) = Plain(ex.input)
    BY <1>2, PlainAgrees
  <1>4. Flag(ex) = [f \in Fields |-> IF f = "input" THEN input ELSE ex[f]]
    BY <1>1 DEF Flag, IsExecution, Fields
  <1>5. /\ Flag(ex).input = input /\ Flag(ex).status = ex.status
        /\ \A f \in Fields : f # "input" => Flag(ex)[f] = ex[f]
    BY <1>4 DEF Fields
  <1>6. Given(input, ProvenanceKey) = Given(ex.input, ProvenanceKey)
    BY <1>2 DEF Given, ProvenanceKey, MetaKey
  <1>7. Given(input, MetaKey) = {"requested"}
    BY <1>2 DEF Given
  <1>10. IsFiniteSet(DOMAIN input)
    <2>1. IsFiniteSet(DOMAIN ex.input)
      BY DEF IsExecution
    <2>2. IsFiniteSet(DOMAIN ex.input \cup {MetaKey})
      BY <2>1, FS_AddElement
    <2>3. QED BY <1>2, <2>2
  <1>8. IsExecution(Flag(ex))
    BY <1>2, <1>4, <1>5, <1>10 DEF IsExecution, Fields
  <1>9. QED
    BY <1>3, <1>5, <1>6, <1>7, <1>8 DEF Follows, Fields, Provenance, Flagged

\* Of a record that is changed in other places than these everything is kept.
LEMMA ChangedFollows ==
  ASSUME NEW ex, IsExecution(ex), NEW next, next = [f \in Fields |-> next[f]],
         \A f \in {"input", "execution_mode", "parent", "timeline"} : next[f] = ex[f]
  PROVE  Follows(ex, next)
  BY DEF Follows, IsExecution, Provenance, Flagged

LEMMA CancelledFollows ==
  ASSUME NEW ex, IsExecution(ex)
  PROVE  /\ Follows(ex, Cancelled(ex)) /\ Flagged(Cancelled(ex))
         /\ Cancelled(ex).status \in {ex.status, "cancelled"}
  <1>1. Follows(ex, Flag(ex)) /\ Flagged(Flag(ex)) /\ Flag(ex).status = ex.status
    BY FlagFollows
  <1>2. CASE ex.status \in Terminal
    BY <1>1, <1>2 DEF Cancelled
  <1>3. CASE ex.status \notin Terminal
    <2>1. PICK flagged : flagged = Flag(ex)
      OBVIOUS
    <2>2. IsExecution(flagged)
      BY <1>1, <2>1 DEF Follows
    <2>3. PICK moved_ : moved_ = Moves(flagged, "cancelled")
      OBVIOUS
    <2>4. Follows(flagged, moved_) /\ moved_.status = "cancelled"
      BY <2>2, <2>3, MovesFollows DEF ExecutionStatus
    <2>5. Cancelled(ex) = [moved_ EXCEPT !.result = {[outcome |-> "cancelled"]}]
      BY <1>3, <2>1, <2>3 DEF Cancelled
    <2>6. moved_ = [f \in Fields |-> moved_[f]] /\ IsExecution(moved_)
      BY <2>4 DEF Follows, IsExecution
    <2>7. /\ Cancelled(ex) = [f \in Fields |-> Cancelled(ex)[f]]
          /\ \A f \in {"input", "execution_mode", "parent", "timeline", "status"} :
               Cancelled(ex)[f] = moved_[f]
      BY <2>5, <2>6 DEF Fields
    <2>8. Follows(moved_, Cancelled(ex))
      BY <2>6, <2>7, ChangedFollows
    <2>9. Follows(ex, Cancelled(ex))
      BY <1>1, <2>1, <2>4, <2>8, FollowsOn
    <2>10. Flagged(Cancelled(ex))
      BY <1>1, <2>1, <2>4, <2>8 DEF Follows
    <2>11. QED BY <2>4, <2>7, <2>9, <2>10
  <1>4. QED BY <1>2, <1>3

\* How a run ends.
IsRun(run) ==
  /\ run.reasoning \in Seq(TimelineRow)
  /\ run.status \in {"completed", "failed", "awaiting_approval"}

LEMMA RunsAreRuns ==
  ASSUME NEW r \in Runs PROVE IsRun(r.source) /\ IsRun(r.child)
  <1>1. ToSet(r.source.reasoning) \subseteq TimelineRow /\ ToSet(r.child.reasoning) \subseteq TimelineRow
    BY DEF TimelineRow
  <1>2. ASSUME NEW run \in {r.source, r.child} PROVE IsRun(run)
    <2>1. run.reasoning \in Seq(ToSet(run.reasoning))
      BY RunsAssumption
    <2>2. ToSet(run.reasoning) \subseteq TimelineRow
      BY <1>1
    <2> HIDE DEF IsRun
    <2>3. ASSUME NEW S, NEW s \in Seq(S), S \subseteq TimelineRow PROVE s \in Seq(TimelineRow)
      BY <2>3
    <2>4. run.reasoning \in Seq(TimelineRow)
      BY <2>1, <2>2, <2>3
    <2>5. QED BY <2>4, RunsAssumption DEF IsRun
  <1>3. QED BY <1>2

LEMMA FinishedFollows ==
  ASSUME NEW ex, IsExecution(ex), NEW run, IsRun(run)
  PROVE  Follows(ex, Finished(ex, run)) /\ Finished(ex, run).status = run.status
  <1>1. PICK moved_ : moved_ = Moves(ex, run.status)
    OBVIOUS
  <1>2. Follows(ex, moved_) /\ moved_.status = run.status
    BY <1>1, MovesFollows DEF IsRun, ExecutionStatus
  <1>3. IsExecution(moved_) /\ moved_ = [f \in Fields |-> moved_[f]]
    BY <1>2 DEF Follows, IsExecution
  <1>4. Finished(ex, run) = [moved_ EXCEPT !.validation = run.validation, !.result = {run.result}]
    BY <1>1 DEF Finished
  <1>5. /\ Finished(ex, run) = [f \in Fields |-> Finished(ex, run)[f]]
        /\ \A f \in {"input", "execution_mode", "parent", "timeline", "status"} :
             Finished(ex, run)[f] = moved_[f]
    BY <1>3, <1>4 DEF Fields
  <1>6. Follows(moved_, Finished(ex, run))
    BY <1>3, <1>5, ChangedFollows
  <1>7. QED BY <1>2, <1>5, <1>6, FollowsOn

(***************************************************************************)
(* The repositories give back what was stored.                             *)
(***************************************************************************)
LEMMA Restored ==
  ASSUME NEW b \in Backends, NEW ex, IsExecution(ex), NEW next, next = Restore(b, Persist(b, ex))
  PROVE  /\ Follows(ex, next) /\ next.status = ex.status /\ next.timeline = ex.timeline
         /\ Flagged(next) <=> Flagged(ex)
  <1>1. CASE b = "memory"
    <2>1. next = ex
      BY <1>1 DEF Restore, Persist
    <2>2. QED BY <2>1 DEF Follows
  <1>2. CASE b # "memory"
    <2>1. PICK row : row = Persist(b, ex)
      OBVIOUS
    <2>2. PICK input : input = PersistInput(ex)
      OBVIOUS
    <2>3. /\ DOMAIN input = DOMAIN ex.input \cup {ModeKey} /\ input[ModeKey] = ex.execution_mode
          /\ \A k \in DOMAIN ex.input : k # ModeKey => input[k] = ex.input[k]
      <3> DEFINE W == With(ex.input, ModeKey, ex.execution_mode)
      <3>1. /\ DOMAIN W = DOMAIN ex.input \cup {ModeKey} /\ W[ModeKey] = ex.execution_mode
            /\ \A k \in DOMAIN ex.input : k # ModeKey => W[k] = ex.input[k]
        BY DEF With, Merged
      <3>2. input = W
        BY <2>2 DEF PersistInput
      <3> HIDE DEF W
      <3>3. QED BY <3>1, <3>2
    <2>4. row = [f \in Fields \ {"execution_mode"} |-> IF f = "input" THEN input ELSE ex[f]]
      BY <1>2, <2>1, <2>2 DEF Persist, With, Merged, Without, IsExecution, Fields
    <2>5. row.input = input
      BY <2>4 DEF Fields
    <2>6. RestoredMode(input) = ex.execution_mode
      BY <2>3 DEF RestoredMode, IsExecution
    <2>7. PICK back : back = Without(input, ModeKey)
      OBVIOUS
    <2>8. next = [f \in Fields |-> IF f = "input" THEN back
                                   ELSE IF f = "execution_mode" THEN ex.execution_mode ELSE ex[f]]
      BY <1>2, <2>1, <2>4, <2>5, <2>6, <2>7 DEF Restore, With, Merged, Fields
    <2>9. /\ next = [f \in Fields |-> next[f]]
          /\ next.input = back /\ \A f \in Fields : f # "input" => next[f] = ex[f]
      BY <2>8 DEF Fields
    <2>10. /\ DOMAIN back = DOMAIN ex.input \ {ModeKey}
           /\ \A k \in DOMAIN ex.input : k # ModeKey => back[k] = ex.input[k]
           /\ back = [k \in DOMAIN back |-> back[k]]
      <3> DEFINE W == Without(input, ModeKey)
      <3>1. /\ DOMAIN W = DOMAIN input \ {ModeKey}
            /\ \A k \in DOMAIN input : k # ModeKey => W[k] = input[k]
            /\ W = [k \in DOMAIN input \ {ModeKey} |-> W[k]]
        BY WithoutAt
      <3>2. back = W
        BY <2>7
      <3> HIDE DEF W
      <3>3. QED BY <3>1, <3>2, <2>3
    <2>11. Plain(back) = Plain(ex.input)
      BY <2>10, PlainAgrees
    <2>12. /\ Given(back, ProvenanceKey) = Given(ex.input, ProvenanceKey)
           /\ Given(back, MetaKey) = Given(ex.input, MetaKey)
      BY <2>10 DEF Given, ProvenanceKey, MetaKey, ModeKey
    <2>15. IsFiniteSet(DOMAIN back)
      <3>1. IsFiniteSet(DOMAIN ex.input)
        BY DEF IsExecution
      <3>2. IsFiniteSet(DOMAIN ex.input \ {ModeKey})
        BY <3>1, FS_RemoveElement
      <3>3. QED BY <2>10, <3>2
    <2>13. IsExecution(next)
      BY <2>9, <2>10, <2>15 DEF IsExecution, Fields
    <2>14. QED
      BY <2>9, <2>11, <2>12, <2>13 DEF Follows, Fields, Provenance, Flagged
  <1>3. QED BY <1>1, <1>2

\* A limited listing has its rows at the same places.
LEMMA LimitedRows ==
  ASSUME NEW n \in Nat, NEW all, DOMAIN all = 1 .. n, all = [i \in 1 .. n |-> all[i]],
         NEW limit \in Int, NEW i \in DOMAIN Limited(all, limit)
  PROVE  i \in 1 .. n /\ Limited(all, limit)[i] = all[i]
  <1> DEFINE most == Max({1, Min({limit, 500})})
             m == Min({Len(all), most})
  <1>1. all \in Seq({all[j] : j \in 1 .. n}) /\ Len(all) = n
    OBVIOUS
  <1>2. most \in Int /\ most >= 1
    <2>1. PICK low : low = Min({limit, 500})
      OBVIOUS
    <2>2. low \in Int
      <3>1. limit \in Int /\ 500 \in Int
        OBVIOUS
      <3>2. Min({limit, 500}) \in {limit, 500}
        BY ONLY <3>1, SmallerOfTwo
      <3>3. QED BY <2>1, <3>1, <3>2
    <2>3. Max({1, low}) \in {1, low} /\ Max({1, low}) >= 1
      BY <2>2, SmallerOfTwo
    <2>4. QED BY <2>1, <2>2, <2>3
  <1>3. m \in 0 .. n
    <2>1. PICK cap : cap = most
      OBVIOUS
    <2>2. cap \in Int /\ cap >= 1 /\ n \in Int
      BY <1>2, <2>1
    <2>3. Min({n, cap}) \in {n, cap} /\ Min({n, cap}) <= n
      BY ONLY <2>2, SmallerOfTwo
    <2>4. m = Min({n, cap})
      BY <1>1, <2>1
    <2> HIDE DEF m
    <2>5. QED BY <2>2, <2>3, <2>4
  <1>4. Limited(all, limit) = SubSeq(all, 1, m)
    BY DEF Limited
  <1> HIDE DEF m
  <1>5. SubSeq(all, 1, m) = [j \in 1 .. m |-> all[j]]
    BY <1>1, <1>3
  <1>6. QED BY <1>3, <1>4, <1>5

LEMMA TwoInARow == ASSUME NEW a, NEW b PROVE <<a>> \o <<b>> = <<a, b>> /\ <<a>> \o <<>> = <<a>>
  <1>1. <<a>> \in Seq({a, b}) /\ <<b>> \in Seq({a, b}) /\ Len(<<a>>) = 1 /\ Len(<<b>>) = 1
    OBVIOUS
  <1>2. PICK both : both = <<a>> \o <<b>>
    OBVIOUS
  <1>3. both \in Seq({a, b}) /\ Len(both) = 2 /\ both[1] = a /\ both[2] = b
    BY <1>1, <1>2
  <1>4. both = [i \in 1 .. 2 |-> both[i]]
    BY <1>3
  <1>5. both = <<a, b>>
    BY <1>3, <1>4
  <1>6. <<a>> \o <<>> = <<a>>
    BY <1>1
  <1>7. QED BY <1>2, <1>5, <1>6

(***************************************************************************)
(* What is stored.                                                         *)
(***************************************************************************)
\* Only the child can be found among the replays of the source.
LEMMA TheChildIsListed ==
  ASSUME StoredInv, NEW listed \in ListByParent(backend, Executions, "source", 50),
         NEW i \in DOMAIN listed
  PROVE  HasChild /\ listed[i] = Get("child")
  <1> DEFINE wanted == {j \in DOMAIN Executions : Executions[j].parent = "source"}
             n == IF HasChild THEN 2 ELSE 1
  <1>1. /\ DOMAIN Executions = 1 .. n /\ n \in Nat
        /\ Executions[1] = Get("source") /\ (HasChild => Executions[2] = Get("child"))
    <2>1. CASE HasChild
      <3>1. Executions = <<Get("source"), Get("child")>>
        BY <2>1, TwoInARow DEF Executions, HasChild
      <3>2. QED BY <2>1, <3>1
    <2>2. CASE ~ HasChild
      <3>1. Executions = <<Get("source")>>
        BY <2>2, TwoInARow DEF Executions, HasChild
      <3>2. QED BY <2>2, <3>1
    <2>3. QED BY <2>1, <2>2
  <1>2. PICK all \in Listings(backend, Executions, wanted, Newer) : listed = Limited(all, 50)
    BY DEF ListByParent
  <1>3. Cardinality(wanted) \in Nat
    <2>1. wanted \subseteq 1 .. n /\ n \in Int
      BY <1>1
    <2> HIDE DEF wanted, n
    <2>4. IsFiniteSet(1 .. n)
      BY <2>1, FS_Interval
    <2>2. IsFiniteSet(wanted)
      BY <2>1, <2>4, FS_Subset
    <2>3. QED BY <2>2, FS_CardinalityType
  <1>4. PICK k \in Nat : /\ all = [j \in 1 .. k |-> all[j]] /\ DOMAIN all = 1 .. k
                         /\ \A j \in 1 .. k : \E w \in wanted : all[j] = Executions[w]
    <2>1. PICK p \in [1 .. Cardinality(wanted) -> wanted] :
                 all = [j \in 1 .. Cardinality(wanted) |-> Executions[p[j]]]
      BY <1>2 DEF Listings, Bijection, Injection
    <2> HIDE DEF wanted, n
    <2>2. QED BY <1>3, <2>1
  <1>5. i \in 1 .. k /\ listed[i] = all[i]
    <2>1. i \in DOMAIN Limited(all, 50)
      BY <1>2
    <2>2. 50 \in Int
      OBVIOUS
    <2>3. i \in 1 .. k /\ Limited(all, 50)[i] = all[i]
      BY <1>4, <2>1, <2>2, LimitedRows
    <2>4. QED BY <1>2, <2>3
  <1>6. PICK w \in wanted : listed[i] = Executions[w]
    BY <1>4, <1>5
  <1>7. w = 2 /\ HasChild
    BY <1>1 DEF StoredInv
  <1>8. QED BY <1>1, <1>6, <1>7

\* The fields that a step of the source or of nobody leaves alone.
LEMMA PutChild ==
  ASSUME StoredInv, NEW ex, IsExecution(ex), stored' = Put("child", ex), UNCHANGED fixed
  PROVE  /\ StoredInv' /\ HasChild'
         /\ Get("source")' = Get("source")
         /\ Follows(ex, Get("child")') /\ Get("child")'.status = ex.status
         /\ Flagged(Get("child")') <=> Flagged(ex)
  <1>1. "source" \in DOMAIN stored
    BY DEF StoredInv
  <1>2. /\ DOMAIN stored' = {"source", "child"}
        /\ stored'["child"] = Persist(backend, ex) /\ stored'["source"] = stored["source"]
    BY <1>1 DEF Put, StoredInv
  <1>3. /\ Get("source")' = Get("source")
        /\ Get("child")' = Restore(backend, Persist(backend, ex))
    BY <1>2 DEF Get, fixed
  <1>4. PICK next : next = Restore(backend, Persist(backend, ex))
    OBVIOUS
  <1>5. /\ Follows(ex, next) /\ next.status = ex.status
        /\ Flagged(next) <=> Flagged(ex)
    BY <1>4, Restored DEF StoredInv
  <1>6. IsExecution(Get("source")) /\ IsExecution(next)
    BY <1>1, <1>5 DEF StoredInv, Follows
  <1>7. \A id \in DOMAIN stored' : IsExecution(Get(id)')
    <2>1. TAKE id \in DOMAIN stored'
    <2>2. CASE id = "source"
      BY <2>2, <1>3, <1>6
    <2>3. CASE id = "child"
      BY <2>3, <1>3, <1>4, <1>6
    <2>4. QED BY <2>1, <2>2, <2>3, <1>2
  <1>8. StoredInv'
    BY <1>2, <1>3, <1>7 DEF StoredInv, fixed, Get
  <1>9. QED
    BY <1>2, <1>3, <1>4, <1>5, <1>8 DEF HasChild

LEMMA PutSource ==
  ASSUME StoredInv, NEW ex, IsExecution(ex), ex.parent = "none",
         stored' = Put("source", ex), UNCHANGED fixed
  PROVE  StoredInv' /\ (HasChild' <=> HasChild) /\ (HasChild => Get("child")' = Get("child"))
  <1>1. "source" \in DOMAIN stored
    BY DEF StoredInv
  <1>2. /\ DOMAIN stored' = DOMAIN stored
        /\ stored'["source"] = Persist(backend, ex)
        /\ \A id \in DOMAIN stored : id # "source" => stored'[id] = stored[id]
    BY <1>1 DEF Put
  <1>3. /\ \A id \in DOMAIN stored : id # "source" => Get(id)' = Get(id)
        /\ Get("source")' = Restore(backend, Persist(backend, ex))
    BY <1>2 DEF Get, fixed
  <1>4. PICK next : next = Restore(backend, Persist(backend, ex))
    OBVIOUS
  <1>5. Follows(ex, next)
    BY <1>4, Restored DEF StoredInv
  <1>6. IsExecution(next) /\ next.parent = "none"
    BY <1>5 DEF Follows
  <1>7. \A id \in DOMAIN stored' : IsExecution(Get(id)')
    <2>1. TAKE id \in DOMAIN stored'
    <2>2. CASE id = "source"
      BY <2>2, <1>3, <1>4, <1>6
    <2>3. CASE id # "source"
      BY <2>1, <2>3, <1>2, <1>3 DEF StoredInv
    <2>4. QED BY <2>2, <2>3
  <1>8. StoredInv'
    <2>1. Get("source")'.parent = "none"
      BY <1>3, <1>4, <1>6
    <2>2. QED BY <1>2, <1>7, <2>1 DEF StoredInv, fixed
  <1>9. QED BY <1>2, <1>3, <1>8 DEF HasChild

\* What the copies of the child are is the same before and after a step that does
\* not read the source.
LEMMA SameAsked ==
  ASSUME UNCHANGED <<request, src>>
  PROVE  Asked' = Asked /\ Mode' = Mode
  BY DEF Asked, Mode, ReplayInput

\* Steps that store nothing.
LEMMA StoredAlone ==
  ASSUME StoredInv, UNCHANGED <<fixed, stored>>
  PROVE  /\ StoredInv' /\ (HasChild' <=> HasChild)
         /\ \A id \in DOMAIN stored : Get(id)' = Get(id)
         /\ DOMAIN stored' = DOMAIN stored
  BY DEF StoredInv, fixed, HasChild, Get

(***************************************************************************)
(* The steps.                                                              *)
(***************************************************************************)
LEMMA LateFollows ==
  ASSUME NEW ex, NEW next, NEW asked, Follows(ex, next), next.status = ex.status
  PROVE  /\ Sound(ex, asked) => Sound(next, asked)
         /\ Late(ex, asked) => Late(next, asked)
  BY FaithfulFollows DEF Late, Sound, Follows

\* One of the driver's writes.
LEMMA DriverPuts ==
  ASSUME StoredInv, NEW ex, IsExecution(ex), Late(ex, Asked), stored' = Put("child", ex),
         UNCHANGED <<fixed, src>>
  PROVE  /\ StoredInv' /\ HasChild' /\ Get("source")' = Get("source") /\ Asked' = Asked
         /\ Sound(Get("child")', Asked) /\ Late(Get("child")', Asked)
         /\ Provenance(Get("child")') = Provenance(ex)
  <1>1. /\ StoredInv' /\ HasChild' /\ Get("source")' = Get("source")
        /\ Follows(ex, Get("child")') /\ Get("child")'.status = ex.status
    BY PutChild
  <1>2. Asked' = Asked
    BY SameAsked DEF fixed
  <1>3. PICK next : next = Get("child")'
    OBVIOUS
  <1>4. Late(next, Asked)
    BY <1>1, <1>3, LateFollows
  <1>5. QED
    BY <1>1, <1>2, <1>3, <1>4 DEF Late, Follows

LEMMA ReadSourceSteps == ASSUME ReplayInv, ReadSource PROVE ReplayInv'
  <1>1. /\ StoredInv' /\ (HasChild' <=> HasChild) /\ DOMAIN stored' = DOMAIN stored
        /\ \A id \in DOMAIN stored : Get(id)' = Get(id)
    BY StoredAlone DEF ReadSource, ReplayInv, store
  <1>2. "source" \in DOMAIN stored /\ ~ HasChild /\ canceller = "idle" /\ answer \notin {"refused", "replayed", "mutated"}
    BY DEF ReadSource, ReplayInv, StoredInv, WhereInv
  <1>3. WhereInv' /\ ~ Driven' /\ pc' = "validate" /\ canceller' = canceller /\ answer' = answer
    BY <1>1, <1>2 DEF ReadSource, ReplayInv, WhereInv, Driven, cancelling
  <1>4. SourceInv'
    BY <1>1, <1>2, <1>3 DEF ReadSource, ReplayInv, StoredInv, SourceInv
  <1>5. QED
    BY <1>1, <1>2, <1>3, <1>4 DEF ReplayInv, ChildInv, CopyInv, ProvenanceInv

LEMMA ValidateSteps == ASSUME ReplayInv, Validate PROVE ReplayInv'
  <1>1. /\ StoredInv' /\ (HasChild' <=> HasChild) /\ DOMAIN stored' = DOMAIN stored
        /\ \A id \in DOMAIN stored : Get(id)' = Get(id)
    BY StoredAlone DEF Validate, ReplayInv, store
  <1>2. "source" \in DOMAIN stored /\ ~ HasChild /\ canceller = "idle"
    BY DEF Validate, ReplayInv, StoredInv, WhereInv
  <1>3. /\ pc' \in {"answered", "create"} /\ canceller' = canceller /\ ~ Driven'
        /\ answer' = "refused" \/ (answer' = answer /\ answer' \notin {"refused", "replayed", "mutated"})
        /\ answer' = "refused" => pc' = "answered"
    BY DEF Validate, Driven, cancelling, ReplayInv, WhereInv
  <1>4. WhereInv'
    BY <1>1, <1>2, <1>3 DEF WhereInv
  <1>5. SourceInv'
    BY <1>1, <1>2, <1>3 DEF Validate, ReplayInv, SourceInv
  <1>6. QED
    BY <1>1, <1>2, <1>3, <1>4, <1>5 DEF ReplayInv, ChildInv, CopyInv, ProvenanceInv

\* The child as it is created.
LEMMA BareChild ==
  ASSUME ReplayInv, Create
  PROVE  /\ IsExecution(child') /\ child'.execution_mode = Mode
         /\ child'.status = "created" /\ child'.timeline = <<>>
  <1>1. IsExecution(src)
    BY DEF ReplayInv, SourceInv, Create
  <1>2. Mode \in Modes
    BY <1>1, RequestsAssumption DEF Mode, IsExecution, ReplayInv, StoredInv
  <1>3. <<>> \in Seq(TimelineRow)
    OBVIOUS
  <1>4. NoKeys = [k \in DOMAIN NoKeys |-> NoKeys[k]] /\ IsFiniteSet(DOMAIN NoKeys)
    BY FS_EmptySet DEF NoKeys
  <1>5. QED
    BY <1>2, <1>3, <1>4 DEF Create, IsExecution, Fields

LEMMA CreateSteps == ASSUME ReplayInv, Create PROVE ReplayInv'
  <1>1. /\ IsExecution(child') /\ child'.execution_mode = Mode
        /\ child'.status = "created" /\ child'.timeline = <<>>
    BY BareChild
  <1>2. PICK ex : ex = child'
    OBVIOUS
  <1>3. /\ StoredInv' /\ HasChild' /\ Get("source")' = Get("source")
        /\ Get("child")'.status = ex.status
    BY <1>1, <1>2, PutChild DEF Create, ReplayInv
  <1>4. Asked' = Asked /\ Mode' = Mode
    BY SameAsked DEF Create, fixed
  <1>5. /\ pc' = "attach" /\ canceller' = canceller /\ canceller = "idle" /\ ~ Driven'
        /\ answer' = answer /\ answer' \notin {"refused", "replayed", "mutated"}
    BY DEF Create, Driven, cancelling, ReplayInv, WhereInv
  <1>6. WhereInv'
    BY <1>3, <1>5 DEF WhereInv
  <1>7. SourceInv'
    BY <1>3, <1>5 DEF Create, ReplayInv, SourceInv
  <1>8. ChildInv'
    BY <1>1, <1>2, <1>3, <1>5 DEF ChildInv, Sound
  <1>9. CopyInv'
    BY <1>1, <1>4, <1>5 DEF CopyInv
  <1>10. QED
    BY <1>3, <1>5, <1>6, <1>7, <1>8, <1>9 DEF ReplayInv, ProvenanceInv

\* The child with its input, its provenance and its row is what was asked for.
LEMMA AttachedIsFaithful ==
  ASSUME ReplayInv, pc = "attach"
  PROVE  /\ IsExecution(Attached(child)) /\ Faithful(Attached(child), Asked)
         /\ Attached(child).status = "created"
  <1>1. /\ IsExecution(child) /\ child.execution_mode = Mode
        /\ child.status = "created" /\ child.timeline = <<>>
    BY DEF ReplayInv, CopyInv
  <1>2. PICK input : input = With(ReplayInput, ProvenanceKey, ProvenanceOf(request))
    OBVIOUS
  <1>3. /\ DOMAIN input = DOMAIN ReplayInput \cup {ProvenanceKey}
        /\ input[ProvenanceKey] = ProvenanceOf(request)
        /\ \A k \in DOMAIN ReplayInput : k # ProvenanceKey => input[k] = ReplayInput[k]
        /\ input = [k \in DOMAIN input |-> input[k]]
    BY <1>2 DEF With, Merged
  <1>4. Plain(input) = Plain(ReplayInput)
    BY <1>3, PlainAgrees
  <1>5. PICK timeline : timeline = Append(child.timeline, Row("replay_created"))
    OBVIOUS
  <1>6. Row("replay_created") \in TimelineRow
    BY RowIsRow
  <1>7. timeline \in Seq(TimelineRow) /\ timeline # <<>> /\ timeline[1] = Row("replay_created")
    BY <1>1, <1>5, <1>6, FirstRowOfAppend DEF IsExecution
  <1>8. Attached(child) = [f \in Fields |-> IF f = "input" THEN input
                                            ELSE IF f = "timeline" THEN timeline ELSE child[f]]
    BY <1>1, <1>2, <1>5 DEF Attached, IsExecution, Fields
  <1>13. IsFiniteSet(DOMAIN input)
    <2>1. IsExecution(src)
      BY DEF ReplayInv, SourceInv
    <2>2. IsFiniteSet(DOMAIN src.input) /\ IsFiniteSet(DOMAIN request.overrides)
      BY <2>1, RequestsAssumption DEF IsExecution, ReplayInv, StoredInv
    <2>3. IsFiniteSet(DOMAIN src.input \ {ProvenanceKey})
      BY <2>2, FS_RemoveElement
    <2>4. DOMAIN ReplayInput = (DOMAIN src.input \ {ProvenanceKey}) \cup DOMAIN request.overrides
      BY DEF ReplayInput, Merged, Without
    <2>5. IsFiniteSet(DOMAIN ReplayInput)
      BY <2>2, <2>3, <2>4, FS_Union
    <2>6. IsFiniteSet(DOMAIN ReplayInput \cup {ProvenanceKey})
      BY <2>5, FS_AddElement
    <2>7. QED BY <1>3, <2>6
  <1>9. IsExecution(Attached(child))
    BY <1>1, <1>3, <1>7, <1>8, <1>13 DEF IsExecution, Fields
  <1>10. Provenance(Attached(child)) = {ProvenanceOf(request)}
    BY <1>3, <1>8 DEF Provenance, Given, Fields
  <1>11. timeline[1].event_type = "replay_created"
    BY <1>7 DEF Row
  <1>12. QED
    BY <1>1, <1>4, <1>7, <1>8, <1>9, <1>10, <1>11 DEF Faithful, Asked, Fields

LEMMA AttachSteps == ASSUME ReplayInv, Attach PROVE ReplayInv'
  <1>1. /\ IsExecution(Attached(child)) /\ Faithful(Attached(child), Asked)
        /\ Attached(child).status = "created"
    BY AttachedIsFaithful DEF Attach
  <1>2. PICK ex : ex = Attached(child)
    OBVIOUS
  <1>3. Late(ex, Asked)
    BY <1>1, <1>2 DEF Late, Sound
  <1>4. stored' = Put("child", ex)
    BY <1>2 DEF Attach
  <1>5. /\ StoredInv' /\ HasChild' /\ Get("source")' = Get("source") /\ Asked' = Asked
        /\ Sound(Get("child")', Asked) /\ Late(Get("child")', Asked)
        /\ Provenance(Get("child")') = Provenance(ex)
    BY <1>1, <1>2, <1>3, <1>4, DriverPuts DEF Attach, ReplayInv
  <1>6. Provenance(ex) # {}
    BY <1>1, <1>2 DEF Faithful
  <1>7. /\ pc' \in {"start", "recheck"} /\ UNCHANGED <<canceller, cancelCopy, answer, src, moved>>
        /\ answer \notin {"refused", "replayed", "mutated"} /\ Driven'
    BY DEF Attach, ReplayInv, WhereInv, cancelling, Driven
  <1>8. WhereInv'
    BY <1>5, <1>7 DEF WhereInv
  <1>9. SourceInv'
    BY <1>5, <1>7 DEF Attach, ReplayInv, SourceInv
  <1>10. ChildInv'
    BY <1>5, <1>7 DEF ReplayInv, ChildInv
  <1>11. CopyInv' /\ ProvenanceInv'
    BY <1>5, <1>6, <1>7 DEF CopyInv, ProvenanceInv
  <1>12. QED
    BY <1>5, <1>8, <1>9, <1>10, <1>11 DEF ReplayInv

\* A step of create_replay that stores nothing.
LEMMA RecheckSteps == ASSUME ReplayInv, Recheck PROVE ReplayInv'
  <1>1. /\ StoredInv' /\ (HasChild' <=> HasChild) /\ DOMAIN stored' = DOMAIN stored
        /\ \A id \in DOMAIN stored : Get(id)' = Get(id)
    BY StoredAlone DEF Recheck, ReplayInv, store
  <1>2. Asked' = Asked
    BY SameAsked DEF Recheck, fixed
  <1>3. /\ pc = "recheck" /\ pc' = "answered" /\ ~ Driven' /\ Driven
        /\ canceller' = canceller /\ cancelCopy' = cancelCopy
        /\ answer' \in {"replayed", "mutated"} /\ HasChild /\ moved' = moved
        /\ answer' = "mutated" => Get("source") # src
    BY DEF Recheck, Driven, cancelling, ReplayInv, WhereInv
  <1>4. Get("child")' = Get("child")
    BY <1>1, <1>3 DEF HasChild
  <1>5. WhereInv' /\ SourceInv'
    BY <1>1, <1>3 DEF ReplayInv, WhereInv, SourceInv
  <1>6. ChildInv'
    BY <1>1, <1>2, <1>3, <1>4 DEF ReplayInv, ChildInv
  <1>7. CopyInv' /\ ProvenanceInv'
    BY <1>3, <1>4 DEF ReplayInv, CopyInv, ProvenanceInv
  <1>8. QED BY <1>1, <1>5, <1>6, <1>7 DEF ReplayInv

LEMMA RaisesSteps == ASSUME ReplayInv, Raises PROVE ReplayInv'
  <1>1. /\ StoredInv' /\ (HasChild' <=> HasChild) /\ DOMAIN stored' = DOMAIN stored
        /\ \A id \in DOMAIN stored : Get(id)' = Get(id)
    BY StoredAlone DEF Raises, ReplayInv, store
  <1>2. Asked' = Asked
    BY SameAsked DEF Raises, fixed
  <1>3. /\ pc' = "answered" /\ ~ Driven'
        /\ canceller' = canceller /\ cancelCopy' = cancelCopy
        /\ answer' = "error" /\ moved' = moved
    BY DEF Raises, Driven, cancelling
  <1>4. HasChild => Get("child")' = Get("child")
    BY <1>1 DEF HasChild
  <1>5. WhereInv' /\ SourceInv'
    BY <1>1, <1>3 DEF ReplayInv, WhereInv, SourceInv
  <1>6. ChildInv'
    BY <1>1, <1>2, <1>3, <1>4 DEF ReplayInv, ChildInv, WhereInv
  <1>7. CopyInv' /\ ProvenanceInv'
    BY <1>3 DEF CopyInv, ProvenanceInv
  <1>8. QED BY <1>1, <1>5, <1>6, <1>7 DEF ReplayInv

\* What holds after a step of the driver: of the record it has left behind, its
\* provenance, and of the copy it holds.
LEMMA DriverSteps ==
  ASSUME ReplayInv, Driven, Driven', UNCHANGED <<fixed, src, answer, cancelling, moved>>,
         StoredInv', HasChild', Get("source")' = Get("source"),
         Late(Get("child")', Asked), CopyInv',
         canceller = "idle" => Provenance(Get("child")') # {},
         canceller = "idle" /\ pc' \in {"planning", "plan", "trace", "write", "finish"}
           => Provenance(child') # {}
  PROVE  ReplayInv'
  <1>1. Asked' = Asked
    BY SameAsked DEF fixed
  <1>2. pc \notin {"read", "answered", "validate", "create"} /\ pc' \notin {"read", "answered", "validate", "create"}
    BY DEF Driven
  <1>3. answer \notin {"refused", "replayed", "mutated"}
    BY <1>2 DEF ReplayInv, WhereInv
  <1>4. WhereInv' /\ SourceInv'
    BY <1>2, <1>3 DEF ReplayInv, WhereInv, SourceInv
  <1>5. Sound(Get("child")', Asked)
    BY DEF Late
  <1>6. ChildInv'
    BY <1>1, <1>5 DEF ReplayInv, ChildInv, cancelling
  <1>7. ProvenanceInv'
    BY <1>3 DEF ProvenanceInv, cancelling
  <1>8. QED BY <1>4, <1>6, <1>7 DEF ReplayInv

\* A step of the driver that only reads.
LEMMA DriverReads ==
  ASSUME ReplayInv, Driven, Driven', UNCHANGED <<fixed, stored, src, answer, cancelling, moved>>,
         pc' \in {"planning", "plan", "trace"} => child' = Get("child"),
         pc' \in {"write", "finish"} => child' = Get("child") /\ Faithful(Get("child"), Asked),
         pc' # "attach"
  PROVE  ReplayInv'
  <1>1. /\ StoredInv' /\ (HasChild' <=> HasChild) /\ DOMAIN stored' = DOMAIN stored
        /\ \A id \in DOMAIN stored : Get(id)' = Get(id)
    BY StoredAlone DEF ReplayInv
  <1>2. HasChild /\ "child" \in DOMAIN stored /\ "source" \in DOMAIN stored
    BY DEF ReplayInv, WhereInv, StoredInv, HasChild
  <1>3. Get("child")' = Get("child") /\ Get("source")' = Get("source")
    BY <1>1, <1>2
  <1>4. Asked' = Asked
    BY SameAsked DEF fixed
  <1>5. Late(Get("child"), Asked) /\ IsExecution(Get("child"))
    BY <1>2 DEF ReplayInv, ChildInv, StoredInv
  <1>6. CopyInv'
    BY <1>4, <1>5 DEF CopyInv
  <1>7. canceller = "idle" => Provenance(Get("child")) # {}
    BY DEF ReplayInv, ProvenanceInv
  <1>8. Late(Get("child")', Asked)
    BY <1>3, <1>5
  <1>9. canceller = "idle" => Provenance(Get("child")') # {}
    BY <1>3, <1>7
  <1>10. canceller = "idle" /\ pc' \in {"planning", "plan", "trace", "write", "finish"}
           => Provenance(child') # {}
    BY <1>7
  <1>11. QED BY <1>1, <1>2, <1>3, <1>6, <1>8, <1>9, <1>10, DriverSteps

\* A step of the driver that writes ex, and keeps it or nothing.
LEMMA DriverWrites ==
  ASSUME ReplayInv, Driven, Driven', UNCHANGED <<fixed, src, answer, cancelling, moved>>,
         NEW ex, IsExecution(ex), Late(ex, Asked), stored' = Put("child", ex),
         canceller = "idle" => Provenance(ex) # {},
         pc' \in {"planning", "plan", "trace"} => child' = ex,
         pc' \notin {"write", "finish", "attach"}
  PROVE  ReplayInv'
  <1>1. /\ StoredInv' /\ HasChild' /\ Get("source")' = Get("source") /\ Asked' = Asked
        /\ Late(Get("child")', Asked)
        /\ Provenance(Get("child")') = Provenance(ex)
    BY DriverPuts DEF ReplayInv
  <1>2. CopyInv'
    BY <1>1 DEF CopyInv
  <1>3. canceller = "idle" => Provenance(Get("child")') # {}
    BY <1>1
  <1>4. canceller = "idle" /\ pc' \in {"planning", "plan", "trace", "write", "finish"}
           => Provenance(child') # {}
    BY <1>1
  <1>5. QED BY <1>1, <1>2, <1>3, <1>4, DriverSteps

LEMMA LateMoves ==
  ASSUME NEW ex, IsExecution(ex), NEW asked, NEW status \in {"planning", "executing", "failed", "cancelled"},
         Late(ex, asked)
  PROVE  Late(Moves(ex, status), asked) /\ Follows(ex, Moves(ex, status))
  <1>1. PICK next : next = Moves(ex, status)
    OBVIOUS
  <1>2. Follows(ex, next) /\ next.status = status
    BY <1>1, MovesFollows DEF ExecutionStatus
  <1>3. Faithful(ex, asked) => Faithful(next, asked)
    BY <1>2, FaithfulFollows
  <1>4. QED BY <1>1, <1>2, <1>3 DEF Late, Sound, Follows

\* The record that has its plan.
LEMMA PlannedFollows ==
  ASSUME NEW ex, IsExecution(ex), NEW asked, Late(ex, asked)
  PROVE  /\ Follows(ex, [Moves(ex, "executing") EXCEPT !.plan = "child_plan"])
         /\ Late([Moves(ex, "executing") EXCEPT !.plan = "child_plan"], asked)
  <1>1. PICK next : next = Moves(ex, "executing")
    OBVIOUS
  <1>2. Follows(ex, next) /\ Late(next, asked) /\ IsExecution(next)
    BY <1>1, LateMoves DEF Follows
  <1>3. PICK planned : planned = [next EXCEPT !.plan = "child_plan"]
    OBVIOUS
  <1>4. next = [f \in Fields |-> next[f]]
    BY <1>2 DEF IsExecution
  <1>5. /\ planned = [f \in Fields |-> planned[f]]
        /\ \A f \in {"input", "execution_mode", "parent", "timeline", "status"} : planned[f] = next[f]
    BY <1>3, <1>4 DEF Fields
  <1>6. Follows(next, planned) /\ planned.status = next.status
    BY <1>2, <1>5, ChangedFollows
  <1>7. Follows(ex, planned) /\ Late(planned, asked)
    BY <1>2, <1>6, FollowsOn, LateFollows
  <1>8. QED BY <1>1, <1>3, <1>7

LEMMA PlanChildSteps == ASSUME ReplayInv, PlanChild PROVE ReplayInv'
  <1>1. UNCHANGED <<fixed, src, answer, cancelling, moved>>
    BY DEF PlanChild
  <1>2. CASE pc = "start"
    <2>1. /\ Driven /\ Driven' /\ UNCHANGED stored /\ child' = Get("child")
          /\ pc' \in {"recheck", "planning"}
      BY <1>2 DEF PlanChild, Planning, Driven, store
    <2>2. QED BY <1>1, <2>1, DriverReads
  <1>3. CASE pc = "planning"
    <2>1. /\ Driven /\ Driven' /\ child' = Moves(child, "planning") /\ stored' = Put("child", child')
          /\ pc' = "plan"
      BY <1>3 DEF PlanChild, Planning, Driven
    <2>2. IsExecution(child) /\ Late(child, Asked) /\ (canceller = "idle" => Provenance(child) # {})
      BY <1>3 DEF ReplayInv, CopyInv, ProvenanceInv
    <2>3. PICK ex : ex = child'
      OBVIOUS
    <2>4. Follows(child, ex) /\ Late(ex, Asked)
      BY <2>1, <2>2, <2>3, LateMoves
    <2>5. IsExecution(ex) /\ Provenance(ex) = Provenance(child)
      BY <2>4 DEF Follows
    <2>6. stored' = Put("child", ex) /\ (canceller = "idle" => Provenance(ex) # {})
      BY <2>1, <2>2, <2>3, <2>5
    <2>7. QED BY <1>1, <2>1, <2>3, <2>4, <2>5, <2>6, DriverWrites
  <1>4. CASE pc = "plan"
    <2>1. /\ Driven /\ Driven' /\ child' = [Moves(child, "executing") EXCEPT !.plan = "child_plan"]
          /\ stored' = Put("child", child') /\ pc' = "loop"
      BY <1>4 DEF PlanChild, Planning, Driven
    <2>2. IsExecution(child) /\ Late(child, Asked) /\ (canceller = "idle" => Provenance(child) # {})
      BY <1>4 DEF ReplayInv, CopyInv, ProvenanceInv
    <2>3. PICK ex : ex = child'
      OBVIOUS
    <2>4. Follows(child, ex) /\ Late(ex, Asked)
      BY <2>1, <2>2, <2>3, PlannedFollows
    <2>5. IsExecution(ex) /\ Provenance(ex) = Provenance(child)
      BY <2>4 DEF Follows
    <2>6. stored' = Put("child", ex) /\ (canceller = "idle" => Provenance(ex) # {})
      BY <2>1, <2>2, <2>3, <2>5
    <2>7. QED BY <1>1, <2>1, <2>3, <2>4, <2>5, <2>6, DriverWrites
  <1>5. QED BY <1>2, <1>3, <1>4 DEF PlanChild, Planning

\* A record that is not flagged, or is being validated, is what was asked for.
LEMMA LoopSteps == ASSUME ReplayInv, Loop PROVE ReplayInv'
  <1>1. /\ UNCHANGED <<fixed, stored, src, answer, cancelling, moved>> /\ Driven /\ Driven'
        /\ child' = Get("child") /\ pc' \in {"stop", "recheck", "write"}
        /\ pc' = "write" => ~ Flagged(Get("child"))
    BY DEF Loop, store, Driven
  <1>2. Late(Get("child"), Asked)
    BY <1>1 DEF ReplayInv, ChildInv
  <1>3. pc' = "write" => Faithful(Get("child"), Asked)
    BY <1>1, <1>2 DEF Late
  <1>4. QED BY <1>1, <1>3, DriverReads

LEMMA AgainSteps == ASSUME ReplayInv, Again PROVE ReplayInv'
  <1>1. /\ UNCHANGED <<fixed, stored, src, answer, cancelling, moved>> /\ Driven /\ Driven'
        /\ child' = Get("child") /\ pc' \in {"recheck", "work", "finish", "fail"}
        /\ pc' = "finish" => Get("child").status = "validating"
    BY DEF Again, store, Driven
  <1>2. Late(Get("child"), Asked)
    BY <1>1 DEF ReplayInv, ChildInv
  <1>3. pc' = "finish" => Faithful(Get("child"), Asked)
    BY <1>1, <1>2 DEF Late, Sound
  <1>4. QED BY <1>1, <1>3, DriverReads

\* What the driver knows of the stored child.
LEMMA TheChildIsLate ==
  ASSUME ReplayInv, Driven
  PROVE  /\ IsExecution(Get("child")) /\ Late(Get("child"), Asked)
         /\ canceller = "idle" => Provenance(Get("child")) # {}
  BY DEF ReplayInv, WhereInv, StoredInv, ChildInv, ProvenanceInv, HasChild

LEMMA LateCancelled ==
  ASSUME NEW ex, IsExecution(ex), NEW asked
  PROVE  /\ Sound(ex, asked) => Late(Cancelled(ex), asked)
         /\ Follows(ex, Cancelled(ex))
  <1>1. PICK next : next = Cancelled(ex)
    OBVIOUS
  <1>2. Follows(ex, next) /\ Flagged(next) /\ next.status \in {ex.status, "cancelled"}
    BY <1>1, CancelledFollows
  <1>3. Faithful(ex, asked) => Faithful(next, asked)
    BY <1>2, FaithfulFollows
  <1>4. QED BY <1>1, <1>2, <1>3 DEF Late, Sound

LEMMA StopSteps == ASSUME ReplayInv, Stop PROVE ReplayInv'
  <1>1. /\ UNCHANGED <<fixed, src, answer, cancelling, moved>> /\ Driven /\ Driven' /\ pc' = "recheck"
        /\ stored' = Put("child", Cancelled(Get("child")))
    BY DEF Stop, Driven
  <1>2. /\ IsExecution(Get("child")) /\ Late(Get("child"), Asked)
        /\ canceller = "idle" => Provenance(Get("child")) # {}
    BY <1>1, TheChildIsLate
  <1>3. PICK ex : ex = Cancelled(Get("child"))
    OBVIOUS
  <1>4. Late(ex, Asked) /\ Follows(Get("child"), ex)
    BY <1>2, <1>3, LateCancelled DEF Late
  <1>5. IsExecution(ex) /\ Provenance(ex) = Provenance(Get("child"))
    BY <1>4 DEF Follows
  <1>6. QED BY <1>1, <1>2, <1>3, <1>4, <1>5, DriverWrites

LEMMA WriteBackSteps == ASSUME ReplayInv, WriteBack PROVE ReplayInv'
  <1>1. /\ UNCHANGED <<fixed, src, answer, cancelling, moved>> /\ Driven /\ Driven' /\ pc' = "again"
        /\ pc = "write"
        /\ stored' = Put("child", IF Worked /\ child.status = "executing"
                                  THEN Moves(child, "validating") ELSE child)
    BY DEF WriteBack, Driven
  <1>2. IsExecution(child) /\ Faithful(child, Asked) /\ (canceller = "idle" => Provenance(child) # {})
    BY <1>1 DEF ReplayInv, CopyInv, ProvenanceInv
  <1>3. PICK ex : ex = IF Worked /\ child.status = "executing"
                       THEN Moves(child, "validating") ELSE child
    OBVIOUS
  <1>4. Follows(child, child)
    BY <1>2 DEF Follows
  <1>5. Follows(child, Moves(child, "validating"))
    BY <1>2, MovesFollows DEF ExecutionStatus
  <1>6. Follows(child, ex)
    BY <1>3, <1>4, <1>5
  <1>7. Faithful(ex, Asked)
    BY <1>2, <1>6, FaithfulFollows
  <1>8. IsExecution(ex) /\ Provenance(ex) = Provenance(child) /\ Late(ex, Asked)
    BY <1>6, <1>7 DEF Follows, Late, Sound
  <1>9. stored' = Put("child", ex)
    BY <1>1, <1>3
  <1>10. QED BY <1>1, <1>2, <1>8, <1>9, DriverWrites

LEMMA FailSteps == ASSUME ReplayInv, Fail PROVE ReplayInv'
  <1>1. /\ UNCHANGED <<fixed, src, answer, cancelling, moved>> /\ Driven /\ Driven' /\ pc' = "recheck"
    BY DEF Fail, Driven
  <1>2. CASE UNCHANGED stored
    BY <1>1, <1>2, DriverReads
  <1>3. CASE stored' = Put("child", [Moves(Get("child"), "failed") EXCEPT
                                       !.result = {[outcome |-> "failed"]}])
    <2>1. /\ IsExecution(Get("child")) /\ Late(Get("child"), Asked)
          /\ canceller = "idle" => Provenance(Get("child")) # {}
      BY <1>1, TheChildIsLate
    <2>2. PICK moved_ : moved_ = Moves(Get("child"), "failed")
      OBVIOUS
    <2>3. Late(moved_, Asked) /\ Follows(Get("child"), moved_)
      BY <2>1, <2>2, LateMoves
    <2>4. IsExecution(moved_) /\ Provenance(moved_) = Provenance(Get("child"))
      BY <2>3 DEF Follows
    <2>5. PICK ex : ex = [moved_ EXCEPT !.result = {[outcome |-> "failed"]}]
      OBVIOUS
    <2>6. moved_ = [f \in Fields |-> moved_[f]]
      BY <2>4 DEF IsExecution
    <2>7. /\ ex = [f \in Fields |-> ex[f]]
          /\ \A f \in {"input", "execution_mode", "parent", "timeline", "status"} : ex[f] = moved_[f]
      BY <2>5, <2>6 DEF Fields
    <2>8. Follows(moved_, ex) /\ ex.status = moved_.status
      BY <2>4, <2>7, ChangedFollows
    <2>9. IsExecution(ex) /\ Late(ex, Asked) /\ Provenance(ex) = Provenance(moved_)
      BY <2>3, <2>8, LateFollows DEF Follows
    <2>10. stored' = Put("child", ex)
      BY <1>3, <2>2, <2>5
    <2>11. QED BY <1>1, <2>1, <2>4, <2>9, <2>10, DriverWrites
  <1>4. QED BY <1>2, <1>3 DEF Fail

\* The record to which a run has added its rows.
LEMMA TracedFollows ==
  ASSUME NEW ex, IsExecution(ex), NEW run, IsRun(run)
  PROVE  /\ Follows(ex, [ex EXCEPT !.timeline = @ \o run.reasoning])
         /\ [ex EXCEPT !.timeline = @ \o run.reasoning].status = ex.status
  <1>1. PICK timeline : timeline = ex.timeline \o run.reasoning
    OBVIOUS
  <1>2. /\ timeline \in Seq(TimelineRow)
        /\ ex.timeline # <<>> => timeline # <<>> /\ timeline[1] = ex.timeline[1]
    BY <1>1, FirstRow DEF IsExecution, IsRun
  <1>3. PICK next : next = [ex EXCEPT !.timeline = @ \o run.reasoning]
    OBVIOUS
  <1>4. next = [f \in Fields |-> IF f = "timeline" THEN timeline ELSE ex[f]]
    BY <1>1, <1>3 DEF IsExecution, Fields
  <1>5. Follows(ex, next) /\ next.status = ex.status
    BY <1>2, <1>4 DEF Follows, IsExecution, Fields, Provenance, Flagged
  <1>6. QED BY <1>3, <1>5

LEMMA WorkSteps == ASSUME ReplayInv, Work PROVE ReplayInv'
  <1>1. /\ UNCHANGED <<fixed, src, answer, cancelling, moved>> /\ Driven /\ Driven'
    BY DEF Work, Driven
  <1>2. CASE pc = "work"
    <2>1. UNCHANGED stored /\ child' = Get("child") /\ pc' = "trace"
      BY <1>2 DEF Work
    <2>2. QED BY <1>1, <2>1, DriverReads
  <1>3. CASE pc = "trace"
    <2>1. /\ stored' = Put("child", [child EXCEPT !.timeline = @ \o runs.child.reasoning])
          /\ pc' = "loop"
      BY <1>3 DEF Work
    <2>2. IsExecution(child) /\ Late(child, Asked) /\ (canceller = "idle" => Provenance(child) # {})
      BY <1>3 DEF ReplayInv, CopyInv, ProvenanceInv
    <2>3. IsRun(runs.child)
      BY RunsAreRuns DEF ReplayInv, StoredInv
    <2>4. PICK ex : ex = [child EXCEPT !.timeline = @ \o runs.child.reasoning]
      OBVIOUS
    <2>5. PICK run : run = runs.child
      OBVIOUS
    <2>6. Follows(child, ex) /\ ex.status = child.status
      <3>1. ex = [child EXCEPT !.timeline = @ \o run.reasoning]
        BY <2>4, <2>5
      <3>2. IsRun(run)
        BY <2>3, <2>5
      <3>3. QED BY <2>2, <3>1, <3>2, TracedFollows
    <2>7. IsExecution(ex) /\ Late(ex, Asked) /\ Provenance(ex) = Provenance(child)
      BY <2>2, <2>6, LateFollows DEF Follows
    <2>8. stored' = Put("child", ex)
      BY <2>1, <2>4
    <2>9. QED BY <1>1, <2>1, <2>2, <2>7, <2>8, DriverWrites
  <1>4. QED BY <1>2, <1>3 DEF Work

LEMMA FinishSteps == ASSUME ReplayInv, Finish PROVE ReplayInv'
  <1>1. /\ UNCHANGED <<fixed, src, answer, cancelling, moved>> /\ Driven /\ Driven' /\ pc' = "recheck"
        /\ pc = "finish" /\ stored' = Put("child", Finished(child, runs.child))
    BY DEF Finish, Driven
  <1>2. IsExecution(child) /\ Faithful(child, Asked) /\ (canceller = "idle" => Provenance(child) # {})
    BY <1>1 DEF ReplayInv, CopyInv, ProvenanceInv
  <1>3. IsRun(runs.child)
    BY RunsAreRuns DEF ReplayInv, StoredInv
  <1>4. PICK ex : ex = Finished(child, runs.child)
    OBVIOUS
  <1>5. Follows(child, ex)
    BY <1>2, <1>3, <1>4, FinishedFollows
  <1>6. Faithful(ex, Asked)
    BY <1>2, <1>5, FaithfulFollows
  <1>7. IsExecution(ex) /\ Late(ex, Asked) /\ Provenance(ex) = Provenance(child)
    BY <1>5, <1>6 DEF Follows, Late, Sound
  <1>8. QED BY <1>1, <1>2, <1>4, <1>7, DriverWrites

\* A step that leaves the service and the source alone and the child sound; while the
\* driver is at it, late.
LEMMA OperatorSteps ==
  ASSUME ReplayInv, UNCHANGED <<fixed, service, moved>>, StoredInv', HasChild', HasChild,
         Get("source")' = Get("source"), canceller' # "idle",
         Sound(Get("child")', Asked), Driven => Late(Get("child")', Asked),
         canceller' = "flag" => IsExecution(cancelCopy') /\ Sound(cancelCopy', Asked)
  PROVE  ReplayInv'
  <1>1. Asked' = Asked /\ Mode' = Mode /\ (Driven' <=> Driven)
    BY SameAsked DEF fixed, service, Driven
  <1>2. WhereInv' /\ SourceInv'
    BY <1>1 DEF ReplayInv, WhereInv, SourceInv, service
  <1>3. ChildInv'
    BY <1>1 DEF ChildInv
  <1>4. CopyInv' /\ ProvenanceInv'
    BY <1>1 DEF ReplayInv, CopyInv, ProvenanceInv, service
  <1>5. QED BY <1>2, <1>3, <1>4 DEF ReplayInv

LEMMA SoundFlagged ==
  ASSUME NEW ex, IsExecution(ex), NEW asked, Sound(ex, asked)
  PROVE  Late(Flag(ex), asked) /\ IsExecution(Flag(ex))
  <1>1. PICK next : next = Flag(ex)
    OBVIOUS
  <1>2. Follows(ex, next) /\ Flagged(next) /\ next.status = ex.status
    BY <1>1, FlagFollows
  <1>3. Sound(next, asked)
    BY <1>2, LateFollows
  <1>4. QED BY <1>1, <1>2, <1>3 DEF Late, Follows

LEMMA CancelSteps == ASSUME ReplayInv, Cancel PROVE ReplayInv'
  <1>1. UNCHANGED <<fixed, service, moved>>
    BY DEF Cancel
  <1>2. StoredInv /\ "source" \in DOMAIN stored
    BY DEF ReplayInv, StoredInv
  <1>3. CASE canceller = "idle"
    <2>1. PICK listed \in ListByParent(backend, Executions, "source", 50) :
                 \E i \in DOMAIN listed : cancelCopy' = listed[i]
      BY <1>3 DEF Cancel, CancelChild
    <2>2. PICK i \in DOMAIN listed : cancelCopy' = listed[i]
      BY <2>1
    <2>3. HasChild /\ cancelCopy' = Get("child")
      BY <1>2, <2>1, <2>2, TheChildIsListed
    <2>4. UNCHANGED stored /\ canceller' = "flag"
      BY <1>3 DEF Cancel, CancelChild
    <2>5. /\ StoredInv' /\ (HasChild' <=> HasChild)
          /\ \A id \in DOMAIN stored : Get(id)' = Get(id)
      BY <1>1, <1>2, <2>4, StoredAlone
    <2>6. Get("source")' = Get("source") /\ Get("child")' = Get("child") /\ HasChild'
      BY <1>2, <2>3, <2>5 DEF HasChild
    <2>7. /\ IsExecution(Get("child")) /\ Sound(Get("child"), Asked)
          /\ Driven => Late(Get("child"), Asked)
      BY <2>3 DEF ReplayInv, StoredInv, ChildInv, HasChild
    <2>8. /\ IsExecution(cancelCopy') /\ Sound(cancelCopy', Asked) /\ canceller' # "idle"
          /\ Sound(Get("child")', Asked) /\ (Driven => Late(Get("child")', Asked))
      BY <2>3, <2>4, <2>6, <2>7
    <2>9. QED BY <1>1, <2>3, <2>5, <2>6, <2>8, OperatorSteps
  <1>4. ASSUME canceller # "idle", canceller' \in {"done", "cancel"},
               NEW ex, IsExecution(ex), Late(ex, Asked), stored' = Put("child", ex)
        PROVE  ReplayInv'
    <2>1. HasChild
      BY <1>4 DEF ReplayInv, WhereInv
    <2>2. UNCHANGED src
      BY <1>1 DEF service
    <2>3. /\ StoredInv' /\ HasChild' /\ Get("source")' = Get("source")
          /\ Sound(Get("child")', Asked) /\ Late(Get("child")', Asked)
      BY <1>1, <1>2, <1>4, <2>2, DriverPuts
    <2>4. canceller' # "idle" /\ canceller' # "flag"
      BY <1>4
    <2>5. QED BY <1>1, <2>1, <2>3, <2>4, OperatorSteps
  <1>5. CASE canceller = "flag"
    <2>1. IsExecution(cancelCopy) /\ Sound(cancelCopy, Asked)
      BY <1>5 DEF ReplayInv, ChildInv
    <2>2. PICK ex : ex = Flag(cancelCopy)
      OBVIOUS
    <2>3. IsExecution(ex) /\ Late(ex, Asked)
      BY <2>1, <2>2, SoundFlagged
    <2>4. stored' = Put("child", ex) /\ canceller' \in {"done", "cancel"} /\ canceller # "idle"
      BY <1>5, <2>2 DEF Cancel, CancelChild
    <2>5. QED BY <1>4, <2>3, <2>4
  <1>6. CASE canceller = "cancel"
    <2>1. HasChild
      BY <1>6 DEF ReplayInv, WhereInv
    <2>2. IsExecution(Get("child")) /\ Sound(Get("child"), Asked)
      BY <2>1 DEF ReplayInv, StoredInv, ChildInv, HasChild
    <2>3. PICK ex : ex = Cancelled(Get("child"))
      OBVIOUS
    <2>4. Late(ex, Asked) /\ Follows(Get("child"), ex)
      BY <2>2, <2>3, LateCancelled
    <2>5. IsExecution(ex)
      BY <2>4 DEF Follows
    <2>6. stored' = Put("child", ex) /\ canceller' \in {"done", "cancel"} /\ canceller # "idle"
      BY <1>6, <2>3 DEF Cancel, CancelChild
    <2>7. QED BY <1>4, <2>4, <2>5, <2>6
  <1>7. QED BY <1>3, <1>5, <1>6 DEF Cancel, CancelChild

\* A step that leaves the service and the child alone.
LEMMA AsideSteps ==
  ASSUME ReplayInv, UNCHANGED <<fixed, service, cancelling>>, StoredInv', HasChild' <=> HasChild,
         HasChild => Get("child")' = Get("child"),
         pc = "read" \/ moved' \/ (moved' = moved /\ Get("source")' = Get("source")),
         moved => moved'
  PROVE  ReplayInv'
  <1>1. Asked' = Asked /\ Mode' = Mode /\ (Driven' <=> Driven)
    BY SameAsked DEF fixed, service, Driven
  <1>2. WhereInv'
    BY <1>1 DEF ReplayInv, WhereInv, service, cancelling
  <1>3. SourceInv'
    BY <1>1 DEF ReplayInv, SourceInv, service
  <1>4. ChildInv'
    BY <1>1 DEF ReplayInv, ChildInv, cancelling, WhereInv
  <1>5. CopyInv' /\ ProvenanceInv'
    BY <1>1 DEF ReplayInv, CopyInv, ProvenanceInv, service, cancelling, WhereInv
  <1>6. QED BY <1>2, <1>3, <1>4, <1>5 DEF ReplayInv

LEMMA SourceMovesSteps == ASSUME ReplayInv, SourceMoves PROVE ReplayInv'
  <1>1. UNCHANGED <<fixed, service, cancelling>> /\ moved' = TRUE
    BY DEF SourceMoves
  <1>2. StoredInv /\ IsExecution(Get("source")) /\ Get("source").parent = "none"
    BY DEF ReplayInv, StoredInv
  <1>3. ASSUME NEW ex, Follows(Get("source"), ex), stored' = Put("source", ex) PROVE ReplayInv'
    <2>1. IsExecution(ex) /\ ex.parent = "none"
      BY <1>2, <1>3 DEF Follows
    <2>2. StoredInv' /\ (HasChild' <=> HasChild) /\ (HasChild => Get("child")' = Get("child"))
      BY <1>1, <1>2, <1>3, <2>1, PutSource
    <2>3. QED BY <1>1, <2>2, AsideSteps
  <1>4. CASE stored' = Put("source", Finished(Get("source"), runs.source))
    <2>1. IsRun(runs.source)
      BY RunsAreRuns DEF ReplayInv, StoredInv
    <2>2. PICK ex : ex = Finished(Get("source"), runs.source)
      OBVIOUS
    <2>3. Follows(Get("source"), ex)
      BY <1>2, <2>1, <2>2, FinishedFollows
    <2>4. QED BY <1>3, <1>4, <2>2, <2>3
  <1>5. CASE stored' = Put("source", Cancelled(Get("source")))
    <2>1. PICK ex : ex = Cancelled(Get("source"))
      OBVIOUS
    <2>2. Follows(Get("source"), ex)
      BY <1>2, <2>1, CancelledFollows
    <2>3. QED BY <1>3, <1>5, <2>1, <2>2
  <1>6. QED BY <1>4, <1>5 DEF SourceMoves

LEMMA OtherSteps ==
  ASSUME ReplayInv, UNCHANGED <<fixed, store, service, cancelling, moved>> PROVE ReplayInv'
  <1>1. /\ StoredInv' /\ (HasChild' <=> HasChild)
        /\ \A id \in DOMAIN stored : Get(id)' = Get(id)
    BY StoredAlone DEF ReplayInv, store
  <1>2. "source" \in DOMAIN stored /\ (HasChild <=> "child" \in DOMAIN stored)
    BY DEF ReplayInv, StoredInv, HasChild
  <1>3. QED BY <1>1, <1>2, AsideSteps

(***************************************************************************)
(* The theorems.                                                           *)
(***************************************************************************)
\* The source as it is found.
LEMMA SourceIsExecution ==
  ASSUME NEW status \in {"executing", "cancelled", "finished"}, NEW run, IsRun(run)
  PROVE  IsExecution(SourceAt(status, run)) /\ SourceAt(status, run).parent = "none"
  <1> DEFINE input == With([severity |-> "high"], MetaKey, "queued")
             fresh == [id |-> "source", status |-> "executing", workflow_type |-> "incident_triage",
                       parent |-> "none", plan |-> "source_plan", input |-> input,
                       execution_mode |-> "interactive", timeline |-> <<>>,
                       validation |-> "none", result |-> {}, created_at |-> 1]
             traced == [fresh EXCEPT !.timeline = run.reasoning]
  <1>1. input = [k \in DOMAIN input |-> input[k]] /\ IsFiniteSet(DOMAIN input)
    <2>1. DOMAIN input = {"severity"} \cup {MetaKey}
      BY DEF With, Merged
    <2>2. IsFiniteSet({"severity"} \cup {MetaKey})
      BY FS_Singleton, FS_AddElement
    <2>3. input = [k \in DOMAIN input |-> input[k]]
      BY DEF With, Merged
    <2> HIDE DEF input
    <2>4. QED BY <2>1, <2>2, <2>3
  <1>2. IsExecution(fresh) /\ fresh.parent = "none"
    <2> HIDE DEF input
    <2>1. <<>> \in Seq(TimelineRow) /\ "interactive" \in Modes
      BY DEF Modes
    <2>2. fresh = [f \in Fields |-> fresh[f]]
      BY DEF Fields
    <2>3. QED BY <1>1, <2>1, <2>2 DEF IsExecution
  <1>3. IsExecution(traced) /\ traced.parent = "none"
    <2>1. /\ traced = [f \in Fields |-> traced[f]]
          /\ traced.input = input /\ traced.execution_mode = "interactive"
          /\ traced.timeline = run.reasoning /\ traced.parent = "none"
      <3> HIDE DEF input
      <3>1. QED BY DEF Fields
    <2> HIDE DEF traced, input
    <2>2. "interactive" \in Modes
      BY DEF Modes
    <2>3. QED BY <1>1, <2>1, <2>2 DEF IsExecution, IsRun
  <1>4. SourceAt(status, run) \in {fresh, Cancelled(fresh), Finished(traced, run)}
    BY DEF SourceAt
  <1> HIDE DEF fresh, traced
  <1>5. Follows(fresh, Cancelled(fresh)) /\ Follows(traced, Finished(traced, run))
    BY <1>2, <1>3, CancelledFollows, FinishedFollows
  <1>6. QED BY <1>2, <1>3, <1>4, <1>5 DEF Follows

LEMMA ReplayInit == ASSUME Init PROVE ReplayInv
  <1>1. /\ backend \in Backends /\ request \in Requests /\ runs \in Runs
        /\ pc = "read" /\ answer = "none" /\ canceller = "idle"
    BY DEF Init
  <1>2. PICK status \in {"executing", "cancelled", "finished"} :
               stored = [source |-> Persist(backend, SourceAt(status, runs.source))]
    BY DEF Init
  <1>3. PICK ex : ex = SourceAt(status, runs.source)
    OBVIOUS
  <1>4. PICK run : run = runs.source
    OBVIOUS
  <1>5. IsRun(run)
    BY <1>1, <1>4, RunsAreRuns
  <1>6. IsExecution(ex) /\ ex.parent = "none"
    BY <1>3, <1>4, <1>5, SourceIsExecution
  <1>7. DOMAIN stored = {"source"} /\ Get("source") = Restore(backend, Persist(backend, ex))
    BY <1>2, <1>3 DEF Get
  <1>8. PICK next : next = Restore(backend, Persist(backend, ex))
    OBVIOUS
  <1>9. IsExecution(next) /\ next.parent = "none"
    BY <1>1, <1>6, <1>8, Restored DEF Follows
  <1>10. StoredInv
    BY <1>1, <1>7, <1>8, <1>9 DEF StoredInv
  <1>11. ~ HasChild /\ ~ Driven
    BY <1>1, <1>7 DEF HasChild, Driven
  <1>12. WhereInv /\ SourceInv /\ ChildInv /\ CopyInv /\ ProvenanceInv
    BY <1>1, <1>11 DEF WhereInv, SourceInv, ChildInv, CopyInv, ProvenanceInv
  <1>13. QED BY <1>10, <1>12 DEF ReplayInv

LEMMA ReplaySteps == ReplayInv /\ [Next]_vars => ReplayInv'
  <1> SUFFICES ASSUME ReplayInv, [Next]_vars PROVE ReplayInv'
    OBVIOUS
  <1>1. CASE ReadSource BY <1>1, ReadSourceSteps
  <1>2. CASE Validate BY <1>2, ValidateSteps
  <1>3. CASE Create BY <1>3, CreateSteps
  <1>4. CASE Attach BY <1>4, AttachSteps
  <1>5. CASE Recheck BY <1>5, RecheckSteps
  <1>6. CASE Raises BY <1>6, RaisesSteps
  <1>7. CASE PlanChild BY <1>7, PlanChildSteps
  <1>8. CASE Loop BY <1>8, LoopSteps
  <1>9. CASE Stop BY <1>9, StopSteps
  <1>10. CASE WriteBack BY <1>10, WriteBackSteps
  <1>11. CASE Again BY <1>11, AgainSteps
  <1>12. CASE Fail BY <1>12, FailSteps
  <1>13. CASE Work BY <1>13, WorkSteps
  <1>14. CASE Finish BY <1>14, FinishSteps
  <1>15. CASE Cancel BY <1>15, CancelSteps
  <1>16. CASE SourceMoves BY <1>16, SourceMovesSteps
  <1>17. CASE Diff BY <1>17, OtherSteps DEF Diff
  <1>18. CASE UNCHANGED vars BY <1>18, OtherSteps DEF vars
  <1>19. QED
    BY <1>1, <1>2, <1>3, <1>4, <1>5, <1>6, <1>7, <1>8, <1>9, <1>10, <1>11, <1>12, <1>13,
       <1>14, <1>15, <1>16, <1>17, <1>18 DEF Next, Done

\* Every copy of the child that is written back late is flagged or what was asked for.
THEOREM ReplayInvariance == Spec => []ReplayInv
  <1>1. Init => ReplayInv
    BY ReplayInit
  <1>2. QED BY <1>1, ReplaySteps, PTL DEF Spec

\* A replay that completed is what was asked for (create_replay, request_cancellation).
THEOREM CompletedReplaysAreFaithful == Spec => []CompletedReplayIsFaithful
  <1>1. ReplayInv => CompletedReplayIsFaithful
    BY DEF ReplayInv, ChildInv, Sound, HasChild, CompletedReplayIsFaithful
  <1>2. QED BY <1>1, ReplayInvariance, PTL

\* What create_replay answers is true.
THEOREM ReplayAnswersAreTrue == Spec => []AnswersAreTrue
  <1>1. ReplayInv => AnswersAreTrue
    BY DEF ReplayInv, WhereInv, SourceInv, ProvenanceInv, HasChild, AnswersAreTrue
  <1>2. QED BY <1>1, ReplayInvariance, PTL

(***************************************************************************)
(* What a comparison says.  Items that are aside say nothing of the        *)
(* numbers of steps.                                                       *)
(***************************************************************************)
Aside(list) == IsSeq(list) /\ ~ OneCountDiffers(list) /\ ~ OneIsLonger(list)

StepTitles == {"step_count", "extra_replay_step", "missing_replay_step"}

LEMMA SaysItem ==
  ASSUME NEW category, NEW severity, NEW title
  PROVE  /\ IsSeq(Item(category, severity, title))
         /\ \A c, t : Says(Item(category, severity, title), c, t) <=> c = category /\ t = title
  <1>1. PICK e : e = [category |-> category, severity |-> severity, title |-> title]
    OBVIOUS
  <1>2. Item(category, severity, title) = <<e>>
    BY <1>1 DEF Item
  <1>3. IsSeq(<<e>>) /\ ToSet(<<e>>) = {e}
    BY OneElement
  <1>4. e.category = category /\ e.title = title
    BY <1>1
  <1>5. QED BY <1>2, <1>3, <1>4 DEF Says

LEMMA SaysBoth ==
  ASSUME NEW a, NEW b, IsSeq(a), IsSeq(b)
  PROVE  /\ IsSeq(a \o b)
         /\ \A c, t : Says(a \o b, c, t) <=> Says(a, c, t) \/ Says(b, c, t)
  <1>1. IsSeq(a \o b) /\ ToSet(a \o b) = ToSet(a) \cup ToSet(b)
    BY Concatenation
  <1>2. QED BY <1>1 DEF Says

LEMMA SaysAll ==
  ASSUME NEW n \in Nat, NEW f, f = [i \in 1 .. n |-> f[i]], \A i \in 1 .. n : IsSeq(f[i])
  PROVE  /\ IsSeq(FlattenSeq(f))
         /\ \A c, t : Says(FlattenSeq(f), c, t) <=> \E i \in 1 .. n : Says(f[i], c, t)
  <1>1. /\ IsSeq(FlattenSeq(f))
        /\ ToSet(FlattenSeq(f)) = UNION {ToSet(f[i]) : i \in 1 .. n}
    BY Flattening
  <1>2. QED BY <1>1 DEF Says

LEMMA AsideNone == Aside(<<>>)
  BY Nothing DEF Aside, OneCountDiffers, OneIsLonger, Says

LEMMA AsideItem ==
  ASSUME NEW category, NEW severity, NEW title,
         title \notin StepTitles \/ category \notin {"plan", "step"}
  PROVE  Aside(Item(category, severity, title))
  BY SaysItem DEF Aside, OneCountDiffers, OneIsLonger, StepTitles

LEMMA AsideDiffers ==
  ASSUME NEW category, NEW severity, NEW title, NEW a, NEW b,
         title \notin StepTitles \/ category \notin {"plan", "step"}
  PROVE  Aside(Differs(category, severity, title, a, b))
  BY AsideNone, AsideItem DEF Differs

LEMMA AsideBoth ==
  ASSUME NEW a, NEW b, Aside(a), Aside(b) PROVE Aside(a \o b)
  BY SaysBoth DEF Aside, OneCountDiffers, OneIsLonger

LEMMA AsideAll ==
  ASSUME NEW n \in Nat, NEW f, f = [i \in 1 .. n |-> f[i]], \A i \in 1 .. n : Aside(f[i])
  PROVE  Aside(FlattenSeq(f))
  <1>1. \A i \in 1 .. n : IsSeq(f[i])
    BY DEF Aside
  <1>2. /\ IsSeq(FlattenSeq(f))
        /\ \A c, t : Says(FlattenSeq(f), c, t) <=> \E i \in 1 .. n : Says(f[i], c, t)
    BY <1>1, SaysAll
  <1>3. QED BY <1>2 DEF Aside, OneCountDiffers, OneIsLonger

\* The same item for each of n places.
LEMMA SaysRepeated ==
  ASSUME NEW n \in Nat, NEW f, NEW category, NEW severity, NEW title,
         f = [i \in 1 .. n |-> Item(category, severity, title)]
  PROVE  /\ IsSeq(FlattenSeq(f))
         /\ \A c, t : Says(FlattenSeq(f), c, t) <=> n # 0 /\ c = category /\ t = title
  <1>1. /\ f = [i \in 1 .. n |-> f[i]]
        /\ \A i \in 1 .. n : f[i] = Item(category, severity, title)
    OBVIOUS
  <1>2. \A i \in 1 .. n : IsSeq(f[i])
    BY <1>1, SaysItem
  <1>3. /\ IsSeq(FlattenSeq(f))
        /\ \A c, t : Says(FlattenSeq(f), c, t) <=> \E i \in 1 .. n : Says(f[i], c, t)
    BY <1>1, <1>2, SaysAll
  <1>4. \A i \in 1 .. n : \A c, t : Says(f[i], c, t) <=> c = category /\ t = title
    BY <1>1, SaysItem
  <1>5. n # 0 <=> \E i \in 1 .. n : TRUE
    <2>1. n # 0 => 1 \in 1 .. n
      OBVIOUS
    <2>2. QED BY <2>1
  <1>6. QED BY <1>3, <1>4, <1>5

(***************************************************************************)
(* The lists that are compared.                                            *)
(***************************************************************************)
LEMMA KeysInARow ==
  ASSUME NEW S, IsFiniteSet(S) PROVE \E n \in Nat : DOMAIN SetToSeq(S) = 1 .. n
  <1>1. Cardinality(S) \in Nat /\ ExistsBijection(1 .. Cardinality(S), S)
    BY FS_CardinalityType
  <1>2. PICK f \in [1 .. Cardinality(S) -> S] : IsInjective(f)
    BY <1>1 DEF ExistsBijection, Bijection, Injection, IsInjective
  <1>3. SetToSeq(S) \in [1 .. Cardinality(S) -> S]
    BY <1>2 DEF SetToSeq
  <1>4. QED BY <1>1, <1>3

LEMMA RowsInAList ==
  ASSUME NEW b, NEW rs, IsSeq(rs), NEW s \in ListRows(b, rs)
  PROVE  IsSeq(s) /\ Len(s) = Len(rs)
  <1>1. Len(rs) \in Nat /\ DOMAIN rs = 1 .. Len(rs)
    BY SeqDomain
  <1>2. Cardinality(DOMAIN rs) = Len(rs)
    <2>1. 1 \in Int /\ Len(rs) \in Int /\ Len(rs) >= 0
      BY <1>1
    <2>2. Cardinality(1 .. Len(rs)) = IF 1 > Len(rs) THEN 0 ELSE Len(rs) - 1 + 1
      BY ONLY <2>1, FS_Interval
    <2>3. QED BY <1>1, <2>1, <2>2
  <1>3. PICK p : s = [i \in 1 .. Cardinality(DOMAIN rs) |-> rs[p[i]]]
    BY DEF ListRows, Listings
  <1>4. s = [i \in 1 .. Len(rs) |-> s[i]]
    BY <1>2, <1>3
  <1>5. QED BY <1>1, <1>4, SeqByPlaces

\* The pairs of two lists, each of which says nothing of the numbers of steps.
LEMMA PairsAside ==
  ASSUME NEW ss, NEW rs, IsSeq(ss), IsSeq(rs), NEW f,
         f = [i \in 1 .. Min({Len(ss), Len(rs)}) |-> f[i]],
         \A i \in 1 .. Min({Len(ss), Len(rs)}) : Aside(f[i])
  PROVE  Aside(FlattenSeq(f))
  <1>1. Len(ss) \in Nat /\ Len(rs) \in Nat
    BY SeqDomain
  <1>2. PICK n : n = Min({Len(ss), Len(rs)})
    OBVIOUS
  <1>3. n \in Nat
    <2>1. Len(ss) \in Int /\ Len(rs) \in Int
      BY <1>1
    <2>2. Min({Len(ss), Len(rs)}) \in {Len(ss), Len(rs)}
      BY ONLY <2>1, SmallerOfTwo
    <2>3. QED BY <1>1, <1>2, <2>2
  <1>4. f = [i \in 1 .. n |-> f[i]] /\ \A i \in 1 .. n : Aside(f[i])
    BY <1>2
  <1>5. QED BY <1>3, <1>4, AsideAll

LEMMA KeysAreOfTheSet ==
  ASSUME NEW S, IsFiniteSet(S), NEW i \in DOMAIN SetToSeq(S) PROVE SetToSeq(S)[i] \in S
  <1>1. Cardinality(S) \in Nat /\ ExistsBijection(1 .. Cardinality(S), S)
    BY FS_CardinalityType
  <1>2. PICK f \in [1 .. Cardinality(S) -> S] : IsInjective(f)
    BY <1>1 DEF ExistsBijection, Bijection, Injection, IsInjective
  <1>3. SetToSeq(S) \in [1 .. Cardinality(S) -> S]
    BY <1>2 DEF SetToSeq
  <1>4. QED BY <1>1, <1>3

\* The rows that tell of the model's reasoning.
LEMMA ReasoningIsAList ==
  ASSUME NEW ex, ex.timeline \in Seq(TimelineRow) PROVE IsSeq(Reasoning(ex))
  <1>1. PICK n \in Nat : DOMAIN ex.timeline = 1 .. n
    BY SequencesAreSeq
  <1> DEFINE f == [i \in 1 .. n |->
                     IF ex.timeline[i].event_type = "model_reasoning" THEN <<ex.timeline[i]>> ELSE <<>>]
  <1>2. Reasoning(ex) = FlattenSeq(f)
    BY <1>1 DEF Reasoning
  <1>3. \A i \in 1 .. n : IsSeq(f[i])
    <2>1. TAKE i \in 1 .. n
    <2>2. f[i] \in {<<ex.timeline[i]>>, <<>>}
      OBVIOUS
    <2> HIDE DEF f
    <2>3. QED BY <2>2, Nothing, OneElement
  <1>4. f = [i \in 1 .. n |-> f[i]]
    OBVIOUS
  <1> HIDE DEF f
  <1>5. QED BY <1>2, <1>3, <1>4, Flattening

(***************************************************************************)
(* The parts of a comparison.                                              *)
(***************************************************************************)
LEMMA LineageAside ==
  ASSUME NEW source, NEW replay PROVE Aside(CompareLineage(source, replay))
  <1>1. /\ Aside(Item("lineage", "info", "linked_to_source"))
        /\ Aside(Item("lineage", "significant", "not_linked_to_source"))
        /\ Aside(Item("input", "info", "investigative_input_overrides"))
    BY AsideItem
  <1>2. QED BY <1>1, AsideNone, AsideBoth DEF CompareLineage

LEMMA HeaderAside ==
  ASSUME NEW source, NEW replay PROVE Aside(CompareHeader(source, replay))
  BY AsideDiffers, AsideBoth DEF CompareHeader

LEMMA InputAside ==
  ASSUME NEW source, NEW replay, IsFiniteSet(DOMAIN source.input), IsFiniteSet(DOMAIN replay.input)
  PROVE  Aside(CompareInput(source, replay))
  <1> DEFINE before == BusinessInput(source)
             after == BusinessInput(replay)
             S == {k \in DOMAIN before \cup DOMAIN after : Given(before, k) # Given(after, k)}
             keys == SetToSeq(S)
             Overridden(k) == \E p \in Provenance(replay) : k \in DOMAIN p.overrides
             f == [i \in DOMAIN keys |->
                     Item("input", IF Overridden(keys[i]) THEN "info" ELSE "warning", keys[i])]
  <1>1. IsFiniteSet(S)
    <2>1. IsFiniteSet(DOMAIN source.input \cup DOMAIN replay.input)
      BY FS_Union
    <2>2. S \subseteq DOMAIN source.input \cup DOMAIN replay.input
      BY DEF BusinessInput, Without
    <2> HIDE DEF S
    <2>3. QED BY <2>1, <2>2, FS_Subset
  <1>2. CompareInput(source, replay) = FlattenSeq(f)
    BY DEF CompareInput
  <1> HIDE DEF S
  <1>3. PICK n \in Nat : DOMAIN keys = 1 .. n
    BY <1>1, KeysInARow
  <1> HIDE DEF keys
  <1>4. \A i \in 1 .. n : Aside(f[i])
    <2>1. TAKE i \in 1 .. n
    <2>2. PICK severity : f[i] = Item("input", severity, keys[i])
      BY <1>3
    <2> HIDE DEF f
    <2>3. QED BY <2>2, AsideItem
  <1>5. f = [i \in 1 .. n |-> f[i]]
    BY <1>3
  <1> HIDE DEF f
  <1>6. QED BY <1>2, <1>4, <1>5, AsideAll

LEMMA FieldsAside ==
  ASSUME NEW category, NEW severity, NEW names, IsFiniteSet(names), NEW before, NEW after,
         names \cap StepTitles = {}
  PROVE  Aside(CompareFields(category, severity, names, before, after))
  <1> DEFINE S == {k \in names : Given(before, k) # Given(after, k)}
             changed == SetToSeq(S)
             f == [i \in DOMAIN changed |-> Item(category, severity, changed[i])]
  <1>1. IsFiniteSet(S)
    BY FS_Subset
  <1>2. CompareFields(category, severity, names, before, after) = FlattenSeq(f)
    BY DEF CompareFields
  <1>3. S \subseteq names
    OBVIOUS
  <1> HIDE DEF S
  <1>4. PICK n \in Nat : DOMAIN changed = 1 .. n /\ \A i \in 1 .. n : changed[i] \in S
    <2>1. PICK n \in Nat : DOMAIN changed = 1 .. n
      BY <1>1, KeysInARow
    <2>2. \A i \in 1 .. n : changed[i] \in S
      BY <1>1, <2>1, KeysAreOfTheSet
    <2>3. QED BY <2>1, <2>2
  <1> HIDE DEF changed
  <1>5. \A i \in 1 .. n : Aside(f[i])
    <2>1. TAKE i \in 1 .. n
    <2>2. f[i] = Item(category, severity, changed[i]) /\ changed[i] \notin StepTitles
      BY <1>3, <1>4
    <2> HIDE DEF f
    <2>3. QED BY <2>2, AsideItem
  <1>6. f = [i \in 1 .. n |-> f[i]]
    BY <1>4
  <1> HIDE DEF f
  <1>7. QED BY <1>2, <1>5, <1>6, AsideAll

LEMMA KeysAreFinite == IsFiniteSet(OutputKeys) /\ IsFiniteSet(ResultKeys)
  <1> DEFINE four == (({"status"} \cup {"outcome"}) \cup {"summary"}) \cup {"severity"}
             six == (four \cup {"root_cause"}) \cup {"recommendation"}
             more == ((({"status"} \cup {"outcome"}) \cup {"summary"}) \cup {"validation"}) \cup {"governance"}
             seven == (more \cup {"error"}) \cup {"message"}
  <1>1. IsFiniteSet({"status"} \cup {"outcome"})
    BY FS_Singleton, FS_AddElement
  <1>2. IsFiniteSet(({"status"} \cup {"outcome"}) \cup {"summary"})
    BY <1>1, FS_AddElement
  <1>3. IsFiniteSet(four)
    BY <1>2, FS_AddElement
  <1>4. IsFiniteSet((({"status"} \cup {"outcome"}) \cup {"summary"}) \cup {"validation"})
    BY <1>2, FS_AddElement
  <1>5. IsFiniteSet(more)
    BY <1>4, FS_AddElement
  <1>6. OutputKeys = six /\ ResultKeys = seven
    BY DEF OutputKeys, ResultKeys
  <1> HIDE DEF four, more
  <1>7. IsFiniteSet(four \cup {"root_cause"}) /\ IsFiniteSet(more \cup {"error"})
    BY <1>3, <1>5, FS_AddElement
  <1>8. IsFiniteSet(six) /\ IsFiniteSet(seven)
    BY <1>7, FS_AddElement
  <1> HIDE DEF six, seven
  <1>9. QED BY <1>6, <1>8

\* A step and its result.
LEMMA StepAside == ASSUME NEW s, NEW r PROVE Aside(CompareStep(s, r))
  <1>1. ASSUME NEW before, NEW after PROVE Aside(CompareStepResults(before, after))
    <2>1. ASSUME NEW a, NEW b PROVE Aside(CompareFields("step", "info", OutputKeys, a, b))
      <3>1. OutputKeys \cap StepTitles = {}
        BY DEF OutputKeys, StepTitles
      <3>2. QED BY <3>1, KeysAreFinite, FieldsAside
    <2>2. Aside(Item("step", "warning", "step_result_presence"))
      BY AsideItem DEF StepTitles
    <2>3. ASSUME NEW a, NEW b
          PROVE  /\ Aside(Differs("step", "warning", "completeness", a, b))
                 /\ Aside(Differs("step", "info", "confidence_score", a, b))
                 /\ Aside(Differs("validation", "warning", "step_validation_outcome", a, b))
      BY AsideDiffers DEF StepTitles
    <2>4. ASSUME NEW x, NEW y
          PROVE  Aside(Differs("step", "warning", "completeness", x.completeness, y.completeness)
                       \o Differs("step", "info", "confidence_score", x.confidence, y.confidence)
                       \o Differs("validation", "warning", "step_validation_outcome",
                                  x.validation, y.validation)
                       \o CompareFields("step", "info", OutputKeys, x.output, y.output))
      BY <2>1, <2>3, AsideBoth
    <2>5. QED BY <2>2, <2>4, AsideNone DEF CompareStepResults
  <1>2. ASSUME NEW a, NEW b
        PROVE  /\ Aside(Differs("step", "warning", "step_type", a, b))
               /\ Aside(Differs("step", "warning", "step_status", a, b))
               /\ Aside(Differs("step", "info", "step_agent", a, b))
    BY AsideDiffers DEF StepTitles
  <1>3. QED BY <1>1, <1>2, AsideBoth DEF CompareStep

\* The count differs just when the lists of steps are not equally long,
LEMMA PlanSays ==
  ASSUME NEW source, NEW replay, NEW ss, NEW rs
  PROVE  /\ IsSeq(ComparePlan(source, replay, ss, rs))
         /\ OneCountDiffers(ComparePlan(source, replay, ss, rs)) <=> Len(ss) # Len(rs)
         /\ ~ OneIsLonger(ComparePlan(source, replay, ss, rs))
  <1> DEFINE first == Differs("plan", "warning", "current_plan_id", source.plan, replay.plan)
             second == Differs("plan", "significant", "step_count", Len(ss), Len(rs))
  <1>1. Aside(first)
    BY AsideDiffers DEF StepTitles
  <1>2. /\ IsSeq(second) /\ ~ OneIsLonger(second)
        /\ OneCountDiffers(second) <=> Len(ss) # Len(rs)
    <2>1. CASE Len(ss) = Len(rs)
      <3>1. second = <<>>
        BY <2>1 DEF Differs
      <3> HIDE DEF second
      <3>2. QED BY <2>1, <3>1, AsideNone DEF Aside
    <2>2. CASE Len(ss) # Len(rs)
      <3>1. second = Item("plan", "significant", "step_count")
        BY <2>2 DEF Differs
      <3> HIDE DEF second
      <3>2. QED BY <2>2, <3>1, SaysItem DEF OneCountDiffers, OneIsLonger
    <2>3. QED BY <2>1, <2>2
  <1>3. ComparePlan(source, replay, ss, rs) = first \o second
    BY DEF ComparePlan
  <1> HIDE DEF first, second
  <1>4. QED BY <1>1, <1>2, <1>3, SaysBoth DEF Aside, OneCountDiffers, OneIsLonger

\* and so does the list of those that have no counterpart.
LEMMA StepsSay ==
  ASSUME NEW ss, NEW rs, IsSeq(ss), IsSeq(rs)
  PROVE  /\ IsSeq(CompareSteps(ss, rs)) /\ ~ OneCountDiffers(CompareSteps(ss, rs))
         /\ OneIsLonger(CompareSteps(ss, rs)) <=> Len(ss) # Len(rs)
  <1>1. PICK m : m = Min({Len(ss), Len(rs)})
    OBVIOUS
  <1>2. /\ Len(ss) \in Nat /\ Len(rs) \in Nat /\ m \in Nat
        /\ m \in {Len(ss), Len(rs)} /\ m <= Len(ss) /\ m <= Len(rs)
    <2>1. Len(ss) \in Nat /\ Len(rs) \in Nat
      BY SeqDomain
    <2>2. Len(ss) \in Int /\ Len(rs) \in Int
      BY <2>1
    <2>3. /\ Min({Len(ss), Len(rs)}) \in {Len(ss), Len(rs)}
          /\ Min({Len(ss), Len(rs)}) <= Len(ss) /\ Min({Len(ss), Len(rs)}) <= Len(rs)
      BY ONLY <2>2, SmallerOfTwo
    <2>4. QED BY <1>1, <2>1, <2>3
  <1> DEFINE f == [i \in 1 .. Min({Len(ss), Len(rs)}) |-> CompareStep(ss[i], rs[i])]
             g == [i \in 1 .. Len(rs) - m |-> Item("step", "significant", "extra_replay_step")]
             h == [i \in 1 .. Len(ss) - m |-> Item("step", "significant", "missing_replay_step")]
  <1>3. CompareSteps(ss, rs) = FlattenSeq(f) \o FlattenSeq(g) \o FlattenSeq(h)
    BY <1>1 DEF CompareSteps, Pairwise
  <1>4. Aside(FlattenSeq(f))
    <2>1. \A i \in 1 .. Min({Len(ss), Len(rs)}) : Aside(f[i])
      BY StepAside
    <2>2. f = [i \in 1 .. Min({Len(ss), Len(rs)}) |-> f[i]]
      OBVIOUS
    <2> HIDE DEF f
    <2>3. QED BY <2>1, <2>2, PairsAside
  <1>5. /\ IsSeq(FlattenSeq(g))
        /\ \A c, t : Says(FlattenSeq(g), c, t)
                       <=> Len(rs) - m # 0 /\ c = "step" /\ t = "extra_replay_step"
    <2>1. Len(rs) - m \in Nat
      BY <1>2
    <2>2. QED BY <2>1, SaysRepeated
  <1>6. /\ IsSeq(FlattenSeq(h))
        /\ \A c, t : Says(FlattenSeq(h), c, t)
                       <=> Len(ss) - m # 0 /\ c = "step" /\ t = "missing_replay_step"
    <2>1. Len(ss) - m \in Nat
      BY <1>2
    <2>2. QED BY <2>1, SaysRepeated
  <1> HIDE DEF f, g, h
  <1>7. /\ IsSeq(FlattenSeq(f) \o FlattenSeq(g))
        /\ \A c, t : Says(FlattenSeq(f) \o FlattenSeq(g), c, t)
                       <=> Says(FlattenSeq(f), c, t) \/ Says(FlattenSeq(g), c, t)
    BY <1>4, <1>5, SaysBoth DEF Aside
  <1>8. PICK all : all = CompareSteps(ss, rs)
    OBVIOUS
  <1>9. /\ IsSeq(all)
        /\ \A c, t : Says(all, c, t) <=> \/ Says(FlattenSeq(f), c, t)
                                         \/ Says(FlattenSeq(g), c, t)
                                         \/ Says(FlattenSeq(h), c, t)
    BY <1>3, <1>6, <1>7, <1>8, SaysBoth
  <1>10. ~ OneCountDiffers(all)
    BY <1>4, <1>5, <1>6, <1>9 DEF Aside, OneCountDiffers
  <1>11. OneIsLonger(all) <=> Len(rs) - m # 0 \/ Len(ss) - m # 0
    BY <1>4, <1>5, <1>6, <1>9 DEF Aside, OneIsLonger
  <1>12. Len(rs) - m # 0 \/ Len(ss) - m # 0 <=> Len(ss) # Len(rs)
    BY <1>2
  <1>13. QED BY <1>8, <1>9, <1>10, <1>11, <1>12

LEMMA ReasoningAside ==
  ASSUME NEW source, NEW replay, source.timeline \in Seq(TimelineRow), replay.timeline \in Seq(TimelineRow)
  PROVE  Aside(CompareReasoning(source, replay))
  <1> DEFINE ss == Reasoning(source)
             rs == Reasoning(replay)
             Compare(s, r) ==
               Differs("model_reasoning",
                       IF {s.path, r.path} \subseteq {"model_runtime", "deterministic_fallback"}
                       THEN "warning" ELSE "significant",
                       "model_path", s.path, r.path)
               \o Differs("model_reasoning", "info", "model_task", s.task, r.task)
             f == [i \in 1 .. Min({Len(ss), Len(rs)}) |-> Compare(ss[i], rs[i])]
  <1>1. CompareReasoning(source, replay)
          = Differs("model_reasoning", "warning", "model_reasoning_event_count", Len(ss), Len(rs))
            \o FlattenSeq(f)
    BY DEF CompareReasoning, Pairwise
  <1>2. ASSUME NEW s, NEW r PROVE Aside(Compare(s, r))
    BY AsideDiffers, AsideBoth
  <1>3. IsSeq(ss) /\ IsSeq(rs)
    BY ReasoningIsAList
  <1> HIDE DEF Compare, ss, rs
  <1>4. Aside(FlattenSeq(f))
    <2>1. f = [i \in 1 .. Min({Len(ss), Len(rs)}) |-> f[i]]
      OBVIOUS
    <2>2. \A i \in 1 .. Min({Len(ss), Len(rs)}) : Aside(f[i])
      BY <1>2
    <2> HIDE DEF f
    <2>3. QED BY <1>3, <2>1, <2>2, PairsAside
  <1>5. Aside(Differs("model_reasoning", "warning", "model_reasoning_event_count", Len(ss), Len(rs)))
    BY AsideDiffers
  <1> HIDE DEF f
  <1>6. QED BY <1>1, <1>4, <1>5, AsideBoth

LEMMA ToolCallsAside ==
  ASSUME NEW sc, NEW rc, IsSeq(sc), IsSeq(rc) PROVE Aside(CompareToolCalls(sc, rc))
  <1> DEFINE Compare(s, r) ==
               Differs("tool_call", "warning", "tool_name", s.tool_name, r.tool_name)
               \o Differs("tool_call", "warning", "tool_call_status", s.status, r.status)
               \o Differs("tool_call", "info", "side_effect_class", s.side_effect, r.side_effect)
               \o Differs("tool_call", "info", "idempotency", s.idempotency, r.idempotency)
             f == [i \in 1 .. Min({Len(sc), Len(rc)}) |-> Compare(sc[i], rc[i])]
  <1>1. CompareToolCalls(sc, rc)
          = Differs("tool_call", "warning", "tool_call_count", Len(sc), Len(rc)) \o FlattenSeq(f)
    BY DEF CompareToolCalls, Pairwise
  <1>2. ASSUME NEW s, NEW r PROVE Aside(Compare(s, r))
    BY AsideDiffers, AsideBoth
  <1> HIDE DEF Compare
  <1>3. Aside(FlattenSeq(f))
    <2>1. f = [i \in 1 .. Min({Len(sc), Len(rc)}) |-> f[i]]
      OBVIOUS
    <2>2. \A i \in 1 .. Min({Len(sc), Len(rc)}) : Aside(f[i])
      BY <1>2
    <2> HIDE DEF f
    <2>3. QED BY <2>1, <2>2, PairsAside
  <1>4. Aside(Differs("tool_call", "warning", "tool_call_count", Len(sc), Len(rc)))
    BY AsideDiffers
  <1> HIDE DEF f
  <1>5. QED BY <1>1, <1>3, <1>4, AsideBoth

LEMMA PolicyAside ==
  ASSUME NEW se, NEW re, NEW sp, NEW rp, IsSeq(se), IsSeq(re)
  PROVE  Aside(ComparePolicy(se, re, sp, rp))
  <1> DEFINE Compare(s, r) ==
               IF s.decision # r.decision THEN Item("policy", "significant", "policy_decision")
               ELSE Differs("policy", "info", "policy_reason", s.reason, r.reason)
             f == [i \in 1 .. Min({Len(se), Len(re)}) |-> Compare(se[i], re[i])]
  <1>1. ComparePolicy(se, re, sp, rp)
          = Differs("policy", "warning", "policy_evaluation_count", Len(se), Len(re))
            \o FlattenSeq(f)
            \o Differs("policy", "info", "action_proposal_count", Len(sp), Len(rp))
    BY DEF ComparePolicy, Pairwise
  <1>2. ASSUME NEW s, NEW r PROVE Aside(Compare(s, r))
    BY AsideDiffers, AsideItem
  <1> HIDE DEF Compare
  <1>3. Aside(FlattenSeq(f))
    <2>1. f = [i \in 1 .. Min({Len(se), Len(re)}) |-> f[i]]
      OBVIOUS
    <2>2. \A i \in 1 .. Min({Len(se), Len(re)}) : Aside(f[i])
      BY <1>2
    <2> HIDE DEF f
    <2>3. QED BY <2>1, <2>2, PairsAside
  <1>4. /\ Aside(Differs("policy", "warning", "policy_evaluation_count", Len(se), Len(re)))
        /\ Aside(Differs("policy", "info", "action_proposal_count", Len(sp), Len(rp)))
    BY AsideDiffers
  <1> HIDE DEF f
  <1>5. QED BY <1>1, <1>3, <1>4, AsideBoth

LEMMA ApprovalsAside ==
  ASSUME NEW sa, NEW ra, IsSeq(sa), IsSeq(ra) PROVE Aside(CompareApprovals(sa, ra))
  <1> DEFINE Compare(s, r) ==
               Differs("policy", "significant", "approval_decision", s.decision, r.decision)
             f == [i \in 1 .. Min({Len(sa), Len(ra)}) |-> Compare(sa[i], ra[i])]
  <1>1. CompareApprovals(sa, ra)
          = Differs("policy", "warning", "approval_count", Len(sa), Len(ra)) \o FlattenSeq(f)
    BY DEF CompareApprovals, Pairwise
  <1>2. ASSUME NEW s, NEW r PROVE Aside(Compare(s, r))
    BY AsideDiffers
  <1> HIDE DEF Compare
  <1>3. Aside(FlattenSeq(f))
    <2>1. f = [i \in 1 .. Min({Len(sa), Len(ra)}) |-> f[i]]
      OBVIOUS
    <2>2. \A i \in 1 .. Min({Len(sa), Len(ra)}) : Aside(f[i])
      BY <1>2
    <2> HIDE DEF f
    <2>3. QED BY <2>1, <2>2, PairsAside
  <1>4. Aside(Differs("policy", "warning", "approval_count", Len(sa), Len(ra)))
    BY AsideDiffers
  <1> HIDE DEF f
  <1>5. QED BY <1>1, <1>3, <1>4, AsideBoth

LEMMA ResultAside ==
  ASSUME NEW source, NEW replay
  PROVE  Aside(CompareValidation(source, replay)) /\ Aside(CompareResult(source, replay))
  <1>1. Aside(CompareValidation(source, replay))
    BY AsideDiffers DEF CompareValidation
  <1>2. ASSUME NEW a, NEW b
        PROVE  /\ Aside(CompareFields("result", "warning", ResultKeys, a, b))
               /\ Aside(Differs("result", "warning", "result_presence", a, b))
    <2>1. ResultKeys \cap StepTitles = {}
      BY DEF ResultKeys, StepTitles
    <2>2. QED BY <2>1, KeysAreFinite, FieldsAside, AsideDiffers
  <1>3. QED BY <1>1, <1>2 DEF CompareResult

(***************************************************************************)
(* Who is settled stays so.                                                *)
(***************************************************************************)
LEMMA ChildStatus ==
  ASSUME "source" \in DOMAIN stored, UNCHANGED fixed, NEW ex, "status" \in DOMAIN ex,
         stored' = Put("child", ex)
  PROVE  Get("child")'.status = ex.status /\ Get("source")' = Get("source") /\ HasChild'
  <1>1. /\ stored'["child"] = Persist(backend, ex) /\ stored'["source"] = stored["source"]
        /\ "child" \in DOMAIN stored'
    BY DEF Put
  <1>2. Get("child")' = Restore(backend, Persist(backend, ex)) /\ Get("source")' = Get("source")
    BY <1>1 DEF Get, fixed
  <1>3. PICK next : next = Restore(backend, Persist(backend, ex))
    OBVIOUS
  <1>4. next.status = ex.status
    <2>1. CASE backend = "memory"
      BY <1>3, <2>1 DEF Restore, Persist
    <2>2. CASE backend # "memory"
      <3>1. PICK row : row = Persist(backend, ex)
        OBVIOUS
      <3>2. "status" \in DOMAIN row /\ row.status = ex.status
        BY <2>2, <3>1 DEF Persist, With, Merged, Without
      <3>3. next = Restore(backend, row)
        BY <1>3, <3>1
      <3>4. QED BY <2>2, <3>2, <3>3 DEF Restore, With, Merged
    <2>3. QED BY <2>1, <2>2
  <1>5. QED BY <1>1, <1>2, <1>3, <1>4 DEF HasChild

\* A step of the service, or of its run of the child.
LEMMA ServiceStep ==
  ASSUME DiffInv, UNCHANGED <<cancelling, diffing>>, Get("source")' = Get("source"),
         HasChild => HasChild', rows' = [source |-> rows.source, child |-> rows'.child],
         AreRows(rows'.child), Driving' \/ rows' # rows => Driving,
         Driving' /\ HasChild' => ~ Settled(Get("child")'),
         Driving' /\ pc' \in {"attach", "planning", "plan", "trace", "write"} => ~ Settled(child')
  PROVE  DiffInv'
  <1>1. SettledInv'
    <2>1. rows'.source = rows.source /\ AreRows(rows'.source)
      BY DEF DiffInv, SettledInv
    <2>2. QED BY <2>1 DEF DiffInv, SettledInv, cancelling
  <1>2. PairInv'
    BY DEF DiffInv, PairInv, diffing
  <1>3. ItemsInv'
    <2>1. differ = "steps" /\ Settled(pair.replay) => rows' = rows
      BY DEF DiffInv, PairInv
    <2>2. QED BY <2>1 DEF DiffInv, ItemsInv, diffing
  <1>4. QED BY <1>1, <1>2, <1>3 DEF DiffInv

\* One that leaves the rows alone.
LEMMA RowsStay ==
  ASSUME DiffInv, UNCHANGED rows
  PROVE  rows' = [source |-> rows.source, child |-> rows'.child] /\ AreRows(rows'.child)
  BY DEF DiffInv, SettledInv

\* One that stores nothing, or the child.
LEMMA ReadingStep ==
  ASSUME ReplayInv, DiffInv, UNCHANGED <<fixed, store, cancelling, diffing>>, Driving' => Driving,
         Driving' /\ pc' \in {"attach", "planning", "plan", "trace", "write"} => ~ Settled(child')
  PROVE  DiffInv'
  <1>1. /\ HasChild' <=> HasChild
        /\ Get("source")' = Get("source") /\ (HasChild => Get("child")' = Get("child"))
    BY DEF HasChild, Get, fixed, store
  <1>2. rows' = rows
    BY DEF store
  <1>3. Driving' /\ HasChild' => ~ Settled(Get("child")')
    BY <1>1 DEF DiffInv, SettledInv
  <1>4. QED BY <1>1, <1>2, <1>3, RowsStay, ServiceStep

LEMMA WritingStep ==
  ASSUME ReplayInv, DiffInv, UNCHANGED <<fixed, rows, cancelling, diffing>>, Driving,
         NEW ex, "status" \in DOMAIN ex, stored' = Put("child", ex),
         Driving' => ~ Settled(ex),
         Driving' /\ pc' \in {"attach", "planning", "plan", "trace", "write"} => ~ Settled(child')
  PROVE  DiffInv'
  <1>1. "source" \in DOMAIN stored
    BY DEF ReplayInv, StoredInv
  <1>2. Get("child")'.status = ex.status /\ Get("source")' = Get("source") /\ HasChild'
    BY <1>1, ChildStatus
  <1>3. Driving' => ~ Settled(Get("child")')
    BY <1>2 DEF Settled
  <1>4. QED BY <1>2, <1>3, RowsStay, ServiceStep

LEMMA MovesStatus ==
  ASSUME NEW ex, IsExecution(ex), NEW status
  PROVE  "status" \in DOMAIN Moves(ex, status) /\ Moves(ex, status).status = status
  BY DEF Moves, IsExecution, Fields

(***************************************************************************)
(* The steps, for DiffInv.                                                 *)
(***************************************************************************)
LEMMA IntakeKeeps ==
  ASSUME ReplayInv, DiffInv, ReadSource \/ Validate \/ Recheck \/ Raises PROVE DiffInv'
  <1>1. /\ UNCHANGED <<fixed, store, cancelling, diffing>>
        /\ pc' \in {"validate", "answered", "create"}
        /\ Driving' => Driving
    BY DEF ReadSource, Validate, Recheck, Raises, Driving
  <1>2. QED BY <1>1, ReadingStep

LEMMA CreateKeeps == ASSUME ReplayInv, DiffInv, Create PROVE DiffInv'
  <1>1. /\ UNCHANGED <<fixed, cancelling, diffing>> /\ pc = "create" /\ pc' = "attach"
        /\ rows' = [rows EXCEPT !.child = NoRows] /\ stored' = Put("child", child')
    BY DEF Create
  <1>2. PICK ex : ex = child'
    OBVIOUS
  <1>3. "status" \in DOMAIN ex /\ ex.status = "created"
    BY <1>2 DEF Create
  <1>4. "source" \in DOMAIN stored
    BY DEF ReplayInv, StoredInv
  <1>5. Get("child")'.status = ex.status /\ Get("source")' = Get("source") /\ HasChild'
    BY <1>1, <1>2, <1>3, <1>4, ChildStatus
  <1>6. rows' = [source |-> rows.source, child |-> rows'.child] /\ rows'.child = NoRows
    <2>1. rows = [source |-> rows.source, child |-> rows.child]
      BY DEF DiffInv, SettledInv
    <2>2. QED BY <1>1, <2>1
  <1>7. AreRows(NoRows)
    <2>1. DOMAIN NoRows = Lists /\ \A part \in Lists : NoRows[part] = <<>>
      BY DEF NoRows, Lists
    <2>2. QED BY <2>1, Nothing DEF AreRows, IsSeq
  <1>8. Driving /\ ~ Settled(Get("child")') /\ ~ Settled(child')
    BY <1>1, <1>2, <1>3, <1>5 DEF Driving, Settled
  <1>9. QED BY <1>1, <1>5, <1>6, <1>7, <1>8, ServiceStep

LEMMA AttachKeeps == ASSUME ReplayInv, DiffInv, Attach PROVE DiffInv'
  <1>1. /\ UNCHANGED <<fixed, rows, cancelling, diffing>> /\ Driving
        /\ pc' \in {"start", "recheck"} /\ stored' = Put("child", Attached(child))
    BY DEF Attach, Driving
  <1>2. PICK ex : ex = Attached(child)
    OBVIOUS
  <1>3. IsExecution(ex) /\ ex.status = "created"
    BY <1>2, AttachedIsFaithful DEF Attach
  <1>4. "status" \in DOMAIN ex /\ ~ Settled(ex)
    BY <1>3 DEF IsExecution, Fields, Settled
  <1>5. QED BY <1>1, <1>2, <1>4, WritingStep

\* The stored child, while its run is under way.
LEMMA ChildNotSettled ==
  ASSUME ReplayInv, DiffInv, Driven, pc # "recheck"
  PROVE  Driving /\ IsExecution(Get("child")) /\ ~ Settled(Get("child"))
  BY TheChildIsLate DEF ReplayInv, WhereInv, DiffInv, SettledInv, Driving, Driven

LEMMA CopyNotSettled ==
  ASSUME ReplayInv, DiffInv, pc \in {"planning", "plan", "trace", "write", "finish"}
  PROVE  /\ Driving /\ IsExecution(child)
         /\ pc # "finish" => ~ Settled(child)
  BY DEF ReplayInv, CopyInv, DiffInv, SettledInv, Driving

LEMMA PlanChildKeeps == ASSUME ReplayInv, DiffInv, PlanChild PROVE DiffInv'
  <1>1. UNCHANGED <<fixed, cancelling, diffing>>
    BY DEF PlanChild
  <1>2. CASE pc = "start"
    <2>1. /\ UNCHANGED store /\ child' = Get("child") /\ Driven /\ pc # "recheck"
      BY <1>2 DEF PlanChild, Planning, Driven
    <2>2. Driving /\ ~ Settled(Get("child"))
      BY <2>1, ChildNotSettled
    <2>3. QED BY <1>1, <2>1, <2>2, ReadingStep
  <1>3. CASE pc = "planning"
    <2>1. /\ child' = Moves(child, "planning") /\ stored' = Put("child", child') /\ rows' = rows
      BY <1>3 DEF PlanChild, Planning
    <2>2. Driving /\ IsExecution(child)
      BY <1>3, CopyNotSettled
    <2>3. PICK ex : ex = child'
      OBVIOUS
    <2>4. "status" \in DOMAIN ex /\ ~ Settled(ex)
      BY <2>1, <2>2, <2>3, MovesStatus DEF Settled
    <2>5. QED BY <1>1, <2>1, <2>2, <2>3, <2>4, WritingStep
  <1>4. CASE pc = "plan"
    <2>1. /\ child' = [Moves(child, "executing") EXCEPT !.plan = "child_plan"]
          /\ stored' = Put("child", child') /\ pc' = "loop"
          /\ rows' = [rows EXCEPT !.child.steps =
                        [i \in DOMAIN runs.child.rows.steps |->
                           [runs.child.rows.steps[i] EXCEPT !.status = "pending", !.result = {}]]]
      BY <1>4 DEF PlanChild, Planning
    <2>2. Driving /\ IsExecution(child)
      BY <1>4, CopyNotSettled
    <2>3. PICK ex : ex = child'
      OBVIOUS
    <2>4. "status" \in DOMAIN ex /\ ex.status = "executing"
      <3>1. PICK next : next = Moves(child, "executing")
        OBVIOUS
      <3>2. "status" \in DOMAIN next /\ next.status = "executing"
        BY <2>2, <3>1, MovesStatus
      <3>3. ex = [next EXCEPT !.plan = "child_plan"]
        BY <2>1, <2>3, <3>1
      <3>4. QED BY <3>2, <3>3
    <2>5. "source" \in DOMAIN stored
      BY DEF ReplayInv, StoredInv
    <2>6. Get("child")'.status = ex.status /\ Get("source")' = Get("source") /\ HasChild'
      BY <1>1, <2>1, <2>3, <2>4, <2>5, ChildStatus
    <2>7. rows' = [source |-> rows.source, child |-> rows'.child] /\ AreRows(rows'.child)
      <3>1. PICK steps : steps = [i \in DOMAIN runs.child.rows.steps |->
                          [runs.child.rows.steps[i] EXCEPT !.status = "pending", !.result = {}]]
        OBVIOUS
      <3>2. IsSeq(runs.child.rows.steps)
        BY RunsAssumption DEF ReplayInv, StoredInv, AreRows, Lists, IsSeq
      <3>3. PICK n \in Nat : DOMAIN runs.child.rows.steps = 1 .. n
        BY <3>2, SeqDomain
      <3>4. steps = [i \in 1 .. n |-> steps[i]]
        BY <3>1, <3>3
      <3>5. IsSeq(steps)
        BY <3>4, SeqByPlaces
      <3>6. rows = [source |-> rows.source, child |-> rows.child] /\ AreRows(rows.child)
        BY DEF DiffInv, SettledInv
      <3>7. PICK mine : mine = rows.child
        OBVIOUS
      <3>8. rows' = [source |-> rows.source, child |-> [mine EXCEPT !.steps = steps]]
        BY <2>1, <3>1, <3>6, <3>7
      <3>9. PICK next : next = [mine EXCEPT !.steps = steps]
        OBVIOUS
      <3>10. \A part \in Lists : next[part] = steps \/ next[part] = mine[part]
        BY <3>6, <3>7, <3>9 DEF AreRows, Lists
      <3>11. AreRows(next)
        BY <3>5, <3>6, <3>7, <3>9, <3>10 DEF AreRows, IsSeq
      <3>12. QED BY <3>8, <3>9, <3>11
    <2>8. ~ Settled(Get("child")')
      BY <2>4, <2>6 DEF Settled
    <2>9. QED BY <1>1, <2>1, <2>2, <2>6, <2>7, <2>8, ServiceStep
  <1>5. QED BY <1>2, <1>3, <1>4 DEF PlanChild, Planning

LEMMA LoopKeeps == ASSUME ReplayInv, DiffInv, Loop \/ Again PROVE DiffInv'
  <1>1. /\ UNCHANGED <<fixed, store, cancelling, diffing>> /\ child' = Get("child")
        /\ Driven /\ pc # "recheck"
    BY DEF Loop, Again, Driven
  <1>2. Driving /\ ~ Settled(Get("child"))
    BY <1>1, ChildNotSettled
  <1>3. QED BY <1>1, <1>2, ReadingStep

LEMMA CancelledStatus ==
  ASSUME NEW ex, IsExecution(ex)
  PROVE  /\ "status" \in DOMAIN Cancelled(ex)
         /\ Settled(Cancelled(ex)) <=> Settled(ex)
  <1>1. PICK next : next = Cancelled(ex)
    OBVIOUS
  <1>2. Follows(ex, next) /\ next.status \in {ex.status, "cancelled"}
    BY <1>1, CancelledFollows
  <1>3. "status" \in DOMAIN next
    BY <1>2 DEF Follows, IsExecution, Fields
  <1>4. Settled(ex) => next.status = ex.status
    <2>1. Settled(ex) => ex.status \in Terminal
      BY DEF Settled, Terminal, ExecutionTerminal
    <2>2. Settled(ex) => next = Flag(ex)
      BY <1>1, <2>1 DEF Cancelled
    <2>3. Flag(ex).status = ex.status
      BY FlagFollows
    <2>4. QED BY <2>2, <2>3
  <1>5. QED BY <1>1, <1>2, <1>3, <1>4 DEF Settled

LEMMA StopKeeps == ASSUME ReplayInv, DiffInv, Stop PROVE DiffInv'
  <1>1. /\ UNCHANGED <<fixed, rows, cancelling, diffing>> /\ Driven /\ pc # "recheck"
        /\ stored' = Put("child", Cancelled(Get("child"))) /\ pc' = "recheck"
    BY DEF Stop, Driven
  <1>2. Driving /\ IsExecution(Get("child")) /\ ~ Driving'
    BY <1>1, ChildNotSettled DEF Driving
  <1>3. PICK ex : ex = Cancelled(Get("child"))
    OBVIOUS
  <1>4. "status" \in DOMAIN ex
    BY <1>2, <1>3, CancelledStatus
  <1>5. QED BY <1>1, <1>2, <1>3, <1>4, WritingStep

LEMMA WriteBackKeeps == ASSUME ReplayInv, DiffInv, WriteBack PROVE DiffInv'
  <1>1. /\ UNCHANGED <<fixed, rows, cancelling, diffing>> /\ pc = "write" /\ pc' = "again"
        /\ stored' = Put("child", IF Worked /\ child.status = "executing"
                                  THEN Moves(child, "validating") ELSE child)
    BY DEF WriteBack
  <1>2. Driving /\ IsExecution(child) /\ ~ Settled(child)
    BY <1>1, CopyNotSettled
  <1>3. PICK ex : ex = IF Worked /\ child.status = "executing"
                       THEN Moves(child, "validating") ELSE child
    OBVIOUS
  <1>4. "status" \in DOMAIN child
    BY <1>2 DEF IsExecution, Fields
  <1>5. "status" \in DOMAIN ex /\ ~ Settled(ex)
    BY <1>2, <1>3, <1>4, MovesStatus DEF Settled
  <1>6. QED BY <1>1, <1>2, <1>3, <1>5, WritingStep

LEMMA FailKeeps == ASSUME ReplayInv, DiffInv, Fail PROVE DiffInv'
  <1>1. /\ UNCHANGED <<fixed, rows, cancelling, diffing>> /\ Driven /\ pc # "recheck"
        /\ pc' = "recheck"
    BY DEF Fail, Driven
  <1>2. Driving /\ IsExecution(Get("child")) /\ ~ Driving'
    BY <1>1, ChildNotSettled DEF Driving
  <1>3. CASE UNCHANGED stored
    BY <1>1, <1>2, <1>3, ReadingStep DEF store
  <1>4. CASE stored' = Put("child", [Moves(Get("child"), "failed") EXCEPT
                                       !.result = {[outcome |-> "failed"]}])
    <2>1. PICK next : next = Moves(Get("child"), "failed")
      OBVIOUS
    <2>2. PICK ex : ex = [next EXCEPT !.result = {[outcome |-> "failed"]}]
      OBVIOUS
    <2>3. "status" \in DOMAIN ex
      BY <1>2, <2>1, <2>2, MovesStatus
    <2>4. stored' = Put("child", ex)
      BY <1>4, <2>1, <2>2
    <2>5. QED BY <1>1, <1>2, <2>3, <2>4, WritingStep
  <1>5. QED BY <1>3, <1>4 DEF Fail

LEMMA WorkKeeps == ASSUME ReplayInv, DiffInv, Work PROVE DiffInv'
  <1>1. UNCHANGED <<fixed, cancelling, diffing>>
    BY DEF Work
  <1>2. CASE pc = "work"
    <2>1. /\ UNCHANGED stored /\ child' = Get("child") /\ Driven /\ pc # "recheck"
          /\ rows' = [rows EXCEPT !.child = runs.child.rows]
      BY <1>2 DEF Work, Driven
    <2>2. Driving /\ ~ Settled(Get("child"))
      BY <2>1, ChildNotSettled
    <2>3. rows' = [source |-> rows.source, child |-> rows'.child] /\ rows'.child = runs.child.rows
      <3>1. rows = [source |-> rows.source, child |-> rows.child]
        BY DEF DiffInv, SettledInv
      <3>2. QED BY <2>1, <3>1
    <2>4. AreRows(runs.child.rows)
      BY RunsAssumption DEF ReplayInv, StoredInv
    <2>5. /\ HasChild' <=> HasChild
          /\ Get("source")' = Get("source") /\ Get("child")' = Get("child")
      BY <1>1, <2>1 DEF HasChild, Get, fixed
    <2>6. QED BY <1>1, <2>1, <2>2, <2>3, <2>4, <2>5, ServiceStep
  <1>3. CASE pc = "trace"
    <2>1. /\ stored' = Put("child", [child EXCEPT !.timeline = @ \o runs.child.reasoning])
          /\ pc' = "loop" /\ rows' = rows
      BY <1>3 DEF Work
    <2>2. Driving /\ IsExecution(child) /\ ~ Settled(child)
      BY <1>3, CopyNotSettled
    <2>3. PICK timeline : timeline = child.timeline \o runs.child.reasoning
      OBVIOUS
    <2>4. PICK ex : ex = [child EXCEPT !.timeline = timeline]
      OBVIOUS
    <2>5. "status" \in DOMAIN ex /\ ex.status = child.status
      BY <2>2, <2>4 DEF IsExecution, Fields
    <2>6. stored' = Put("child", ex) /\ ~ Settled(ex)
      BY <2>1, <2>2, <2>3, <2>4, <2>5 DEF Settled
    <2>7. QED BY <1>1, <2>1, <2>2, <2>5, <2>6, WritingStep
  <1>4. QED BY <1>2, <1>3 DEF Work

LEMMA FinishKeeps == ASSUME ReplayInv, DiffInv, Finish PROVE DiffInv'
  <1>1. /\ UNCHANGED <<fixed, rows, cancelling, diffing>> /\ pc = "finish" /\ pc' = "recheck"
        /\ stored' = Put("child", Finished(child, runs.child))
    BY DEF Finish
  <1>2. Driving /\ IsExecution(child) /\ ~ Driving'
    BY <1>1, CopyNotSettled DEF Driving
  <1>3. PICK ex : ex = Finished(child, runs.child)
    OBVIOUS
  <1>4. IsRun(runs.child)
    BY RunsAreRuns DEF ReplayInv, StoredInv
  <1>5. "status" \in DOMAIN ex
    <2>1. PICK run : run = runs.child
      OBVIOUS
    <2>2. ex = Finished(child, run) /\ IsRun(run)
      BY <1>3, <1>4, <2>1
    <2>3. Follows(child, ex)
      BY <1>2, <2>2, FinishedFollows
    <2>4. QED BY <2>3 DEF Follows, IsExecution, Fields
  <1>6. QED BY <1>1, <1>2, <1>3, <1>5, WritingStep

LEMMA CancelKeeps == ASSUME ReplayInv, DiffInv, Cancel PROVE DiffInv'
  <1>1. UNCHANGED <<fixed, rows, service, diffing>> /\ rows' = rows /\ (Driving' <=> Driving)
    BY DEF Cancel, Driving, service
  <1>2. "source" \in DOMAIN stored /\ StoredInv
    BY DEF ReplayInv, StoredInv
  <1>3. ASSUME Get("source")' = Get("source"), HasChild', 
               Driving => ~ Settled(Get("child")'),
               canceller' = "flag" /\ Driving => ~ Settled(cancelCopy')
        PROVE  DiffInv'
    <2>1. SettledInv'
      BY <1>1, <1>3 DEF DiffInv, SettledInv, service
    <2>2. PairInv'
      BY <1>1, <1>3 DEF DiffInv, PairInv, diffing
    <2>3. ItemsInv'
      BY <1>1 DEF DiffInv, ItemsInv, diffing
    <2>4. QED BY <2>1, <2>2, <2>3 DEF DiffInv
  <1>4. CASE canceller = "idle"
    <2>1. PICK listed \in ListByParent(backend, Executions, "source", 50) :
                 \E i \in DOMAIN listed : cancelCopy' = listed[i]
      BY <1>4 DEF Cancel, CancelChild
    <2>2. PICK i \in DOMAIN listed : cancelCopy' = listed[i]
      BY <2>1
    <2>3. HasChild /\ cancelCopy' = Get("child")
      BY <1>2, <2>1, <2>2, TheChildIsListed
    <2>4. UNCHANGED stored /\ HasChild' /\ Get("source")' = Get("source") /\ Get("child")' = Get("child")
      BY <1>1, <1>4, <2>3 DEF Cancel, CancelChild, HasChild, Get, fixed
    <2>5. Driving => ~ Settled(Get("child"))
      BY <2>3 DEF DiffInv, SettledInv
    <2>6. QED BY <1>3, <2>3, <2>4, <2>5
  <1>5. CASE canceller = "flag"
    <2>1. IsExecution(cancelCopy) /\ (Driving => ~ Settled(cancelCopy))
      BY <1>5 DEF ReplayInv, ChildInv, DiffInv, SettledInv
    <2>2. PICK ex : ex = Flag(cancelCopy)
      OBVIOUS
    <2>3. Follows(cancelCopy, ex) /\ ex.status = cancelCopy.status
      BY <2>1, <2>2, FlagFollows
    <2>4. "status" \in DOMAIN ex /\ (Driving => ~ Settled(ex))
      BY <2>1, <2>3 DEF Follows, IsExecution, Fields, Settled
    <2>5. stored' = Put("child", ex) /\ canceller' # "flag"
      BY <1>5, <2>2 DEF Cancel, CancelChild
    <2>6. Get("child")'.status = ex.status /\ Get("source")' = Get("source") /\ HasChild'
      BY <1>1, <1>2, <2>4, <2>5, ChildStatus
    <2>7. QED BY <1>3, <2>4, <2>5, <2>6 DEF Settled
  <1>6. CASE canceller = "cancel"
    <2>1. HasChild
      BY <1>6 DEF ReplayInv, WhereInv
    <2>2. IsExecution(Get("child")) /\ (Driving => ~ Settled(Get("child")))
      BY <2>1 DEF ReplayInv, StoredInv, HasChild, DiffInv, SettledInv
    <2>3. PICK ex : ex = Cancelled(Get("child"))
      OBVIOUS
    <2>4. "status" \in DOMAIN ex /\ (Driving => ~ Settled(ex))
      BY <2>2, <2>3, CancelledStatus
    <2>5. stored' = Put("child", ex) /\ canceller' # "flag"
      BY <1>6, <2>3 DEF Cancel, CancelChild
    <2>6. Get("child")'.status = ex.status /\ Get("source")' = Get("source") /\ HasChild'
      BY <1>1, <1>2, <2>4, <2>5, ChildStatus
    <2>7. QED BY <1>3, <2>4, <2>5, <2>6 DEF Settled
  <1>7. QED BY <1>4, <1>5, <1>6 DEF Cancel, CancelChild

LEMMA SourceMovesKeeps == ASSUME ReplayInv, DiffInv, SourceMoves PROVE DiffInv'
  <1>1. UNCHANGED <<fixed, service, cancelling, diffing>> /\ (Driving' <=> Driving)
    BY DEF SourceMoves, Driving, service
  <1>2. StoredInv /\ IsExecution(Get("source")) /\ "source" \in DOMAIN stored
    BY DEF ReplayInv, StoredInv
  <1>3. ASSUME NEW ex, Follows(Get("source"), ex), stored' = Put("source", ex),
               Settled(Get("source")) => Settled(ex),
               Settled(Get("source")) => rows' = rows,
               AreRows(rows'.source), rows' = [source |-> rows'.source, child |-> rows.child]
        PROVE  DiffInv'
    <2>1. IsExecution(ex) /\ ex.parent = "none"
      BY <1>2, <1>3 DEF Follows, ReplayInv, StoredInv
    <2>2. (HasChild' <=> HasChild) /\ (HasChild => Get("child")' = Get("child"))
      BY <1>1, <1>2, <1>3, <2>1, PutSource
    <2>3. Get("source")' = Restore(backend, Persist(backend, ex))
      BY <1>1, <1>2, <1>3 DEF Get, Put, fixed
    <2>4. PICK next : next = Restore(backend, Persist(backend, ex))
      OBVIOUS
    <2>5. next.status = ex.status
      BY <1>2, <2>1, <2>4, Restored DEF StoredInv
    <2>6. Settled(Get("source")) => Settled(Get("source")')
      BY <1>3, <2>3, <2>4, <2>5 DEF Settled
    <2>7. rows'.child = rows.child /\ AreRows(rows'.child)
      BY <1>3 DEF DiffInv, SettledInv
    <2>8. SettledInv'
      BY <1>1, <1>3, <2>2, <2>7 DEF DiffInv, SettledInv, service, cancelling
    <2>9. PairInv'
      BY <1>1, <2>2, <2>6 DEF DiffInv, PairInv, diffing
    <2>10. ItemsInv'
      <3>1. differ = "steps" /\ Settled(pair.source) => rows' = rows
        BY <1>3 DEF DiffInv, PairInv
      <3>2. QED BY <1>1, <3>1 DEF DiffInv, ItemsInv, diffing
    <2>11. QED BY <2>8, <2>9, <2>10 DEF DiffInv
  <1>4. CASE /\ Get("source").status = "executing"
             /\ rows' = [rows EXCEPT !.source = runs.source.rows]
             /\ stored' = Put("source", Finished(Get("source"), runs.source))
    <2>1. IsRun(runs.source) /\ AreRows(runs.source.rows)
      BY RunsAreRuns, RunsAssumption DEF ReplayInv, StoredInv
    <2>2. PICK ex : ex = Finished(Get("source"), runs.source)
      OBVIOUS
    <2>3. PICK run : run = runs.source
      OBVIOUS
    <2>4. Follows(Get("source"), ex)
      BY <1>2, <2>1, <2>2, <2>3, FinishedFollows
    <2>5. ~ Settled(Get("source"))
      BY <1>4 DEF Settled
    <2>6. rows' = [source |-> rows'.source, child |-> rows.child] /\ rows'.source = runs.source.rows
      <3>1. rows = [source |-> rows.source, child |-> rows.child]
        BY DEF DiffInv, SettledInv
      <3>2. QED BY <1>4, <3>1
    <2>7. stored' = Put("source", ex)
      BY <1>4, <2>2
    <2>8. QED BY <1>3, <2>1, <2>4, <2>5, <2>6, <2>7
  <1>5. CASE stored' = Put("source", Cancelled(Get("source"))) /\ UNCHANGED rows
    <2>1. PICK ex : ex = Cancelled(Get("source"))
      OBVIOUS
    <2>2. Follows(Get("source"), ex) /\ (Settled(Get("source")) => Settled(ex))
      BY <1>2, <2>1, CancelledFollows, CancelledStatus
    <2>3. AreRows(rows'.source) /\ rows' = [source |-> rows'.source, child |-> rows.child]
      BY <1>5 DEF DiffInv, SettledInv
    <2>4. stored' = Put("source", ex)
      BY <1>5, <2>1
    <2>5. QED BY <1>3, <1>5, <2>2, <2>3, <2>4
  <1>6. QED BY <1>4, <1>5 DEF SourceMoves

(***************************************************************************)
(* The steps of the comparison.                                            *)
(***************************************************************************)
\* They touch nothing else.
LEMMA Comparing ==
  ASSUME DiffInv, Diff
  PROVE  /\ SettledInv' /\ (Driving' <=> Driving) /\ (HasChild' <=> HasChild)
         /\ Get("source")' = Get("source") /\ Get("child")' = Get("child")
         /\ rows' = rows /\ backend' = backend
  <1>1. UNCHANGED <<fixed, store, service, cancelling, moved>>
    BY DEF Diff
  <1>2. /\ (Driving' <=> Driving) /\ (HasChild' <=> HasChild)
        /\ Get("source")' = Get("source") /\ Get("child")' = Get("child")
        /\ rows' = rows /\ backend' = backend
    BY <1>1 DEF Driving, HasChild, Get, fixed, store, service
  <1>3. SettledInv'
    BY <1>1, <1>2 DEF DiffInv, SettledInv, service, cancelling
  <1>4. QED BY <1>2, <1>3

LEMMA DiffSourceKeeps == ASSUME ReplayInv, DiffInv, Diff, DiffSource PROVE DiffInv'
  <1>1. SettledInv' /\ (HasChild' <=> HasChild) /\ Get("source")' = Get("source") /\ rows' = rows
    BY Comparing
  <1>2. /\ differ = "idle" /\ differ' = "replay" /\ HasChild /\ UNCHANGED <<items, report>>
        /\ pair' = [pair EXCEPT !.source = Get("source")]
    BY DEF DiffSource, HasChild
  <1>3. /\ pair' = [source |-> pair'.source, replay |-> pair'.replay] /\ pair'.source = Get("source")
    <2>1. pair = [source |-> pair.source, replay |-> pair.replay]
      BY DEF DiffInv, PairInv
    <2>2. QED BY <1>2, <2>1
  <1>4. IsExecution(Get("source"))
    BY DEF ReplayInv, StoredInv
  <1>5. PairInv'
    BY <1>1, <1>2, <1>3, <1>4 DEF PairInv
  <1>6. ItemsInv'
    BY <1>2 DEF DiffInv, ItemsInv
  <1>7. QED BY <1>1, <1>5, <1>6 DEF DiffInv

LEMMA DiffReplayKeeps == ASSUME ReplayInv, DiffInv, Diff, DiffReplay PROVE DiffInv'
  <1>1. /\ SettledInv' /\ (HasChild' <=> HasChild) /\ Get("source")' = Get("source")
        /\ (Driving' <=> Driving)
    BY Comparing
  <1>2. PICK replay : replay = Get("child")
    OBVIOUS
  <1>3. /\ differ = "replay" /\ differ' = "plan" /\ UNCHANGED report
        /\ pair' = [pair EXCEPT !.replay = replay]
        /\ items' = CompareLineage(pair.source, replay) \o CompareHeader(pair.source, replay)
                      \o CompareInput(pair.source, replay)
    BY <1>2 DEF DiffReplay
  <1>4. HasChild /\ IsExecution(pair.source)
    BY <1>3 DEF DiffInv, PairInv
  <1>5. IsExecution(replay) /\ (Settled(replay) => ~ Driving)
    BY <1>2, <1>4 DEF ReplayInv, StoredInv, HasChild, DiffInv, SettledInv
  <1>6. /\ pair' = [source |-> pair'.source, replay |-> pair'.replay]
        /\ pair'.source = pair.source /\ pair'.replay = replay
    <2>1. pair = [source |-> pair.source, replay |-> pair.replay]
      BY DEF DiffInv, PairInv
    <2>2. QED BY <1>3, <2>1
  <1>7. PairInv'
    BY <1>1, <1>3, <1>4, <1>5, <1>6 DEF DiffInv, PairInv
  <1>8. Aside(items')
    <2>1. IsFiniteSet(DOMAIN pair.source.input) /\ IsFiniteSet(DOMAIN replay.input)
      BY <1>4, <1>5 DEF IsExecution
    <2>2. /\ Aside(CompareLineage(pair.source, replay)) /\ Aside(CompareHeader(pair.source, replay))
          /\ Aside(CompareInput(pair.source, replay))
      BY <2>1, LineageAside, HeaderAside, InputAside
    <2>3. QED BY <1>3, <2>2, AsideBoth
  <1>9. ItemsInv'
    BY <1>3, <1>8 DEF DiffInv, ItemsInv, Aside, IsSeq
  <1>10. QED BY <1>1, <1>7, <1>9 DEF DiffInv

\* A step that adds items to those there are.
LEMMA AddingKeeps ==
  ASSUME DiffInv, Diff, differ \in {"plan", "steps", "rest"}, differ' \in {"steps", "rest", "recheck"},
         UNCHANGED <<pair, report>>
  PROVE  SettledInv' /\ PairInv'
  <1>1. /\ SettledInv' /\ (HasChild' <=> HasChild) /\ Get("source")' = Get("source")
        /\ (Driving' <=> Driving)
    BY Comparing
  <1>2. QED BY <1>1 DEF DiffInv, PairInv

LEMMA DiffPlanKeeps == ASSUME ReplayInv, DiffInv, Diff, DiffPlan PROVE DiffInv'
  <1>1. PICK s \in ListRows(backend, rows.source["steps"]), r \in ListRows(backend, rows.child["steps"]) :
               items' = items \o ComparePlan(pair.source, pair.replay, s, r)
    BY DEF DiffPlan, Listed
  <1>2. differ = "plan" /\ differ' = "steps" /\ UNCHANGED <<pair, report>> /\ rows' = rows
    BY Comparing DEF DiffPlan
  <1>3. SettledInv' /\ PairInv'
    BY <1>2, AddingKeeps
  <1>4. IsSeq(rows.source["steps"]) /\ IsSeq(rows.child["steps"])
    BY DEF DiffInv, SettledInv, AreRows, Lists, IsSeq
  <1>5. Len(s) = Len(rows.source.steps) /\ Len(r) = Len(rows.child.steps)
    BY <1>4, RowsInAList
  <1>6. Aside(items)
    BY <1>2 DEF DiffInv, ItemsInv, Aside, IsSeq
  <1>7. PICK more : more = ComparePlan(pair.source, pair.replay, s, r)
    OBVIOUS
  <1>8. IsSeq(more) /\ (OneCountDiffers(more) <=> Len(s) # Len(r)) /\ ~ OneIsLonger(more)
    BY <1>7, PlanSays
  <1>9. /\ IsSeq(items') /\ ~ OneIsLonger(items')
        /\ OneCountDiffers(items') <=> Len(s) # Len(r)
    <2>1. items' = items \o more
      BY <1>1, <1>7
    <2>2. /\ IsSeq(items \o more)
          /\ \A c, t : Says(items \o more, c, t) <=> Says(items, c, t) \/ Says(more, c, t)
      BY <1>6, <1>8, SaysBoth DEF Aside
    <2>3. QED BY <1>6, <1>8, <2>1, <2>2 DEF Aside, OneCountDiffers, OneIsLonger
  <1>10. ItemsInv'
    BY <1>2, <1>5, <1>9 DEF DiffInv, ItemsInv, IsSeq
  <1>11. QED BY <1>3, <1>10 DEF DiffInv

LEMMA DiffStepsKeeps == ASSUME ReplayInv, DiffInv, Diff, DiffSteps PROVE DiffInv'
  <1>1. PICK s \in ListRows(backend, rows.source["steps"]), r \in ListRows(backend, rows.child["steps"]) :
               items' = items \o (CompareSteps(s, r) \o CompareReasoning(pair.source, pair.replay))
    BY DEF DiffSteps, Listed
  <1>2. differ = "steps" /\ differ' = "rest" /\ UNCHANGED <<pair, report>> /\ rows' = rows
    BY Comparing DEF DiffSteps
  <1>3. SettledInv' /\ PairInv'
    BY <1>2, AddingKeeps
  <1>4. IsSeq(rows.source["steps"]) /\ IsSeq(rows.child["steps"])
    BY DEF DiffInv, SettledInv, AreRows, Lists, IsSeq
  <1>5. /\ Len(s) = Len(rows.source.steps) /\ Len(r) = Len(rows.child.steps)
        /\ IsSeq(s) /\ IsSeq(r)
    BY <1>4, RowsInAList
  <1>6. IsSeq(items) /\ ~ OneIsLonger(items)
    BY <1>2 DEF DiffInv, ItemsInv, IsSeq
  <1>7. PICK steps : steps = CompareSteps(s, r)
    OBVIOUS
  <1>8. IsSeq(steps) /\ ~ OneCountDiffers(steps) /\ (OneIsLonger(steps) <=> Len(s) # Len(r))
    BY <1>5, <1>7, StepsSay
  <1>9. PICK reasoning : reasoning = CompareReasoning(pair.source, pair.replay)
    OBVIOUS
  <1>10. Aside(reasoning)
    <2>1. IsExecution(pair.source) /\ IsExecution(pair.replay)
      BY <1>2 DEF DiffInv, PairInv
    <2>2. QED BY <1>9, <2>1, ReasoningAside DEF IsExecution
  <1>11. /\ IsSeq(items') /\ (OneCountDiffers(items') <=> OneCountDiffers(items))
         /\ OneIsLonger(items') <=> Len(s) # Len(r)
    <2>1. items' = items \o (steps \o reasoning)
      BY <1>1, <1>7, <1>9
    <2>2. PICK more : more = steps \o reasoning
      OBVIOUS
    <2>3. /\ IsSeq(more)
          /\ \A c, t : Says(more, c, t) <=> Says(steps, c, t) \/ Says(reasoning, c, t)
      BY <1>8, <1>10, <2>2, SaysBoth DEF Aside
    <2>4. /\ IsSeq(items \o more)
          /\ \A c, t : Says(items \o more, c, t) <=> Says(items, c, t) \/ Says(more, c, t)
      BY <1>6, <2>3, SaysBoth
    <2>5. QED
      BY <1>6, <1>8, <1>10, <2>1, <2>2, <2>3, <2>4 DEF Aside, OneCountDiffers, OneIsLonger
  <1>12. ItemsInv'
    BY <1>2, <1>5, <1>11 DEF DiffInv, ItemsInv, IsSeq
  <1>13. QED BY <1>3, <1>12 DEF DiffInv

LEMMA DiffRestKeeps == ASSUME ReplayInv, DiffInv, Diff, DiffRest PROVE DiffInv'
  <1> DEFINE Rest(s, r) == CompareToolCalls(s, r)
                 \o ComparePolicy(rows.source.evaluations, rows.child.evaluations,
                                  rows.source.proposals, rows.child.proposals)
                 \o CompareApprovals(rows.source.approvals, rows.child.approvals)
                 \o CompareValidation(pair.source, pair.replay)
                 \o CompareResult(pair.source, pair.replay)
  <1>1. PICK s \in ListRows(backend, rows.source["tools"]), r \in ListRows(backend, rows.child["tools"]) :
               items' = items \o Rest(s, r)
    BY DEF DiffRest, Listed
  <1>2. differ = "rest" /\ differ' = "recheck" /\ UNCHANGED <<pair, report>> /\ rows' = rows
    BY Comparing DEF DiffRest
  <1>3. SettledInv' /\ PairInv'
    BY <1>2, AddingKeeps
  <1>4. \A part \in Lists : IsSeq(rows.source[part]) /\ IsSeq(rows.child[part])
    BY DEF DiffInv, SettledInv, AreRows, IsSeq
  <1>5. IsSeq(s) /\ IsSeq(r)
    BY <1>4, RowsInAList DEF Lists
  <1>6. Aside(Rest(s, r))
    <2>1. Aside(CompareToolCalls(s, r))
      BY <1>5, ToolCallsAside
    <2>2. /\ IsSeq(rows.source.evaluations) /\ IsSeq(rows.child.evaluations)
          /\ IsSeq(rows.source.approvals) /\ IsSeq(rows.child.approvals)
      BY <1>4 DEF Lists
    <2>3. Aside(ComparePolicy(rows.source.evaluations, rows.child.evaluations,
                              rows.source.proposals, rows.child.proposals))
      BY <2>2, PolicyAside
    <2>4. Aside(CompareApprovals(rows.source.approvals, rows.child.approvals))
      BY <2>2, ApprovalsAside
    <2>5. QED BY <2>1, <2>3, <2>4, ResultAside, AsideBoth
  <1>7. PICK more : more = Rest(s, r)
    OBVIOUS
  <1> HIDE DEF Rest
  <1>8. IsSeq(items)
    BY DEF DiffInv, ItemsInv, IsSeq
  <1>9. /\ IsSeq(items') /\ (OneCountDiffers(items') <=> OneCountDiffers(items))
        /\ OneIsLonger(items') <=> OneIsLonger(items)
    <2>1. items' = items \o more
      BY <1>1, <1>7
    <2>2. Aside(more)
      BY <1>6, <1>7
    <2>3. /\ IsSeq(items \o more)
          /\ \A c, t : Says(items \o more, c, t) <=> Says(items, c, t) \/ Says(more, c, t)
      BY <1>8, <2>2, SaysBoth DEF Aside
    <2>4. QED BY <2>1, <2>2, <2>3 DEF Aside, OneCountDiffers, OneIsLonger
  <1>10. ItemsInv'
    BY <1>2, <1>9 DEF DiffInv, ItemsInv, IsSeq
  <1>11. QED BY <1>3, <1>10 DEF DiffInv

LEMMA DiffRecheckKeeps == ASSUME ReplayInv, DiffInv, Diff, DiffRecheck PROVE DiffInv'
  <1>1. SettledInv' /\ (HasChild' <=> HasChild) /\ rows' = rows
    BY Comparing
  <1>2. differ = "recheck" /\ differ' = "done" /\ HasChild
    BY DEF DiffRecheck, DiffInv, PairInv
  <1>3. CASE report' = "answered"
    <2>1. UNCHANGED <<pair, items>>
      BY <1>3 DEF DiffRecheck
    <2>2. PairInv'
      BY <1>1, <1>2, <2>1 DEF DiffInv, PairInv
    <2>3. ItemsInv'
      BY <1>2, <2>1 DEF DiffInv, ItemsInv
    <2>4. QED BY <1>1, <2>2, <2>3 DEF DiffInv
  <1>4. CASE report' # "answered"
    <2>1. pair' = [source |-> None, replay |-> None] /\ items' = <<>>
      BY <1>4 DEF DiffRecheck
    <2>2. PairInv'
      BY <1>1, <1>2, <2>1 DEF PairInv
    <2>3. ItemsInv'
      BY <1>2, <1>4, <2>1, Nothing DEF ItemsInv, IsSeq
    <2>4. QED BY <1>1, <2>2, <2>3 DEF DiffInv
  <1>5. QED BY <1>3, <1>4

LEMMA DiffInit == ASSUME Init PROVE DiffInv
  <1>1. /\ pc = "read" /\ canceller = "idle" /\ differ = "idle"
        /\ pair = [source |-> None, replay |-> None] /\ items = <<>> /\ report = "none"
        /\ runs \in Runs
    BY DEF Init
  <1>2. PICK first : first \in {runs.source.rows, NoRows} /\ rows = [source |-> first, child |-> NoRows]
    BY DEF Init
  <1>3. AreRows(runs.source.rows)
    BY <1>1, RunsAssumption
  <1>4. AreRows(NoRows)
    <2>1. DOMAIN NoRows = Lists /\ \A part \in Lists : NoRows[part] = <<>>
      BY DEF NoRows, Lists
    <2>2. QED BY <2>1, Nothing DEF AreRows, IsSeq
  <1>5. ~ HasChild
    BY ReplayInit, <1>1 DEF ReplayInv, WhereInv, Driven
  <1>6. SettledInv
    BY <1>1, <1>2, <1>3, <1>4, <1>5 DEF SettledInv
  <1>7. PairInv
    BY <1>1 DEF PairInv
  <1>8. ItemsInv
    <2>1. Aside(items)
      BY <1>1, AsideNone
    <2>2. QED BY <1>1, <2>1 DEF ItemsInv, Aside, IsSeq
  <1>9. QED BY <1>6, <1>7, <1>8 DEF DiffInv

LEMMA DiffKeeps == ReplayInv /\ DiffInv /\ [Next]_vars => DiffInv'
  <1> SUFFICES ASSUME ReplayInv, DiffInv, [Next]_vars PROVE DiffInv'
    OBVIOUS
  <1>1. CASE ReadSource \/ Validate \/ Recheck \/ Raises BY <1>1, IntakeKeeps
  <1>2. CASE Create BY <1>2, CreateKeeps
  <1>3. CASE Attach BY <1>3, AttachKeeps
  <1>4. CASE PlanChild BY <1>4, PlanChildKeeps
  <1>5. CASE Loop \/ Again BY <1>5, LoopKeeps
  <1>6. CASE Stop BY <1>6, StopKeeps
  <1>7. CASE WriteBack BY <1>7, WriteBackKeeps
  <1>8. CASE Fail BY <1>8, FailKeeps
  <1>9. CASE Work BY <1>9, WorkKeeps
  <1>10. CASE Finish BY <1>10, FinishKeeps
  <1>11. CASE Cancel BY <1>11, CancelKeeps
  <1>12. CASE SourceMoves BY <1>12, SourceMovesKeeps
  <1>13. CASE Diff
    BY <1>13, DiffSourceKeeps, DiffReplayKeeps, DiffPlanKeeps, DiffStepsKeeps, DiffRestKeeps,
       DiffRecheckKeeps DEF Diff
  <1>14. CASE UNCHANGED vars
    <2>1. UNCHANGED <<pc, child, canceller, cancelCopy, differ, pair, items, report, rows, stored, backend>>
      BY <1>14 DEF vars, fixed, store, service, cancelling, diffing
    <2>2. UNCHANGED <<HasChild, Get("source"), Get("child"), Driving>>
      BY <2>1 DEF HasChild, Get, Driving
    <2>3. SettledInv' /\ PairInv' /\ ItemsInv'
      BY <2>1, <2>2 DEF DiffInv, SettledInv, PairInv, ItemsInv
    <2>4. QED BY <2>3 DEF DiffInv
  <1>15. QED
    BY <1>1, <1>2, <1>3, <1>4, <1>5, <1>6, <1>7, <1>8, <1>9, <1>10, <1>11, <1>12, <1>13, <1>14
       DEF Next, Done

\* The two listings of the steps agree in every answer about executions that are over
\* (ReplayDiffService.compare).
THEOREM DiffsHangTogether == Spec => []DiffHangsTogether
  <1>1. Init => ReplayInv /\ DiffInv
    BY ReplayInit, DiffInit
  <1>2. ReplayInv /\ DiffInv /\ [Next]_vars => (ReplayInv /\ DiffInv)'
    BY ReplaySteps, DiffKeeps
  <1>3. ReplayInv /\ DiffInv => DiffHangsTogether
    BY DEF DiffInv, ItemsInv, DiffHangsTogether
  <1>4. QED BY <1>1, <1>2, <1>3, PTL DEF Spec

\* One more sequence at the end.
LEMMA FlattenNext ==
  ASSUME NEW n \in Nat, NEW f, f = [i \in 1 .. n + 1 |-> f[i]], \A i \in 1 .. n + 1 : IsSeq(f[i]),
         NEW g, g = [i \in 1 .. n |-> f[i]]
  PROVE  FlattenSeq(f) = FlattenSeq(g) \o f[n + 1]
  <1>1. n + 1 \in Nat /\ n + 1 # 0 /\ n + 1 \in 1 .. n + 1
    OBVIOUS
  <1>2. PICK h : /\ h = [i \in 1 .. n + 1 |-> IF i = 1 THEN f[i] ELSE h[i - 1] \o f[i]]
                 /\ FlattenSeq(f) = h[n + 1]
    <2>1. PICK m \in Nat : m = n + 1
      BY <1>1
    <2>2. f = [i \in 1 .. m |-> f[i]] /\ \A i \in 1 .. m : IsSeq(f[i])
      BY <2>1
    <2>3. m # 0
      BY <1>1, <2>1
    <2>5. \E h : /\ h = [i \in 1 .. m |-> IF i = 1 THEN f[i] ELSE h[i - 1] \o f[i]]
                 /\ FlattenSeq(f) = h[m]
      BY ONLY m \in Nat, <2>2, <2>3, FlatteningValues
    <2>4. QED BY <2>1, <2>5
  <1>3. CASE n = 0
    <2>1. g = <<>> /\ FlattenSeq(g) = <<>>
      <3>1. g = <<>>
        BY <1>3
      <3>2. QED BY <3>1 DEF FlattenSeq
    <2>2. FlattenSeq(f) = f[1] /\ f[n + 1] = f[1] /\ IsSeq(f[1])
      BY <1>1, <1>2, <1>3
    <2>3. <<>> \o f[1] = f[1]
      BY <2>2 DEF IsSeq
    <2>4. QED BY <2>1, <2>2, <2>3
  <1>4. CASE n # 0
    <2>1. g = [i \in 1 .. n |-> g[i]] /\ \A i \in 1 .. n : g[i] = f[i] /\ IsSeq(g[i])
      OBVIOUS
    <2>2. PICK k : /\ k = [i \in 1 .. n |-> IF i = 1 THEN g[i] ELSE k[i - 1] \o g[i]]
                   /\ FlattenSeq(g) = k[n]
      <3>1. PICK e : e = g
        OBVIOUS
      <3>2. e = [i \in 1 .. n |-> e[i]] /\ \A i \in 1 .. n : IsSeq(e[i])
        BY <2>1, <3>1
      <3>3. \E k : /\ k = [i \in 1 .. n |-> IF i = 1 THEN e[i] ELSE k[i - 1] \o e[i]]
                   /\ FlattenSeq(e) = k[n]
        BY ONLY <1>4, n \in Nat, <3>2, FlatteningValues
      <3>4. QED BY <3>1, <3>3
    <2> DEFINE T == {i \in 0 .. n : i # 0 => h[i] = k[i]}
    <2>3. 0 \in T
      OBVIOUS
    <2>4. ASSUME NEW i \in 0 .. n - 1, i \in T PROVE i + 1 \in T
      <3>1. i + 1 \in 1 .. n /\ i + 1 \in 1 .. n + 1 /\ i + 1 - 1 = i
        OBVIOUS
      <3>2. h[i + 1] = IF i + 1 = 1 THEN f[i + 1] ELSE h[i + 1 - 1] \o f[i + 1]
        <4>1. PICK j \in 1 .. n + 1 : j = i + 1
          BY <3>1
        <4>2. h[j] = IF j = 1 THEN f[j] ELSE h[j - 1] \o f[j]
          BY <1>2
        <4>3. QED BY <4>1, <4>2
      <3>3. k[i + 1] = IF i + 1 = 1 THEN g[i + 1] ELSE k[i + 1 - 1] \o g[i + 1]
        <4>1. PICK j \in 1 .. n : j = i + 1
          BY <3>1
        <4>2. k[j] = IF j = 1 THEN g[j] ELSE k[j - 1] \o g[j]
          BY <2>2
        <4>3. QED BY <4>1, <4>2
      <3>4. g[i + 1] = f[i + 1]
        BY <2>1, <3>1
      <3>5. i # 0 => h[i] = k[i]
        BY <2>4
      <3>6. h[i + 1] = k[i + 1]
        BY <3>1, <3>2, <3>3, <3>4, <3>5
      <3>7. i + 1 \in 0 .. n
        OBVIOUS
      <3>8. QED BY <3>6, <3>7
    <2>5. n \in T
      <3> HIDE DEF T
      <3>1. QED BY <2>3, <2>4, TurnsBySets
    <2>6. h[n] = k[n]
      BY <1>4, <2>5
    <2>7. h[n + 1] = h[n] \o f[n + 1]
      <3>1. PICK j \in 1 .. n + 1 : j = n + 1
        BY <1>1
      <3>2. h[j] = IF j = 1 THEN f[j] ELSE h[j - 1] \o f[j]
        BY <1>2
      <3>3. j # 1 /\ j - 1 = n
        BY <1>4, <3>1
      <3>4. QED BY <3>1, <3>2, <3>3
    <2>8. QED BY <1>2, <2>2, <2>6, <2>7
  <1>5. QED BY <1>3, <1>4

(***************************************************************************)
(* The rows of a timeline that tell of the model's reasoning.              *)
(***************************************************************************)
Told(t) == Reasoning([timeline |-> t])

LEMMA ToldOf == ASSUME NEW ex PROVE Reasoning(ex) = Told(ex.timeline)
  BY DEF Told, Reasoning

ToldBy(e) == IF e.event_type = "model_reasoning" THEN <<e>> ELSE <<>>

LEMMA ToldNext ==
  ASSUME NEW t, IsSeq(t), NEW e
  PROVE  Told(Append(t, e)) = Told(t) \o ToldBy(e)
  <1>1. PICK n \in Nat : n = Len(t) /\ DOMAIN t = 1 .. n
    BY SeqDomain
  <1>2. PICK u : u = Append(t, e)
    OBVIOUS
  <1>3. /\ DOMAIN u = 1 .. n + 1 /\ u[n + 1] = e
        /\ \A i \in 1 .. n : u[i] = t[i]
    <2>1. t \in Seq(ToSet(t) \cup {e})
      <3>1. \A i \in 1 .. n : t[i] \in ToSet(t) \cup {e}
        BY <1>1 DEF ToSet
      <3>2. t \in Seq(ToSet(t))
        BY DEF IsSeq
      <3>3. t = [i \in 1 .. n |-> t[i]]
        BY <1>1, SeqDomain
      <3>4. QED BY <1>1, <3>1, <3>3
    <2>2. QED BY <1>1, <1>2, <2>1
  <1> DEFINE f == [i \in 1 .. n + 1 |-> ToldBy(u[i])]
             g == [i \in 1 .. n |-> f[i]]
  <1>4. Told(u) = FlattenSeq(f)
    BY <1>3 DEF Told, Reasoning, ToldBy
  <1>5. Told(t) = FlattenSeq(g)
    <2>1. g = [i \in 1 .. n |-> ToldBy(t[i])]
      BY <1>3
    <2>2. QED BY <1>1, <2>1 DEF Told, Reasoning, ToldBy
  <1>6. f[n + 1] = ToldBy(e)
    BY <1>3
  <1>7. f = [i \in 1 .. n + 1 |-> f[i]] /\ \A i \in 1 .. n + 1 : IsSeq(f[i])
    <2>1. \A i \in 1 .. n + 1 : f[i] \in {<<u[i]>>, <<>>}
      BY DEF ToldBy
    <2> HIDE DEF f
    <2>2. \A i \in 1 .. n + 1 : IsSeq(f[i])
      BY <2>1, Nothing, OneElement
    <2>3. f = [i \in 1 .. n + 1 |-> f[i]]
      BY DEF f
    <2>4. QED BY <2>2, <2>3
  <1>8. PICK k : k = g
    OBVIOUS
  <1>9. k = [i \in 1 .. n |-> f[i]]
    BY <1>8
  <1> HIDE DEF f, g
  <1>10. FlattenSeq(f) = FlattenSeq(k) \o f[n + 1]
    BY <1>7, <1>9, FlattenNext
  <1>11. QED BY <1>2, <1>4, <1>5, <1>6, <1>8, <1>10

LEMMA ToldNothing == Told(<<>>) = <<>>
  <1>1. [i \in DOMAIN <<>> |-> ToldBy(<<>>[i])] = <<>>
    OBVIOUS
  <1>2. Told(<<>>) = FlattenSeq([i \in DOMAIN <<>> |-> ToldBy(<<>>[i])])
    BY DEF Told, Reasoning, ToldBy
  <1>3. QED BY <1>1, <1>2 DEF FlattenSeq

LEMMA ToldIsSeq == ASSUME NEW t, IsSeq(t) PROVE IsSeq(Told(t))
  <1>1. PICK n \in Nat : DOMAIN t = 1 .. n
    BY SeqDomain
  <1> DEFINE f == [i \in 1 .. n |-> ToldBy(t[i])]
  <1>2. Told(t) = FlattenSeq(f)
    BY <1>1 DEF Told, Reasoning, ToldBy
  <1>3. \A i \in 1 .. n : f[i] \in {<<t[i]>>, <<>>}
    BY DEF ToldBy
  <1>4. f = [i \in 1 .. n |-> f[i]]
    OBVIOUS
  <1> HIDE DEF f
  <1>5. \A i \in 1 .. n : IsSeq(f[i])
    BY <1>3, Nothing, OneElement
  <1>6. QED BY <1>2, <1>4, <1>5, Flattening

\* The two under names that the provers do not look behind.
Joined(a, b) == a \o b
Added(s, e) == Append(s, e)

LEMMA Concatenated ==
  ASSUME NEW a, NEW b, IsSeq(a), IsSeq(b), NEW c, c = Joined(a, b)
  PROVE  /\ IsSeq(c) /\ Len(c) = Len(a) + Len(b)
         /\ \A i \in 1 .. Len(a) : c[i] = a[i]
         /\ \A i \in 1 .. Len(b) : c[Len(a) + i] = b[i]
  <1>1. ASSUME NEW s, IsSeq(s), NEW V, ToSet(s) \subseteq V PROVE s \in Seq(V)
    <2>1. PICK T : T = ToSet(s)
      OBVIOUS
    <2>2. s \in Seq(T) /\ T \subseteq V
      BY <1>1, <2>1 DEF IsSeq
    <2>3. QED BY <2>2
  <1>2. PICK S : S = ToSet(a) \cup ToSet(b)
    OBVIOUS
  <1>3. a \in Seq(S) /\ b \in Seq(S)
    BY <1>1, <1>2
  <1>4. /\ c \in Seq(S) /\ Len(c) = Len(a) + Len(b)
        /\ \A i \in 1 .. Len(a) : c[i] = a[i]
        /\ \A i \in 1 .. Len(b) : c[Len(a) + i] = b[i]
    BY <1>3 DEF Joined
  <1>5. QED BY ONLY <1>4, SequencesAreSeq

LEMMA AppendAt ==
  ASSUME NEW s, IsSeq(s), NEW e, NEW c, c = Added(s, e)
  PROVE  /\ IsSeq(c) /\ Len(c) = Len(s) + 1
         /\ \A i \in 1 .. Len(s) : c[i] = s[i]
         /\ c[Len(s) + 1] = e
  <1>1. PICK n \in Nat : n = Len(s) /\ DOMAIN s = 1 .. n
    BY SeqDomain
  <1>2. s \in Seq(ToSet(s) \cup {e})
    <2>1. \A i \in 1 .. n : s[i] \in ToSet(s) \cup {e}
      BY <1>1 DEF ToSet
    <2>2. s = [i \in 1 .. n |-> s[i]]
      BY <1>1, SeqDomain
    <2>3. QED BY <1>1, <2>1, <2>2
  <1>3. /\ c \in Seq(ToSet(s) \cup {e}) /\ Len(c) = n + 1 /\ c[n + 1] = e
        /\ \A i \in 1 .. n : c[i] = s[i]
    BY <1>1, <1>2 DEF Added
  <1>4. QED BY <1>1, <1>3, SequencesAreSeq

\* Sequences with the same elements at the same places are equal.
LEMMA SamePlaces ==
  ASSUME NEW a, NEW b, IsSeq(a), IsSeq(b), Len(a) = Len(b), \A i \in 1 .. Len(a) : a[i] = b[i]
  PROVE  a = b
  BY SeqDomain

LEMMA Associates ==
  ASSUME NEW a, NEW b, NEW c, IsSeq(a), IsSeq(b), IsSeq(c)
  PROVE  (a \o b) \o c = a \o (b \o c)
  <1> DEFINE U == ToSet(a) \cup ToSet(b) \cup ToSet(c)
  <1>1. ASSUME NEW s, IsSeq(s), NEW V, ToSet(s) \subseteq V PROVE s \in Seq(V)
    <2>1. PICK T : T = ToSet(s)
      OBVIOUS
    <2>2. s \in Seq(T) /\ T \subseteq V
      BY <1>1, <2>1 DEF IsSeq
    <2>3. QED BY <2>2
  <1>2. ToSet(a) \subseteq U /\ ToSet(b) \subseteq U /\ ToSet(c) \subseteq U
    OBVIOUS
  <1> HIDE DEF U
  <1>3. a \in Seq(U) /\ b \in Seq(U) /\ c \in Seq(U)
    BY <1>1, <1>2
  <1>4. QED BY <1>3

LEMMA NothingAdded ==
  ASSUME NEW s, IsSeq(s) PROVE s \o <<>> = s /\ <<>> \o s = s
  BY DEF IsSeq

\* What is told in a row.
LEMMA ToldBoth ==
  ASSUME NEW t, NEW u, IsSeq(t), IsSeq(u) PROVE Told(t \o u) = Told(t) \o Told(u)
  <1>1. PICK n \in Nat : n = Len(u) /\ DOMAIN u = 1 .. n
    BY SeqDomain
  <1> DEFINE P(k) == [i \in 1 .. k |-> u[i]]
             T == {k \in 0 .. n : IsSeq(P(k)) /\ IsSeq(t \o P(k)) /\ Told(t \o P(k)) = Told(t) \o Told(P(k))}
  <1>2. 0 \in T
    <2>1. P(0) = <<>>
      OBVIOUS
    <2>2. P(0) = <<>> => P(0) = <<>> /\ 0 \in 0 .. n
      OBVIOUS
    <2> HIDE DEF P
    <2>3. t \o <<>> = t /\ Told(t) \o <<>> = Told(t)
      BY ToldIsSeq, NothingAdded
    <2>4. QED BY <2>1, <2>2, <2>3, ToldNothing, Nothing
  <1>3. ASSUME NEW k \in 0 .. n - 1, k \in T PROVE k + 1 \in T
    <2>1. PICK p : p = P(k)
      OBVIOUS
    <2>2. PICK q : q = P(k + 1)
      OBVIOUS
    <2>3. k + 1 \in 1 .. n /\ k \in Nat /\ k + 1 \in 0 .. n
      OBVIOUS
    <2>4. IsSeq(p) /\ IsSeq(t \o p) /\ Told(t \o p) = Told(t) \o Told(p)
      BY <1>3, <2>1
    <2>5. p = [i \in 1 .. k |-> u[i]] /\ q = [i \in 1 .. k + 1 |-> u[i]]
      BY <2>1, <2>2
    <2>6. IsSeq(q) /\ Len(q) = k + 1 /\ Len(p) = k
      <3>1. p = [i \in 1 .. k |-> p[i]] /\ q = [i \in 1 .. k + 1 |-> q[i]] /\ k + 1 \in Nat
        BY <2>3, <2>5
      <3>2. QED BY <2>3, <3>1, SeqByPlaces
    <2>7. q = Append(p, u[k + 1])
      <3>1. PICK a : a = Added(p, u[k + 1])
        OBVIOUS
      <3>2. IsSeq(a) /\ Len(a) = k + 1 /\ a[k + 1] = u[k + 1] /\ \A i \in 1 .. k : a[i] = p[i]
        <4>1. /\ IsSeq(a) /\ Len(a) = Len(p) + 1 /\ a[Len(p) + 1] = u[k + 1]
              /\ \A i \in 1 .. Len(p) : a[i] = p[i]
          BY <2>4, <3>1, AppendAt
        <4>2. QED BY <2>6, <4>1
      <3>3. \A i \in 1 .. k + 1 : a[i] = q[i]
        BY <2>3, <2>5, <3>2
      <3>4. a = q
        BY <2>6, <3>2, <3>3, SamePlaces
      <3>5. QED BY <3>1, <3>4 DEF Added
    <2>8. t \o q = Append(t \o p, u[k + 1])
      <3>1. PICK m \in Nat : m = Len(t)
        BY SeqDomain
      <3>2. PICK a : a = Joined(t, p)
        OBVIOUS
      <3>3. /\ IsSeq(a) /\ Len(a) = m + k /\ \A i \in 1 .. m : a[i] = t[i]
            /\ \A i \in 1 .. k : a[m + i] = p[i]
        <4>1. /\ IsSeq(a) /\ Len(a) = Len(t) + Len(p) /\ \A i \in 1 .. Len(t) : a[i] = t[i]
              /\ \A i \in 1 .. Len(p) : a[Len(t) + i] = p[i]
          BY <2>4, <3>2, Concatenated
        <4>2. QED BY <2>6, <3>1, <4>1
      <3>4. PICK b : b = Added(a, u[k + 1])
        OBVIOUS
      <3>5. IsSeq(b) /\ Len(b) = m + k + 1 /\ b[m + k + 1] = u[k + 1] /\ \A i \in 1 .. m + k : b[i] = a[i]
        <4>1. /\ IsSeq(b) /\ Len(b) = Len(a) + 1 /\ b[Len(a) + 1] = u[k + 1]
              /\ \A i \in 1 .. Len(a) : b[i] = a[i]
          <5>1. IsSeq(a)
            BY <3>3
          <5>2. QED BY <5>1, <3>4, AppendAt
        <4>2. QED BY <3>3, <4>1
      <3>6. PICK c : c = Joined(t, q)
        OBVIOUS
      <3>7. /\ IsSeq(c) /\ Len(c) = m + (k + 1) /\ \A i \in 1 .. m : c[i] = t[i]
            /\ \A i \in 1 .. k + 1 : c[m + i] = q[i]
        <4>1. /\ IsSeq(c) /\ Len(c) = Len(t) + Len(q) /\ \A i \in 1 .. Len(t) : c[i] = t[i]
              /\ \A i \in 1 .. Len(q) : c[Len(t) + i] = q[i]
          <5>1. IsSeq(q)
            BY <2>6
          <5>2. QED BY <5>1, <3>6, Concatenated
        <4>2. QED BY <2>6, <3>1, <4>1
      <3>8. ASSUME NEW i \in 1 .. m + (k + 1) PROVE b[i] = c[i]
        <4>1. CASE i <= m
          <5>1. i \in 1 .. m /\ i \in 1 .. m + k
            BY <2>3, <4>1
          <5>2. QED BY <5>1, <3>3, <3>5, <3>7
        <4>2. CASE i > m
          <5>1. PICK j \in 1 .. k + 1 : i = m + j
            <6>1. i - m \in 1 .. k + 1 /\ i = m + (i - m)
              BY <2>3, <4>2
            <6>2. QED BY <6>1
          <5>2. c[i] = u[j]
            BY <2>5, <3>7, <5>1
          <5>3. CASE j = k + 1
            <6>1. i = m + k + 1
              BY <2>3, <5>1, <5>3
            <6>2. QED BY <3>5, <5>2, <5>3, <6>1
          <5>4. CASE j # k + 1
            <6>1. j \in 1 .. k /\ i \in 1 .. m + k
              BY <2>3, <5>1, <5>4
            <6>2. b[i] = a[m + j] /\ a[m + j] = p[j]
              BY <3>3, <3>5, <5>1, <6>1
            <6>3. QED BY <2>5, <5>2, <6>1, <6>2
          <5>5. QED BY <5>3, <5>4
        <4>3. QED BY <2>3, <4>1, <4>2
      <3>9. m + k + 1 = m + (k + 1)
        BY <2>3
      <3>10. b = c
        BY <3>5, <3>7, <3>8, <3>9, SamePlaces
      <3>11. QED BY <3>2, <3>4, <3>6, <3>10 DEF Added, Joined
    <2>9. IsSeq(t \o q)
      BY <2>6, Concatenation
    <2>10. PICK more : more = ToldBy(u[k + 1])
      OBVIOUS
    <2>11. Told(q) = Told(p) \o more /\ Told(t \o q) = Told(t \o p) \o more
      BY <2>4, <2>7, <2>8, <2>10, ToldNext
    <2>12. (Told(t) \o Told(p)) \o more = Told(t) \o (Told(p) \o more)
      <3>1. IsSeq(Told(t)) /\ IsSeq(Told(p))
        BY <2>4, ToldIsSeq
      <3>2. IsSeq(more)
        <4>1. more \in {<<u[k + 1]>>, <<>>}
          BY <2>10 DEF ToldBy
        <4>2. QED BY <4>1, Nothing, OneElement
      <3>3. QED BY <3>1, <3>2, Associates
    <2> HIDE DEF P
    <2>13. QED BY <2>2, <2>3, <2>4, <2>6, <2>9, <2>11, <2>12
  <1>4. n \in T
    <2> HIDE DEF T
    <2>1. QED BY <1>2, <1>3, TurnsBySets
  <1>5. P(n) = u
    BY <1>1, SeqDomain
  <1> HIDE DEF P
  <1>6. QED BY <1>4, <1>5

(***************************************************************************)
(* When a comparison is silent: it finds nothing but what is expected of   *)
(* every replay.                                                           *)
(***************************************************************************)
Expected == {"linked_to_source", "current_plan_id"}
Hush(list) == IsSeq(list) /\ \A e \in ToSet(list) : e.title \in Expected

LEMMA SilentIsHush == ASSUME IsSeq(items) PROVE Silent <=> Hush(items)
  <1>1. Titles = {e.title : e \in ToSet(items)}
    BY DEF Titles, ToSet
  <1>2. QED BY <1>1 DEF Silent, Hush, Expected

LEMMA HushNone == Hush(<<>>)
  BY Nothing DEF Hush

LEMMA HushItem ==
  ASSUME NEW category, NEW severity, NEW title
  PROVE  /\ IsSeq(Item(category, severity, title))
         /\ Hush(Item(category, severity, title)) <=> title \in Expected
  <1>1. PICK e : e = [category |-> category, severity |-> severity, title |-> title]
    OBVIOUS
  <1>2. Item(category, severity, title) = <<e>>
    BY <1>1 DEF Item
  <1>3. IsSeq(<<e>>) /\ ToSet(<<e>>) = {e}
    BY OneElement
  <1>4. e.title = title
    BY <1>1
  <1>5. QED BY <1>2, <1>3, <1>4 DEF Hush

\* An item that is not expected says that its two sides differ.
LEMMA HushDiffers ==
  ASSUME NEW category, NEW severity, NEW title, NEW a, NEW b
  PROVE  /\ IsSeq(Differs(category, severity, title, a, b))
         /\ Hush(Differs(category, severity, title, a, b)) <=> a = b \/ title \in Expected
  <1>1. CASE a = b
    BY <1>1, HushNone, Nothing DEF Differs
  <1>2. CASE a # b
    BY <1>2, HushItem DEF Differs
  <1>3. QED BY <1>1, <1>2

LEMMA HushBoth ==
  ASSUME NEW a, NEW b, IsSeq(a), IsSeq(b)
  PROVE  IsSeq(a \o b) /\ (Hush(a \o b) <=> Hush(a) /\ Hush(b))
  <1>1. IsSeq(a \o b) /\ ToSet(a \o b) = ToSet(a) \cup ToSet(b)
    BY Concatenation
  <1>2. QED BY <1>1 DEF Hush

LEMMA HushAll ==
  ASSUME NEW n \in Nat, NEW f, f = [i \in 1 .. n |-> f[i]], \A i \in 1 .. n : IsSeq(f[i])
  PROVE  IsSeq(FlattenSeq(f)) /\ (Hush(FlattenSeq(f)) <=> \A i \in 1 .. n : Hush(f[i]))
  <1>1. /\ IsSeq(FlattenSeq(f))
        /\ ToSet(FlattenSeq(f)) = UNION {ToSet(f[i]) : i \in 1 .. n}
    BY Flattening
  <1>2. QED BY <1>1 DEF Hush

\* The pairs of two lists that are equally long.
LEMMA HushPairs ==
  ASSUME NEW ss, NEW rs, IsSeq(ss), IsSeq(rs), NEW f,
         f = [i \in 1 .. Min({Len(ss), Len(rs)}) |-> f[i]],
         \A i \in 1 .. Min({Len(ss), Len(rs)}) : IsSeq(f[i])
  PROVE  /\ IsSeq(FlattenSeq(f))
         /\ Len(ss) = Len(rs) => (Hush(FlattenSeq(f)) <=> \A i \in DOMAIN ss : Hush(f[i]))
  <1>1. Len(ss) \in Nat /\ Len(rs) \in Nat /\ DOMAIN ss = 1 .. Len(ss)
    BY SeqDomain
  <1>2. PICK n : n = Min({Len(ss), Len(rs)})
    OBVIOUS
  <1>3. n \in Nat /\ (Len(ss) = Len(rs) => n = Len(ss))
    <2>1. Len(ss) \in Int /\ Len(rs) \in Int
      BY <1>1
    <2>2. Min({Len(ss), Len(rs)}) \in {Len(ss), Len(rs)}
      BY ONLY <2>1, SmallerOfTwo
    <2>3. QED BY <1>1, <1>2, <2>2
  <1>4. f = [i \in 1 .. n |-> f[i]] /\ \A i \in 1 .. n : IsSeq(f[i])
    BY <1>2
  <1>5. IsSeq(FlattenSeq(f)) /\ (Hush(FlattenSeq(f)) <=> \A i \in 1 .. n : Hush(f[i]))
    BY <1>3, <1>4, HushAll
  <1>6. QED BY <1>1, <1>3, <1>5

\* Nothing is said of fields that are the same on both sides.
LEMMA EachOfTheSet ==
  ASSUME NEW S, IsFiniteSet(S) PROVE {SetToSeq(S)[i] : i \in DOMAIN SetToSeq(S)} = S
  <1>1. Cardinality(S) \in Nat /\ ExistsBijection(1 .. Cardinality(S), S)
    BY FS_CardinalityType
  <1>2. PICK f \in [1 .. Cardinality(S) -> S] : IsInjective(f)
    BY <1>1 DEF ExistsBijection, Bijection, Injection, IsInjective
  <1>3. PICK q : q = SetToSeq(S)
    OBVIOUS
  <1>4. q \in [1 .. Cardinality(S) -> S] /\ IsInjective(q)
    BY <1>2, <1>3 DEF SetToSeq
  <1>5. IsFiniteSet(1 .. Cardinality(S)) /\ Cardinality(1 .. Cardinality(S)) = Cardinality(S)
    <2>1. 1 \in Int /\ Cardinality(S) \in Int /\ Cardinality(S) >= 0
      BY <1>1
    <2>2. /\ IsFiniteSet(1 .. Cardinality(S))
          /\ Cardinality(1 .. Cardinality(S)) = IF 1 > Cardinality(S) THEN 0 ELSE Cardinality(S) - 1 + 1
      BY ONLY <2>1, FS_Interval
    <2>3. QED BY <2>1, <2>2
  <1>6. q \in Surjection(1 .. Cardinality(S), S)
    <2>1. q \in Injection(1 .. Cardinality(S), S)
      BY <1>4 DEF Injection, IsInjective
    <2>2. QED BY <1>5, <2>1, FS_Injection
  <1>7. QED BY <1>3, <1>4, <1>6 DEF Surjection

LEMMA HushFields ==
  ASSUME NEW category, NEW severity, NEW names, IsFiniteSet(names), NEW before, NEW after,
         names \cap Expected = {}
  PROVE  /\ IsSeq(CompareFields(category, severity, names, before, after))
         /\ Hush(CompareFields(category, severity, names, before, after))
              <=> SameKeys(names, before, after)
  <1> DEFINE S == {k \in names : Given(before, k) # Given(after, k)}
             changed == SetToSeq(S)
             f == [i \in DOMAIN changed |-> Item(category, severity, changed[i])]
  <1>1. IsFiniteSet(S)
    BY FS_Subset
  <1>2. CompareFields(category, severity, names, before, after) = FlattenSeq(f)
    BY DEF CompareFields
  <1>3. S \subseteq names /\ (S = {} <=> SameKeys(names, before, after))
    BY DEF SameKeys
  <1> HIDE DEF S
  <1>4. PICK n \in Nat : DOMAIN changed = 1 .. n
    BY <1>1, KeysInARow
  <1>5. {changed[i] : i \in 1 .. n} = S
    BY <1>1, <1>4, EachOfTheSet
  <1> HIDE DEF changed
  <1>6. \A i \in 1 .. n : f[i] = Item(category, severity, changed[i]) /\ changed[i] \notin Expected
    BY <1>3, <1>4, <1>5
  <1>7. f = [i \in 1 .. n |-> f[i]]
    BY <1>4
  <1> HIDE DEF f
  <1>8. \A i \in 1 .. n : IsSeq(f[i]) /\ ~ Hush(f[i])
    BY <1>6, HushItem
  <1>9. IsSeq(FlattenSeq(f)) /\ (Hush(FlattenSeq(f)) <=> \A i \in 1 .. n : Hush(f[i]))
    BY <1>7, <1>8, HushAll
  <1>10. (\A i \in 1 .. n : Hush(f[i])) <=> S = {}
    BY <1>5, <1>8
  <1>11. QED BY <1>2, <1>3, <1>9, <1>10

LEMMA OneOf == ASSUME NEW S, S # {} PROVE (CHOOSE x \in S : TRUE) \in S
  OBVIOUS

AtMostOne(S) == \A x, y \in S : x = y

LEMMA KeysAreNotExpected == OutputKeys \cap Expected = {} /\ ResultKeys \cap Expected = {}
  BY DEF OutputKeys, ResultKeys, Expected

LEMMA HushResults ==
  ASSUME NEW before, NEW after, AtMostOne(before), AtMostOne(after)
  PROVE  /\ IsSeq(CompareStepResults(before, after))
         /\ Hush(CompareStepResults(before, after)) <=>
              /\ before = {} <=> after = {}
              /\ \A x \in before, y \in after :
                   SameIn({"completeness", "confidence", "validation"}, x, y)
                   /\ SameKeys(OutputKeys, x.output, y.output)
  <1>1. CASE before = {} /\ after = {}
    BY <1>1, HushNone, Nothing DEF CompareStepResults
  <1>2. CASE (before = {}) # (after = {})
    <2>1. CompareStepResults(before, after) = Item("step", "warning", "step_result_presence")
      BY <1>2 DEF CompareStepResults
    <2>2. QED BY <1>2, <2>1, HushItem DEF Expected
  <1>3. CASE before # {} /\ after # {}
    <2>1. PICK x \in before : x = CHOOSE z \in before : TRUE
      BY <1>3
    <2>2. PICK y \in after : y = CHOOSE z \in after : TRUE
      BY <1>3
    <2>3. before = {x} /\ after = {y}
      BY <2>1, <2>2 DEF AtMostOne
    <2> DEFINE a == Differs("step", "warning", "completeness", x.completeness, y.completeness)
               b == Differs("step", "info", "confidence_score", x.confidence, y.confidence)
               c == Differs("validation", "warning", "step_validation_outcome",
                            x.validation, y.validation)
               d == CompareFields("step", "info", OutputKeys, x.output, y.output)
    <2>4. CompareStepResults(before, after) = a \o b \o c \o d
      BY <1>3, <2>1, <2>2 DEF CompareStepResults
    <2>5. IsSeq(a) /\ (Hush(a) <=> x.completeness = y.completeness)
      BY HushDiffers DEF Expected
    <2>6. IsSeq(b) /\ (Hush(b) <=> x.confidence = y.confidence)
      BY HushDiffers DEF Expected
    <2>7. IsSeq(c) /\ (Hush(c) <=> x.validation = y.validation)
      BY HushDiffers DEF Expected
    <2>8. IsSeq(d) /\ (Hush(d) <=> SameKeys(OutputKeys, x.output, y.output))
      BY KeysAreFinite, KeysAreNotExpected, HushFields
    <2> HIDE DEF a, b, c, d
    <2>9. IsSeq(a \o b) /\ (Hush(a \o b) <=> Hush(a) /\ Hush(b))
      BY <2>5, <2>6, HushBoth
    <2>10. IsSeq(a \o b \o c) /\ (Hush(a \o b \o c) <=> Hush(a) /\ Hush(b) /\ Hush(c))
      BY <2>7, <2>9, HushBoth
    <2>11. /\ IsSeq(a \o b \o c \o d)
           /\ Hush(a \o b \o c \o d) <=> Hush(a) /\ Hush(b) /\ Hush(c) /\ Hush(d)
      BY <2>8, <2>10, HushBoth
    <2>12. SameIn({"completeness", "confidence", "validation"}, x, y)
             <=> x.completeness = y.completeness /\ x.confidence = y.confidence
                 /\ x.validation = y.validation
      BY DEF SameIn
    <2>13. QED BY <1>3, <2>3, <2>4, <2>5, <2>6, <2>7, <2>8, <2>11, <2>12
  <1>4. QED BY <1>1, <1>2, <1>3

LEMMA HushStep ==
  ASSUME NEW s, NEW r, AtMostOne(s.result), AtMostOne(r.result)
  PROVE  /\ IsSeq(CompareStep(s, r))
         /\ Hush(CompareStep(s, r)) <=> SameStep(s, r)
  <1> DEFINE a == Differs("step", "warning", "step_type", s.step_type, r.step_type)
             b == Differs("step", "warning", "step_status", s.status, r.status)
             c == Differs("step", "info", "step_agent", s.agent, r.agent)
             d == CompareStepResults(s.result, r.result)
  <1>1. CompareStep(s, r) = a \o b \o c \o d
    BY DEF CompareStep
  <1>2. IsSeq(a) /\ (Hush(a) <=> s.step_type = r.step_type)
    BY HushDiffers DEF Expected
  <1>3. IsSeq(b) /\ (Hush(b) <=> s.status = r.status)
    BY HushDiffers DEF Expected
  <1>4. IsSeq(c) /\ (Hush(c) <=> s.agent = r.agent)
    BY HushDiffers DEF Expected
  <1>5. /\ IsSeq(d)
        /\ Hush(d) <=> /\ s.result = {} <=> r.result = {}
                       /\ \A x \in s.result, y \in r.result :
                            SameIn({"completeness", "confidence", "validation"}, x, y)
                            /\ SameKeys(OutputKeys, x.output, y.output)
    BY HushResults
  <1> HIDE DEF a, b, c, d
  <1>6. IsSeq(a \o b) /\ (Hush(a \o b) <=> Hush(a) /\ Hush(b))
    BY <1>2, <1>3, HushBoth
  <1>7. IsSeq(a \o b \o c) /\ (Hush(a \o b \o c) <=> Hush(a) /\ Hush(b) /\ Hush(c))
    BY <1>4, <1>6, HushBoth
  <1>8. /\ IsSeq(a \o b \o c \o d)
        /\ Hush(a \o b \o c \o d) <=> Hush(a) /\ Hush(b) /\ Hush(c) /\ Hush(d)
    BY <1>5, <1>7, HushBoth
  <1>9. SameIn({"step_type", "status", "agent"}, s, r)
          <=> s.step_type = r.step_type /\ s.status = r.status /\ s.agent = r.agent
    BY DEF SameIn
  <1>10. QED BY <1>1, <1>2, <1>3, <1>4, <1>5, <1>8, <1>9 DEF SameStep

LEMMA HushPlan ==
  ASSUME NEW source, NEW replay, NEW ss, NEW rs
  PROVE  /\ IsSeq(ComparePlan(source, replay, ss, rs))
         /\ Hush(ComparePlan(source, replay, ss, rs)) <=> Len(ss) = Len(rs)
  <1> DEFINE a == Differs("plan", "warning", "current_plan_id", source.plan, replay.plan)
             b == Differs("plan", "significant", "step_count", Len(ss), Len(rs))
  <1>1. IsSeq(a) /\ Hush(a)
    BY HushDiffers DEF Expected
  <1>2. IsSeq(b) /\ (Hush(b) <=> Len(ss) = Len(rs))
    BY HushDiffers DEF Expected
  <1>3. ComparePlan(source, replay, ss, rs) = a \o b
    BY DEF ComparePlan
  <1> HIDE DEF a, b
  <1>4. QED BY <1>1, <1>2, <1>3, HushBoth

\* As many pairs as there are steps, and none left over.
LEMMA HushRepeated ==
  ASSUME NEW n \in Nat, NEW f, NEW category, NEW severity, NEW title, title \notin Expected,
         f = [i \in 1 .. n |-> Item(category, severity, title)]
  PROVE  IsSeq(FlattenSeq(f)) /\ (Hush(FlattenSeq(f)) <=> n = 0)
  <1>1. /\ f = [i \in 1 .. n |-> f[i]]
        /\ \A i \in 1 .. n : f[i] = Item(category, severity, title)
    OBVIOUS
  <1>2. \A i \in 1 .. n : IsSeq(f[i]) /\ ~ Hush(f[i])
    BY <1>1, HushItem
  <1>3. IsSeq(FlattenSeq(f)) /\ (Hush(FlattenSeq(f)) <=> \A i \in 1 .. n : Hush(f[i]))
    BY <1>1, <1>2, HushAll
  <1>4. n # 0 => 1 \in 1 .. n
    OBVIOUS
  <1>5. n = 0 => \A i : i \notin 1 .. n
    OBVIOUS
  <1>6. QED BY <1>2, <1>3, <1>4, <1>5

LEMMA HushSteps ==
  ASSUME NEW ss, NEW rs, IsSeq(ss), IsSeq(rs),
         \A i \in DOMAIN ss : AtMostOne(ss[i].result),
         \A i \in DOMAIN rs : AtMostOne(rs[i].result)
  PROVE  /\ IsSeq(CompareSteps(ss, rs))
         /\ Hush(CompareSteps(ss, rs)) <=> Paired(ss, rs, SameStep)
  <1>1. PICK m : m = Min({Len(ss), Len(rs)})
    OBVIOUS
  <1>2. /\ Len(ss) \in Nat /\ Len(rs) \in Nat /\ m \in Nat
        /\ m \in {Len(ss), Len(rs)} /\ m <= Len(ss) /\ m <= Len(rs)
    <2>1. Len(ss) \in Nat /\ Len(rs) \in Nat
      BY SeqDomain
    <2>2. Len(ss) \in Int /\ Len(rs) \in Int
      BY <2>1
    <2>3. /\ Min({Len(ss), Len(rs)}) \in {Len(ss), Len(rs)}
          /\ Min({Len(ss), Len(rs)}) <= Len(ss) /\ Min({Len(ss), Len(rs)}) <= Len(rs)
      BY ONLY <2>2, SmallerOfTwo
    <2>4. QED BY <1>1, <2>1, <2>3
  <1>11. DOMAIN ss = 1 .. Len(ss) /\ DOMAIN rs = 1 .. Len(rs)
    BY SeqDomain
  <1> DEFINE f == [i \in 1 .. Min({Len(ss), Len(rs)}) |-> CompareStep(ss[i], rs[i])]
             g == [i \in 1 .. Len(rs) - m |-> Item("step", "significant", "extra_replay_step")]
             h == [i \in 1 .. Len(ss) - m |-> Item("step", "significant", "missing_replay_step")]
  <1>3. CompareSteps(ss, rs) = FlattenSeq(f) \o FlattenSeq(g) \o FlattenSeq(h)
    BY <1>1 DEF CompareSteps, Pairwise
  <1>4. /\ IsSeq(FlattenSeq(f))
        /\ Len(ss) = Len(rs) =>
             (Hush(FlattenSeq(f)) <=> \A i \in DOMAIN ss : SameStep(ss[i], rs[i]))
    <2>1. \A i \in 1 .. m : f[i] = CompareStep(ss[i], rs[i])
      BY <1>1
    <2>2. f = [i \in 1 .. Min({Len(ss), Len(rs)}) |-> f[i]]
      OBVIOUS
    <2> HIDE DEF f
    <2>3. \A i \in 1 .. m : IsSeq(f[i]) /\ (Hush(f[i]) <=> SameStep(ss[i], rs[i]))
      <3>1. TAKE i \in 1 .. m
      <3>2. i \in DOMAIN ss /\ i \in DOMAIN rs
        <4>1. i \in 1 .. Len(ss) /\ i \in 1 .. Len(rs)
          BY <1>2
        <4>2. QED BY <1>11, <4>1
      <3>3. PICK s : s = ss[i]
        OBVIOUS
      <3>4. PICK r : r = rs[i]
        OBVIOUS
      <3>5. AtMostOne(s.result) /\ AtMostOne(r.result)
        BY <3>2, <3>3, <3>4
      <3>6. QED BY <2>1, <3>3, <3>4, <3>5, HushStep
    <2>4. \A i \in 1 .. Min({Len(ss), Len(rs)}) : IsSeq(f[i])
      BY <1>1, <2>3
    <2>5. /\ IsSeq(FlattenSeq(f))
          /\ Len(ss) = Len(rs) => (Hush(FlattenSeq(f)) <=> \A i \in DOMAIN ss : Hush(f[i]))
      BY <2>2, <2>4, HushPairs
    <2>6. Len(ss) = Len(rs) => DOMAIN ss = 1 .. m
      <3>1. Len(ss) = Len(rs) => Len(ss) = m
        BY <1>2
      <3>2. QED BY <1>11, <3>1
    <2>7. QED BY <2>3, <2>5, <2>6
  <1>5. IsSeq(FlattenSeq(g)) /\ (Hush(FlattenSeq(g)) <=> Len(rs) - m = 0)
    <2>1. Len(rs) - m \in Nat
      BY <1>2
    <2>2. "extra_replay_step" \notin Expected
      BY DEF Expected
    <2>3. QED BY <2>1, <2>2, HushRepeated
  <1>6. IsSeq(FlattenSeq(h)) /\ (Hush(FlattenSeq(h)) <=> Len(ss) - m = 0)
    <2>1. Len(ss) - m \in Nat
      BY <1>2
    <2>2. "missing_replay_step" \notin Expected
      BY DEF Expected
    <2>3. QED BY <2>1, <2>2, HushRepeated
  <1> HIDE DEF f, g, h
  <1>7. /\ IsSeq(FlattenSeq(f) \o FlattenSeq(g))
        /\ Hush(FlattenSeq(f) \o FlattenSeq(g)) <=> Hush(FlattenSeq(f)) /\ Hush(FlattenSeq(g))
    BY <1>4, <1>5, HushBoth
  <1>8. /\ IsSeq(CompareSteps(ss, rs))
        /\ Hush(CompareSteps(ss, rs))
             <=> Hush(FlattenSeq(f)) /\ Hush(FlattenSeq(g)) /\ Hush(FlattenSeq(h))
    BY <1>3, <1>6, <1>7, HushBoth
  <1>9. Len(rs) - m = 0 /\ Len(ss) - m = 0 <=> Len(ss) = Len(rs)
    BY <1>2
  <1>10. QED BY <1>4, <1>5, <1>6, <1>8, <1>9 DEF Paired

\* The pairs of two lists, each of which is silent just when its two rows are alike.
LEMMA PairsCompared ==
  ASSUME NEW ss, NEW rs, IsSeq(ss), IsSeq(rs), NEW f, NEW alike,
         f = [i \in 1 .. Min({Len(ss), Len(rs)}) |-> f[i]],
         \A i \in 1 .. Min({Len(ss), Len(rs)}) : IsSeq(f[i]) /\ (Hush(f[i]) <=> i \in alike)
  PROVE  /\ IsSeq(FlattenSeq(f))
         /\ Len(ss) = Len(rs) => (Hush(FlattenSeq(f)) <=> DOMAIN ss \subseteq alike)
  <1>1. Len(ss) = Len(rs) => DOMAIN ss = 1 .. Min({Len(ss), Len(rs)})
    <2>1. Len(ss) \in Int /\ Len(rs) \in Int /\ DOMAIN ss = 1 .. Len(ss)
      BY SeqDomain
    <2>2. Min({Len(ss), Len(rs)}) \in {Len(ss), Len(rs)}
      BY ONLY <2>1, SmallerOfTwo
    <2>3. QED BY <2>1, <2>2
  <1>2. \A i \in 1 .. Min({Len(ss), Len(rs)}) : IsSeq(f[i])
    OBVIOUS
  <1>3. /\ IsSeq(FlattenSeq(f))
        /\ Len(ss) = Len(rs) => (Hush(FlattenSeq(f)) <=> \A i \in DOMAIN ss : Hush(f[i]))
    BY <1>2, HushPairs
  <1>4. QED BY <1>1, <1>3

LEMMA PlacesAreNats ==
  ASSUME NEW ss, NEW rs, IsSeq(ss), IsSeq(rs), NEW i \in 1 .. Min({Len(ss), Len(rs)}) PROVE i \in Nat
  <1>1. Len(ss) \in Int /\ Len(rs) \in Int
    BY SeqDomain
  <1>2. Min({Len(ss), Len(rs)}) \in {Len(ss), Len(rs)}
    BY ONLY <1>1, SmallerOfTwo
  <1>3. QED BY <1>1, <1>2

LEMMA HushReasoning ==
  ASSUME NEW source, NEW replay, IsSeq(Reasoning(source)), IsSeq(Reasoning(replay))
  PROVE  /\ IsSeq(CompareReasoning(source, replay))
         /\ Hush(CompareReasoning(source, replay))
              <=> Paired(Reasoning(source), Reasoning(replay),
                         LAMBDA s, r : SameIn({"path", "task"}, s, r))
  <1> DEFINE ss == Reasoning(source)
             rs == Reasoning(replay)
             Compare(s, r) ==
               Differs("model_reasoning",
                       IF {s.path, r.path} \subseteq {"model_runtime", "deterministic_fallback"}
                       THEN "warning" ELSE "significant",
                       "model_path", s.path, r.path)
               \o Differs("model_reasoning", "info", "model_task", s.task, r.task)
             f == [i \in 1 .. Min({Len(ss), Len(rs)}) |-> Compare(ss[i], rs[i])]
             count == Differs("model_reasoning", "warning", "model_reasoning_event_count",
                              Len(ss), Len(rs))
  <1>1. CompareReasoning(source, replay) = count \o FlattenSeq(f)
    BY DEF CompareReasoning, Pairwise
  <1>2. ASSUME NEW s, NEW r
        PROVE  IsSeq(Compare(s, r)) /\ (Hush(Compare(s, r)) <=> SameIn({"path", "task"}, s, r))
    <2>1. PICK severity : severity = IF {s.path, r.path} \subseteq {"model_runtime", "deterministic_fallback"}
                                     THEN "warning" ELSE "significant"
      OBVIOUS
    <2> DEFINE a == Differs("model_reasoning", severity, "model_path", s.path, r.path)
               b == Differs("model_reasoning", "info", "model_task", s.task, r.task)
    <2>2. Compare(s, r) = a \o b
      BY <2>1
    <2>3. IsSeq(a) /\ (Hush(a) <=> s.path = r.path)
      BY HushDiffers DEF Expected
    <2>4. IsSeq(b) /\ (Hush(b) <=> s.task = r.task)
      BY HushDiffers DEF Expected
    <2> HIDE DEF a, b, Compare
    <2>5. QED BY <2>2, <2>3, <2>4, HushBoth DEF SameIn
  <1>3. IsSeq(count) /\ (Hush(count) <=> Len(ss) = Len(rs))
    BY HushDiffers DEF Expected
  <1>4. IsSeq(ss) /\ IsSeq(rs)
    OBVIOUS
  <1> HIDE DEF Compare, ss, rs
  <1>5. /\ IsSeq(FlattenSeq(f))
        /\ Len(ss) = Len(rs) =>
             (Hush(FlattenSeq(f)) <=> \A i \in DOMAIN ss : SameIn({"path", "task"}, ss[i], rs[i]))
    <2>1. f = [i \in 1 .. Min({Len(ss), Len(rs)}) |-> f[i]]
      OBVIOUS
    <2>2. \A i \in 1 .. Min({Len(ss), Len(rs)}) : f[i] = Compare(ss[i], rs[i])
      OBVIOUS
    <2> DEFINE alike == {i \in Nat : SameIn({"path", "task"}, ss[i], rs[i])}
    <2> HIDE DEF f
    <2>3. \A i \in 1 .. Min({Len(ss), Len(rs)}) : IsSeq(f[i]) /\ (Hush(f[i]) <=> i \in alike)
      BY <1>2, <1>4, <2>2, PlacesAreNats
    <2>4. DOMAIN ss \subseteq alike <=> \A i \in DOMAIN ss : SameIn({"path", "task"}, ss[i], rs[i])
      BY <1>4, SeqDomain
    <2> HIDE DEF alike
    <2>5. QED BY <1>4, <2>1, <2>3, <2>4, PairsCompared
  <1> HIDE DEF f, count
  <1>6. /\ IsSeq(count \o FlattenSeq(f))
        /\ Hush(count \o FlattenSeq(f)) <=> Hush(count) /\ Hush(FlattenSeq(f))
    BY <1>3, <1>5, HushBoth
  <1>7. Paired(ss, rs, LAMBDA s, r : SameIn({"path", "task"}, s, r))
          <=> Len(ss) = Len(rs) /\ \A i \in DOMAIN ss : SameIn({"path", "task"}, ss[i], rs[i])
    BY DEF Paired
  <1>8. QED BY <1>1, <1>3, <1>5, <1>6, <1>7 DEF ss, rs

LEMMA HushToolCalls ==
  ASSUME NEW sc, NEW rc, IsSeq(sc), IsSeq(rc)
  PROVE  /\ IsSeq(CompareToolCalls(sc, rc))
         /\ Hush(CompareToolCalls(sc, rc)) <=>
              /\ Paired(sc, rc, LAMBDA s, r : SameIn({"tool_name", "status", "side_effect", "idempotency"}, s, r))
  <1> DEFINE Compare(s, r) ==
               Differs("tool_call", "warning", "tool_name", s.tool_name, r.tool_name)
               \o Differs("tool_call", "warning", "tool_call_status", s.status, r.status)
               \o Differs("tool_call", "info", "side_effect_class", s.side_effect, r.side_effect)
               \o Differs("tool_call", "info", "idempotency", s.idempotency, r.idempotency)
             f == [i \in 1 .. Min({Len(sc), Len(rc)}) |-> Compare(sc[i], rc[i])]
             count == Differs("tool_call", "warning", "tool_call_count", Len(sc), Len(rc))
  <1>1. CompareToolCalls(sc, rc) = count \o FlattenSeq(f)
    BY DEF CompareToolCalls, Pairwise
  <1>2. ASSUME NEW s, NEW r
        PROVE  IsSeq(Compare(s, r)) /\ (Hush(Compare(s, r)) <=> SameIn({"tool_name", "status", "side_effect", "idempotency"}, s, r))
    <2> DEFINE a == Differs("tool_call", "warning", "tool_name", s.tool_name, r.tool_name)
               b == Differs("tool_call", "warning", "tool_call_status", s.status, r.status)
               c == Differs("tool_call", "info", "side_effect_class", s.side_effect, r.side_effect)
               d == Differs("tool_call", "info", "idempotency", s.idempotency, r.idempotency)
    <2>1. Compare(s, r) = a \o b \o c \o d
      OBVIOUS
    <2>2. IsSeq(a) /\ (Hush(a) <=> s.tool_name = r.tool_name)
      BY HushDiffers DEF Expected
    <2>3. IsSeq(b) /\ (Hush(b) <=> s.status = r.status)
      BY HushDiffers DEF Expected
    <2>4. IsSeq(c) /\ (Hush(c) <=> s.side_effect = r.side_effect)
      BY HushDiffers DEF Expected
    <2>5. IsSeq(d) /\ (Hush(d) <=> s.idempotency = r.idempotency)
      BY HushDiffers DEF Expected
    <2> HIDE DEF a, b, c, d, Compare
    <2>6. IsSeq(a \o b) /\ (Hush(a \o b) <=> Hush(a) /\ Hush(b))
      BY <2>2, <2>3, HushBoth
    <2>7. IsSeq(a \o b \o c) /\ (Hush(a \o b \o c) <=> Hush(a) /\ Hush(b) /\ Hush(c))
      BY <2>4, <2>6, HushBoth
    <2>8. /\ IsSeq(a \o b \o c \o d)
          /\ Hush(a \o b \o c \o d) <=> Hush(a) /\ Hush(b) /\ Hush(c) /\ Hush(d)
      BY <2>5, <2>7, HushBoth
    <2>9. QED BY <2>1, <2>2, <2>3, <2>4, <2>5, <2>8 DEF SameIn
  <1>3. IsSeq(count) /\ (Hush(count) <=> Len(sc) = Len(rc))
    BY HushDiffers DEF Expected
  <1> HIDE DEF Compare
  <1>4. /\ IsSeq(FlattenSeq(f))
        /\ Len(sc) = Len(rc) =>
             (Hush(FlattenSeq(f)) <=> \A i \in DOMAIN sc : SameIn({"tool_name", "status", "side_effect", "idempotency"}, sc[i], rc[i]))
    <2> DEFINE alike == {i \in Nat : SameIn({"tool_name", "status", "side_effect", "idempotency"}, sc[i], rc[i])}
    <2>1. f = [i \in 1 .. Min({Len(sc), Len(rc)}) |-> f[i]]
      OBVIOUS
    <2>2. \A i \in 1 .. Min({Len(sc), Len(rc)}) : f[i] = Compare(sc[i], rc[i])
      OBVIOUS
    <2> HIDE DEF f
    <2>3. \A i \in 1 .. Min({Len(sc), Len(rc)}) : IsSeq(f[i]) /\ (Hush(f[i]) <=> i \in alike)
      BY <1>2, <2>2, PlacesAreNats
    <2>4. DOMAIN sc \subseteq alike <=> \A i \in DOMAIN sc : SameIn({"tool_name", "status", "side_effect", "idempotency"}, sc[i], rc[i])
      BY SeqDomain
    <2> HIDE DEF alike
    <2>5. QED BY <2>1, <2>3, <2>4, PairsCompared
  <1> HIDE DEF f, count
  <1>5. /\ IsSeq(count \o FlattenSeq(f))
        /\ Hush(count \o FlattenSeq(f)) <=> Hush(count) /\ Hush(FlattenSeq(f))
    BY <1>3, <1>4, HushBoth
  <1>6. Paired(sc, rc, LAMBDA s, r : SameIn({"tool_name", "status", "side_effect", "idempotency"}, s, r))
          <=> Len(sc) = Len(rc) /\ \A i \in DOMAIN sc : SameIn({"tool_name", "status", "side_effect", "idempotency"}, sc[i], rc[i])
    BY DEF Paired
  <1>9. QED BY <1>1, <1>3, <1>4, <1>5, <1>6

LEMMA HushPolicy ==
  ASSUME NEW se, NEW re, NEW sp, NEW rp, IsSeq(se), IsSeq(re)
  PROVE  /\ IsSeq(ComparePolicy(se, re, sp, rp))
         /\ Hush(ComparePolicy(se, re, sp, rp)) <=>
              /\ Paired(se, re, LAMBDA s, r : SameIn({"decision", "reason"}, s, r))
              /\ Len(sp) = Len(rp)
  <1> DEFINE Compare(s, r) ==
               IF s.decision # r.decision THEN Item("policy", "significant", "policy_decision")
               ELSE Differs("policy", "info", "policy_reason", s.reason, r.reason)
             f == [i \in 1 .. Min({Len(se), Len(re)}) |-> Compare(se[i], re[i])]
             count == Differs("policy", "warning", "policy_evaluation_count", Len(se), Len(re))
             last == Differs("policy", "info", "action_proposal_count", Len(sp), Len(rp))
  <1>1. ComparePolicy(se, re, sp, rp) = count \o FlattenSeq(f) \o last
    BY DEF ComparePolicy, Pairwise
  <1>2. ASSUME NEW s, NEW r
        PROVE  IsSeq(Compare(s, r)) /\ (Hush(Compare(s, r)) <=> SameIn({"decision", "reason"}, s, r))
    <2>1. CASE s.decision # r.decision
      BY <2>1, HushItem DEF Expected, SameIn
    <2>2. CASE s.decision = r.decision
      BY <2>2, HushDiffers DEF Expected, SameIn
    <2>3. QED BY <2>1, <2>2
  <1>3. IsSeq(count) /\ (Hush(count) <=> Len(se) = Len(re))
    BY HushDiffers DEF Expected
  <1> HIDE DEF Compare
  <1>4. /\ IsSeq(FlattenSeq(f))
        /\ Len(se) = Len(re) =>
             (Hush(FlattenSeq(f)) <=> \A i \in DOMAIN se : SameIn({"decision", "reason"}, se[i], re[i]))
    <2> DEFINE alike == {i \in Nat : SameIn({"decision", "reason"}, se[i], re[i])}
    <2>1. f = [i \in 1 .. Min({Len(se), Len(re)}) |-> f[i]]
      OBVIOUS
    <2>2. \A i \in 1 .. Min({Len(se), Len(re)}) : f[i] = Compare(se[i], re[i])
      OBVIOUS
    <2> HIDE DEF f
    <2>3. \A i \in 1 .. Min({Len(se), Len(re)}) : IsSeq(f[i]) /\ (Hush(f[i]) <=> i \in alike)
      BY <1>2, <2>2, PlacesAreNats
    <2>4. DOMAIN se \subseteq alike <=> \A i \in DOMAIN se : SameIn({"decision", "reason"}, se[i], re[i])
      BY SeqDomain
    <2> HIDE DEF alike
    <2>5. QED BY <2>1, <2>3, <2>4, PairsCompared
  <1>7. IsSeq(last) /\ (Hush(last) <=> Len(sp) = Len(rp))
    BY HushDiffers DEF Expected
  <1> HIDE DEF f, count, last
  <1>5. /\ IsSeq(count \o FlattenSeq(f))
        /\ Hush(count \o FlattenSeq(f)) <=> Hush(count) /\ Hush(FlattenSeq(f))
    BY <1>3, <1>4, HushBoth
  <1>8. /\ IsSeq(count \o FlattenSeq(f) \o last)
        /\ Hush(count \o FlattenSeq(f) \o last) <=> Hush(count \o FlattenSeq(f)) /\ Hush(last)
    BY <1>5, <1>7, HushBoth
  <1>6. Paired(se, re, LAMBDA s, r : SameIn({"decision", "reason"}, s, r))
          <=> Len(se) = Len(re) /\ \A i \in DOMAIN se : SameIn({"decision", "reason"}, se[i], re[i])
    BY DEF Paired
  <1>9. QED BY <1>1, <1>3, <1>4, <1>5, <1>6, <1>7, <1>8

LEMMA HushApprovals ==
  ASSUME NEW sa, NEW ra, IsSeq(sa), IsSeq(ra)
  PROVE  /\ IsSeq(CompareApprovals(sa, ra))
         /\ Hush(CompareApprovals(sa, ra)) <=>
              /\ Paired(sa, ra, LAMBDA s, r : SameIn({"decision"}, s, r))
  <1> DEFINE Compare(s, r) ==
               Differs("policy", "significant", "approval_decision", s.decision, r.decision)
             f == [i \in 1 .. Min({Len(sa), Len(ra)}) |-> Compare(sa[i], ra[i])]
             count == Differs("policy", "warning", "approval_count", Len(sa), Len(ra))
  <1>1. CompareApprovals(sa, ra) = count \o FlattenSeq(f)
    BY DEF CompareApprovals, Pairwise
  <1>2. ASSUME NEW s, NEW r
        PROVE  IsSeq(Compare(s, r)) /\ (Hush(Compare(s, r)) <=> SameIn({"decision"}, s, r))
    BY HushDiffers DEF Expected, SameIn
  <1>3. IsSeq(count) /\ (Hush(count) <=> Len(sa) = Len(ra))
    BY HushDiffers DEF Expected
  <1> HIDE DEF Compare
  <1>4. /\ IsSeq(FlattenSeq(f))
        /\ Len(sa) = Len(ra) =>
             (Hush(FlattenSeq(f)) <=> \A i \in DOMAIN sa : SameIn({"decision"}, sa[i], ra[i]))
    <2> DEFINE alike == {i \in Nat : SameIn({"decision"}, sa[i], ra[i])}
    <2>1. f = [i \in 1 .. Min({Len(sa), Len(ra)}) |-> f[i]]
      OBVIOUS
    <2>2. \A i \in 1 .. Min({Len(sa), Len(ra)}) : f[i] = Compare(sa[i], ra[i])
      OBVIOUS
    <2> HIDE DEF f
    <2>3. \A i \in 1 .. Min({Len(sa), Len(ra)}) : IsSeq(f[i]) /\ (Hush(f[i]) <=> i \in alike)
      BY <1>2, <2>2, PlacesAreNats
    <2>4. DOMAIN sa \subseteq alike <=> \A i \in DOMAIN sa : SameIn({"decision"}, sa[i], ra[i])
      BY SeqDomain
    <2> HIDE DEF alike
    <2>5. QED BY <2>1, <2>3, <2>4, PairsCompared
  <1> HIDE DEF f, count
  <1>5. /\ IsSeq(count \o FlattenSeq(f))
        /\ Hush(count \o FlattenSeq(f)) <=> Hush(count) /\ Hush(FlattenSeq(f))
    BY <1>3, <1>4, HushBoth
  <1>6. Paired(sa, ra, LAMBDA s, r : SameIn({"decision"}, s, r))
          <=> Len(sa) = Len(ra) /\ \A i \in DOMAIN sa : SameIn({"decision"}, sa[i], ra[i])
    BY DEF Paired
  <1>9. QED BY <1>1, <1>3, <1>4, <1>5, <1>6

LEMMA HushResult ==
  ASSUME NEW source, NEW replay, NEW a, NEW b, source.result = {a}, replay.result = {b}
  PROVE  /\ IsSeq(CompareValidation(source, replay)) /\ IsSeq(CompareResult(source, replay))
         /\ Hush(CompareValidation(source, replay)) <=> source.validation = replay.validation
         /\ Hush(CompareResult(source, replay)) <=> SameKeys(ResultKeys, a, b)
  <1>1. /\ IsSeq(CompareValidation(source, replay))
        /\ Hush(CompareValidation(source, replay)) <=> source.validation = replay.validation
    BY HushDiffers DEF CompareValidation, Expected
  <1>2. CompareResult(source, replay) = CompareFields("result", "warning", ResultKeys, a, b)
    <2>1. (CHOOSE x \in source.result : TRUE) = a /\ (CHOOSE x \in replay.result : TRUE) = b
      OBVIOUS
    <2>2. source.result # {} /\ replay.result # {}
      OBVIOUS
    <2>3. QED BY <2>1, <2>2 DEF CompareResult
  <1>3. QED BY <1>1, <1>2, KeysAreFinite, KeysAreNotExpected, HushFields

\* A child that is linked and has its source's input.
LEMMA HushHeader ==
  ASSUME NEW source, NEW replay, replay.parent = source.id,
         \A p \in Provenance(replay) : DOMAIN p.overrides = {},
         replay.workflow_type = source.workflow_type,
         BusinessInput(source) = BusinessInput(replay)
  PROVE  LET list == CompareLineage(source, replay) \o CompareHeader(source, replay)
                       \o CompareInput(source, replay)
         IN  IsSeq(list) /\ (Hush(list) <=> source.status = replay.status)
  <1>1. IsSeq(CompareLineage(source, replay)) /\ Hush(CompareLineage(source, replay))
    <2>1. CompareLineage(source, replay) = Item("lineage", "info", "linked_to_source") \o <<>>
      BY DEF CompareLineage, IsLinked
    <2>2. /\ IsSeq(Item("lineage", "info", "linked_to_source"))
          /\ Hush(Item("lineage", "info", "linked_to_source"))
      BY HushItem DEF Expected
    <2>3. QED BY <2>1, <2>2, HushNone, Nothing, HushBoth
  <1>2. /\ IsSeq(CompareHeader(source, replay))
        /\ Hush(CompareHeader(source, replay)) <=> source.status = replay.status
    <2> DEFINE a == Differs("execution_status", "significant", "execution_status",
                            source.status, replay.status)
               b == Differs("execution_status", "significant", "workflow_type",
                            source.workflow_type, replay.workflow_type)
    <2>1. IsSeq(a) /\ (Hush(a) <=> source.status = replay.status)
      BY HushDiffers DEF Expected
    <2>2. IsSeq(b) /\ Hush(b)
      BY HushDiffers DEF Expected
    <2>3. CompareHeader(source, replay) = a \o b
      BY DEF CompareHeader
    <2> HIDE DEF a, b
    <2>4. QED BY <2>1, <2>2, <2>3, HushBoth
  <1>3. IsSeq(CompareInput(source, replay)) /\ Hush(CompareInput(source, replay))
    <2> DEFINE before == BusinessInput(source)
               after == BusinessInput(replay)
               S == {k \in DOMAIN before \cup DOMAIN after : Given(before, k) # Given(after, k)}
               names == SetToSeq(S)
               Overridden(k) == \E p \in Provenance(replay) : k \in DOMAIN p.overrides
               f == [i \in DOMAIN names |->
                       Item("input", IF Overridden(names[i]) THEN "info" ELSE "warning", names[i])]
    <2>1. CompareInput(source, replay) = FlattenSeq(f)
      BY DEF CompareInput
    <2>2. S = {}
      OBVIOUS
    <2> HIDE DEF S
    <2>3. PICK n \in Nat : DOMAIN names = 1 .. n
      BY <2>2, KeysInARow, FS_EmptySet
    <2>4. {names[i] : i \in DOMAIN names} = {}
      BY <2>2, EachOfTheSet, FS_EmptySet
    <2>5. n = 0
      <3>1. n # 0 => 1 \in 1 .. n
        OBVIOUS
      <3>2. QED BY <2>3, <2>4, <3>1
    <2> HIDE DEF names
    <2>6. f = <<>>
      BY <2>3, <2>5
    <2> HIDE DEF f
    <2>7. FlattenSeq(f) = <<>>
      BY <2>6 DEF FlattenSeq
    <2>8. QED BY <2>1, <2>7, HushNone, Nothing
  <1>4. /\ IsSeq(CompareLineage(source, replay) \o CompareHeader(source, replay))
        /\ Hush(CompareLineage(source, replay) \o CompareHeader(source, replay))
             <=> source.status = replay.status
    BY <1>1, <1>2, HushBoth
  <1>5. QED BY <1>3, <1>4, HushBoth

\* The in-memory repository lists rows as they were inserted when that is by age.
LEMMA ListedInOrder ==
  ASSUME NEW rs, IsSeq(rs), InOrder(rs), NEW s \in ListRows("memory", rs)
  PROVE  s = rs
  <1>1. PICK n \in Nat : n = Len(rs) /\ DOMAIN rs = 1 .. n
    BY SeqDomain
  <1>2. Cardinality(DOMAIN rs) = n
    <2>1. 1 \in Int /\ n \in Int /\ n >= 0
      BY <1>1
    <2>2. Cardinality(1 .. n) = IF 1 > n THEN 0 ELSE n - 1 + 1
      BY ONLY <2>1, FS_Interval
    <2>3. QED BY <1>1, <2>1, <2>2
  <1>3. PICK p \in Bijection(1 .. n, 1 .. n) :
          /\ s = [i \in 1 .. n |-> rs[p[i]]]
          /\ \A i, j \in 1 .. n :
               i < j => \/ Older(rs[p[i]], rs[p[j]])
                        \/ /\ ~ Older(rs[p[j]], rs[p[i]])
                           /\ "memory" = "postgres" \/ p[i] < p[j]
    BY <1>1, <1>2 DEF ListRows, Listings
  <1>4. p \in [1 .. n -> 1 .. n] /\ \A i, j \in 1 .. n : p[i] = p[j] => i = j
    BY <1>3 DEF Bijection, Injection, IsInjective
  <1>5. ASSUME NEW i \in 1 .. n, NEW j \in 1 .. n, i < j PROVE p[i] < p[j]
    <2>1. p[i] \in 1 .. n /\ p[j] \in 1 .. n /\ p[i] # p[j]
      BY <1>4, <1>5
    <2>2. CASE p[j] < p[i]
      <3>1. /\ rs[p[i]].created_at \in Int /\ rs[p[j]].created_at \in Int
            /\ rs[p[j]].created_at <= rs[p[i]].created_at
        BY <1>1, <2>1, <2>2 DEF InOrder
      <3>2. ~ Older(rs[p[i]], rs[p[j]])
        BY <3>1 DEF Older
      <3>3. QED BY <1>3, <1>5, <3>2
    <2>3. QED BY <2>1, <2>2
  <1>6. \A i \in 1 .. n : p[i] = i
    BY <1>4, <1>5, IncreasingIsIdentity
  <1>7. s = [i \in 1 .. n |-> rs[i]]
    BY <1>3, <1>6
  <1>8. QED BY <1>1, <1>7, SeqDomain

(***************************************************************************)
(* The source and the child while nobody interferes.                       *)
(***************************************************************************)
\* A source that has ended and was not written since.
LEMMA FinishedSource ==
  ASSUME NEW r \in Runs, NEW s, s = SourceAt("finished", r.source)
  PROVE  /\ IsExecution(s) /\ s.id = "source" /\ Ends(s, r.source)
         /\ MetaKey \in DOMAIN s.input /\ s.input[MetaKey] = "queued"
         /\ ProvenanceKey \notin DOMAIN s.input
  <1>1. PICK run : run = r.source
    OBVIOUS
  <1>2. IsRun(run) /\ IsSeq(run.reasoning)
    BY <1>1, RunsAreRuns, RunsAssumption DEF IsSeq
  <1>3. PICK input : input = With([severity |-> "high"], MetaKey, "queued")
    OBVIOUS
  <1> DEFINE before == [id |-> "source", status |-> "executing", workflow_type |-> "incident_triage",
                        parent |-> "none", plan |-> "source_plan", input |-> input,
                        execution_mode |-> "interactive", timeline |-> run.reasoning,
                        validation |-> "none", result |-> {}, created_at |-> 1]
  <1>4. s = Finished(before, run)
    <2> DEFINE fresh == [id |-> "source", status |-> "executing", workflow_type |-> "incident_triage",
                         parent |-> "none", plan |-> "source_plan", input |-> input,
                         execution_mode |-> "interactive", timeline |-> <<>>,
                         validation |-> "none", result |-> {}, created_at |-> 1]
    <2>1. s = Finished([fresh EXCEPT !.timeline = run.reasoning], run)
      BY <1>1, <1>3 DEF SourceAt
    <2>2. fresh = [f \in Fields |-> fresh[f]] /\ before = [f \in Fields |-> before[f]]
      BY DEF Fields
    <2>3. /\ \A f \in Fields : f # "timeline" => fresh[f] = before[f]
          /\ before["timeline"] = run.reasoning /\ "timeline" \in Fields
      BY DEF Fields
    <2> HIDE DEF fresh, before
    <2>4. [fresh EXCEPT !.timeline = run.reasoning] = [f \in Fields |-> before[f]]
      BY <2>2, <2>3
    <2>5. QED BY <2>1, <2>2, <2>4
  <1>5. s = [f \in Fields |-> CASE f = "status" -> run.status
                                [] f = "timeline" -> Append(run.reasoning, Row(run.status))
                                [] f = "validation" -> run.validation
                                [] f = "result" -> {run.result}
                                [] OTHER -> before[f]]
    BY <1>4 DEF Finished, Moves, Fields
  <1>6. Row(run.status).event_type # "model_reasoning"
    BY <1>2 DEF Row, IsRun
  <1>7. Told(s.timeline) = Told(run.reasoning)
    <2>1. s.timeline = Append(run.reasoning, Row(run.status))
      BY <1>5 DEF Fields
    <2>2. ToldBy(Row(run.status)) = <<>>
      BY <1>6 DEF ToldBy
    <2>3. Told(Append(run.reasoning, Row(run.status))) = Told(run.reasoning) \o <<>>
      BY <1>2, <2>2, ToldNext
    <2>4. QED BY <1>2, <2>1, <2>3, ToldIsSeq, NothingAdded
  <1>8. Ends(s, run)
    <2>1. s.status = run.status /\ s.validation = run.validation /\ s.result = {run.result}
      BY <1>5 DEF Fields
    <2>2. Reasoning(s) = ReasoningOf(run)
      BY <1>7, ToldOf DEF ReasoningOf, Told
    <2>3. QED BY <2>1, <2>2 DEF Ends
  <1>9. s.id = "source" /\ s.input = input
    BY <1>5 DEF Fields
  <1>10. /\ MetaKey \in DOMAIN input /\ input[MetaKey] = "queued"
         /\ DOMAIN input = {"severity"} \cup {MetaKey}
    <2> DEFINE first == [severity |-> "high"]
               W == With(first, MetaKey, "queued")
    <2>1. DOMAIN W = DOMAIN first \cup {MetaKey} /\ W[MetaKey] = "queued"
      <3> HIDE DEF first
      <3>1. QED BY DEF With, Merged
    <2>2. DOMAIN first = {"severity"}
      OBVIOUS
    <2>3. input = W
      BY <1>3
    <2> HIDE DEF W, first
    <2>4. QED BY <2>1, <2>2, <2>3
  <1>11. ProvenanceKey \notin DOMAIN input
    BY <1>10 DEF ProvenanceKey, MetaKey
  <1>12. IsExecution(s)
    <2>1. IsExecution(SourceAt("finished", run))
      BY <1>2, SourceIsExecution
    <2>2. QED BY <1>1, <2>1
  <1>13. QED BY <1>1, <1>8, <1>9, <1>10, <1>11, <1>12

\* The input of a child that was asked for exactly as its source was run.
LEMMA ExactInput ==
  ASSUME NEW s, MetaKey \in DOMAIN s.input, s.input[MetaKey] = "queued",
         ProvenanceKey \notin DOMAIN s.input,
         src = s, DOMAIN request.overrides = {},
         NEW ex, ex.input = With(ReplayInput, ProvenanceKey, ProvenanceOf(request))
  PROVE  /\ BusinessInput(ex) = BusinessInput(s) /\ ~ Flagged(ex)
         /\ Provenance(ex) = {ProvenanceOf(request)}
  <1>1. PICK kept : kept = Without(s.input, ProvenanceKey)
    OBVIOUS
  <1>2. /\ DOMAIN kept = DOMAIN s.input /\ kept[MetaKey] = "queued"
        /\ kept = [k \in DOMAIN kept |-> kept[k]]
    BY <1>1 DEF Without
  <1>3. ReplayInput = kept
    <2>1. ReplayInput = Merged(kept, request.overrides)
      BY <1>1 DEF ReplayInput
    <2>2. Merged(kept, request.overrides) = [k \in DOMAIN kept |-> kept[k]]
      BY DEF Merged
    <2>3. QED BY <1>2, <2>1, <2>2
  <1>4. PICK more : more = ProvenanceOf(request)
    OBVIOUS
  <1>5. PICK input : input = With(kept, ProvenanceKey, more)
    OBVIOUS
  <1>6. ex.input = input
    BY <1>3, <1>4, <1>5
  <1>7. /\ DOMAIN input = DOMAIN kept \cup {ProvenanceKey} /\ input[ProvenanceKey] = more
        /\ \A k \in DOMAIN kept : k # ProvenanceKey => input[k] = kept[k]
    <2> DEFINE W == With(kept, ProvenanceKey, more)
    <2>1. /\ DOMAIN W = DOMAIN kept \cup {ProvenanceKey} /\ W[ProvenanceKey] = more
          /\ \A k \in DOMAIN kept : k # ProvenanceKey => W[k] = kept[k]
      BY DEF With, Merged
    <2>2. input = W
      BY <1>5
    <2> HIDE DEF W
    <2>3. QED BY <2>1, <2>2
  <1>8. Without(input, ProvenanceKey) = kept
    <2>1. Without(input, ProvenanceKey) = [k \in DOMAIN kept |-> kept[k]]
      BY <1>2, <1>7 DEF Without
    <2>2. QED BY <1>2, <2>1
  <1>9. BusinessInput(ex) = BusinessInput(s)
    BY <1>1, <1>6, <1>8 DEF BusinessInput
  <1>10. ~ Flagged(ex)
    <2>1. MetaKey # ProvenanceKey
      BY DEF MetaKey, ProvenanceKey
    <2>2. MetaKey \in DOMAIN input /\ input[MetaKey] = "queued"
      BY <1>2, <1>7, <2>1
    <2>3. QED BY <1>6, <2>2 DEF Flagged, Given
  <1>11. Provenance(ex) = {more}
    BY <1>6, <1>7 DEF Provenance, Given
  <1>12. QED BY <1>4, <1>9, <1>10, <1>11

\* What the child's next record says when a row is appended that is not the model's.
LEMMA MovesTells ==
  ASSUME NEW ex, IsExecution(ex), NEW status \in ExecutionStatus, NEW next, next = Moves(ex, status)
  PROVE  /\ next.status = status /\ Reasoning(next) = Reasoning(ex)
         /\ next = [f \in Fields |-> next[f]]
         /\ \A f \in Fields \ {"status", "timeline"} : next[f] = ex[f]
  <1>1. ex = [f \in Fields |-> ex[f]] /\ IsSeq(ex.timeline)
    <2>1. IsSeq(ex.timeline)
      BY SequencesAreSeq DEF IsExecution
    <2>2. QED BY <2>1 DEF IsExecution
  <1>2. PICK row : row = Row(status)
    OBVIOUS
  <1>3. PICK timeline : timeline = Append(ex.timeline, row)
    OBVIOUS
  <1>4. next = [f \in Fields |-> IF f = "status" THEN status
                                 ELSE IF f = "timeline" THEN timeline ELSE ex[f]]
    BY <1>1, <1>2, <1>3 DEF Moves, Fields
  <1>5. ToldBy(row) = <<>>
    BY <1>2 DEF ToldBy, Row, ExecutionStatus
  <1>6. Told(timeline) = Told(ex.timeline)
    <2>1. Told(Append(ex.timeline, row)) = Told(ex.timeline) \o <<>>
      BY <1>1, <1>5, ToldNext
    <2>2. QED BY <1>1, <1>3, <2>1, ToldIsSeq, NothingAdded
  <1>7. next.timeline = timeline /\ next.status = status
    BY <1>4 DEF Fields
  <1>8. \A f \in Fields \ {"status", "timeline"} : next[f] = ex[f]
    BY <1>4
  <1>9. next = [f \in Fields |-> next[f]]
    BY <1>4
  <1>10. QED BY <1>6, <1>7, <1>8, <1>9, ToldOf

LEMMA FinishedTells ==
  ASSUME NEW ex, IsExecution(ex), NEW run, IsRun(run), Reasoning(ex) = ReasoningOf(run),
         NEW next, next = Finished(ex, run)
  PROVE  /\ Ends(next, run)
         /\ \A f \in {"id", "workflow_type", "parent", "input"} : next[f] = ex[f]
  <1>1. PICK m : m = Moves(ex, run.status)
    OBVIOUS
  <1>2. run.status \in ExecutionStatus
    BY DEF IsRun, ExecutionStatus
  <1>3. /\ m.status = run.status /\ Reasoning(m) = Reasoning(ex) /\ m = [f \in Fields |-> m[f]]
        /\ \A f \in Fields \ {"status", "timeline"} : m[f] = ex[f]
    BY <1>1, <1>2, MovesTells
  <1>4. next = [m EXCEPT !.validation = run.validation, !.result = {run.result}]
    BY <1>1 DEF Finished
  <1>5. /\ next.validation = run.validation /\ next.result = {run.result}
        /\ \A f \in Fields \ {"validation", "result"} : next[f] = m[f]
    BY <1>3, <1>4 DEF Fields
  <1>6. Reasoning(next) = Reasoning(m)
    <2>1. next.timeline = m.timeline
      BY <1>5 DEF Fields
    <2>2. QED BY <2>1, ToldOf
  <1>7. next.status = run.status
    BY <1>3, <1>5 DEF Fields
  <1>8. Ends(next, run)
    BY <1>3, <1>5, <1>6, <1>7 DEF Ends
  <1>9. \A f \in {"id", "workflow_type", "parent", "input"} : next[f] = ex[f]
    BY <1>3, <1>5 DEF Fields
  <1>10. QED BY <1>8, <1>9

LEMMA PutKeepsSource ==
  ASSUME "source" \in DOMAIN stored, NEW ex, stored' = Put("child", ex)
  PROVE  stored'["source"] = stored["source"] /\ "source" \in DOMAIN stored'
  BY DEF Put

LEMMA PutInMemory ==
  ASSUME backend = "memory", UNCHANGED fixed, NEW ex, stored' = Put("child", ex)
  PROVE  HasChild' /\ Get("child")' = ex
  BY DEF Put, HasChild, Get, fixed, Restore, Persist

\* Only SourceMoves writes the source or its rows.
LEMMA SourceStays ==
  ASSUME ReplayInv, DiffInv, [Next]_vars, ~ SourceMoves
  PROVE  /\ UNCHANGED fixed /\ Get("source")' = Get("source") /\ rows'.source = rows.source
         /\ Undisturbed' => canceller = "idle"
         /\ moved' = moved \/ (pc = "read" /\ moved' = FALSE)
  <1>1. "source" \in DOMAIN stored /\ rows = [source |-> rows.source, child |-> rows.child]
    BY DEF ReplayInv, StoredInv, DiffInv, SettledInv
  <1>2. ASSUME stored' = stored \/ \E ex : stored' = Put("child", ex), UNCHANGED fixed
        PROVE  Get("source")' = Get("source")
    <2>1. stored'["source"] = stored["source"]
      BY <1>1, <1>2, PutKeepsSource
    <2>2. QED BY <1>2, <2>1 DEF Get, fixed
  <1>3. CASE UNCHANGED vars
    BY <1>1, <1>3, <1>2 DEF vars, fixed, store, service, cancelling, diffing, Undisturbed
  <1>4. CASE ReadSource \/ Validate \/ Recheck \/ Raises \/ Loop \/ Again
    BY <1>4, <1>2 DEF ReadSource, Validate, Recheck, Raises, Loop, Again, store, cancelling, Undisturbed
  <1>5. CASE Create
    <2>1. rows'.source = rows.source
      BY <1>1, <1>5 DEF Create
    <2>2. QED BY <1>2, <1>5, <2>1 DEF Create, cancelling, Undisturbed
  <1>6. CASE Attach \/ WriteBack \/ Stop \/ Finish
    BY <1>2, <1>6 DEF Attach, WriteBack, Stop, Finish, cancelling, Undisturbed
  <1>7. CASE PlanChild
    <2>1. UNCHANGED fixed /\ moved' = moved /\ UNCHANGED cancelling
      BY <1>7 DEF PlanChild
    <2>2. stored' = stored \/ \E ex : stored' = Put("child", ex)
      BY <1>7 DEF PlanChild, Planning, store
    <2>3. rows'.source = rows.source
      BY <1>1, <1>7 DEF PlanChild, Planning, store
    <2>4. QED BY <1>2, <2>1, <2>2, <2>3 DEF cancelling, Undisturbed
  <1>8. CASE Fail
    <2>1. stored' = stored \/ \E ex : stored' = Put("child", ex)
      BY <1>8 DEF Fail
    <2>2. QED BY <1>2, <1>8, <2>1 DEF Fail, cancelling, Undisturbed
  <1>9. CASE Work
    <2>1. UNCHANGED fixed /\ moved' = moved /\ UNCHANGED cancelling
      BY <1>9 DEF Work
    <2>2. stored' = stored \/ \E ex : stored' = Put("child", ex)
      BY <1>9 DEF Work
    <2>3. rows'.source = rows.source
      BY <1>1, <1>9 DEF Work
    <2>4. QED BY <1>2, <2>1, <2>2, <2>3 DEF cancelling, Undisturbed
  <1>10. CASE Cancel
    <2>1. UNCHANGED fixed /\ moved' = moved /\ rows' = rows /\ canceller' # "idle"
      BY <1>10 DEF Cancel, CancelChild
    <2>2. stored' = stored \/ \E ex : stored' = Put("child", ex)
      BY <1>10 DEF Cancel, CancelChild
    <2>3. QED BY <1>2, <2>1, <2>2 DEF Undisturbed
  <1>11. CASE Diff
    BY <1>11, <1>2 DEF Diff, store, cancelling, Undisturbed
  <1>12. QED
    BY <1>3, <1>4, <1>5, <1>6, <1>7, <1>8, <1>9, <1>10, <1>11 DEF Next, Done

\* Where a step may come from and what it leaves of what was read.
LEMMA WhatStays ==
  ASSUME ReplayInv, [Next]_vars
  PROVE  /\ pc' = "read" => pc = "read"
         /\ src' = src \/ (ReadSource /\ ~ HasChild /\ ~ HasChild' /\ pc' = "validate")
         /\ pc' = "create" => pc = "create" \/ Validate
         /\ HasChild' => HasChild \/ pc = "create"
         /\ moved' => SourceMoves \/ moved
  <1>1. CASE UNCHANGED vars
    BY <1>1 DEF vars, service, store, HasChild
  <1>2. CASE ReadSource
    BY <1>2 DEF ReadSource, ReplayInv, WhereInv, store, HasChild
  <1>3. CASE Validate \/ Recheck \/ Raises \/ Loop \/ Again
    BY <1>3 DEF Validate, Recheck, Raises, Loop, Again, store, HasChild
  <1>4. CASE Create
    BY <1>4 DEF Create
  <1>5. ASSUME Attach \/ WriteBack \/ Stop \/ Finish \/ PlanChild \/ Fail \/ Work
        PROVE  HasChild
    BY <1>5 DEF ReplayInv, WhereInv, Driven, Attach, WriteBack, Stop, Finish, PlanChild, Planning,
                Fail, Work
  <1>6. CASE Attach \/ WriteBack \/ Stop \/ Finish
    BY <1>5, <1>6 DEF Attach, WriteBack, Stop, Finish
  <1>7. CASE PlanChild
    BY <1>5, <1>7 DEF PlanChild, Planning
  <1>8. CASE Fail \/ Work
    BY <1>5, <1>8 DEF Fail, Work
  <1>9. CASE Cancel
    <2>1. HasChild
      <3>1. CASE canceller = "idle"
        <4>1. PICK listed \in ListByParent(backend, Executions, "source", 50) :
                     \E i \in DOMAIN listed : cancelCopy' = listed[i]
          BY <1>9, <3>1 DEF Cancel, CancelChild
        <4>2. PICK i \in DOMAIN listed : cancelCopy' = listed[i]
          BY <4>1
        <4>3. QED BY <4>1, <4>2, TheChildIsListed DEF ReplayInv, StoredInv
      <3>2. QED BY <3>1 DEF ReplayInv, WhereInv
    <2>2. QED BY <1>9, <2>1 DEF Cancel, service
  <1>10. CASE SourceMoves
    <2>1. (HasChild' <=> HasChild)
      <3>1. "source" \in DOMAIN stored
        BY DEF ReplayInv, StoredInv
      <3>2. DOMAIN stored' = DOMAIN stored
        BY <1>10, <3>1 DEF SourceMoves, Put
      <3>3. QED BY <3>2 DEF HasChild
    <2>2. QED BY <1>10, <2>1 DEF SourceMoves, service
  <1>11. CASE Diff
    BY <1>11 DEF Diff, service, store, HasChild
  <1>12. QED
    BY <1>1, <1>2, <1>3, <1>4, <1>6, <1>7, <1>8, <1>9, <1>10, <1>11 DEF Next, Done

LEMMA KeptKeeps == ASSUME ReplayInv, DiffInv, KeptInv, [Next]_vars PROVE KeptInv'
  <1>1. UNCHANGED fixed
    <2>1. SourceMoves => UNCHANGED fixed
      BY DEF SourceMoves
    <2>2. QED BY <2>1, SourceStays
  <1>2. request' = request /\ backend' = backend /\ runs' = runs
    BY <1>1 DEF fixed
  <1>3. HasChild' \/ pc' = "create" => ~ Refused(request')
    <2>1. Validate /\ pc' = "create" => ~ Refused(request)
      BY DEF Validate
    <2>2. QED BY <1>2, <2>1, WhatStays DEF KeptInv
  <1>4. pc' = "read" => ~ moved'
    <2>1. SourceMoves => pc # "read"
      BY DEF SourceMoves
    <2>2. QED BY <2>1, WhatStays DEF KeptInv
  <1>5. ASSUME backend = "memory", ~ moved'
        PROVE  /\ Settled(Get("source")') =>
                    /\ Get("source")' = SourceAt("finished", runs.source)
                    /\ rows'.source = runs.source.rows
               /\ HasChild' => Get("source")' = src'
    <2>1. ~ SourceMoves
      BY <1>5 DEF SourceMoves
    <2>2. Get("source")' = Get("source") /\ rows'.source = rows.source /\ ~ moved
      <3>1. /\ Get("source")' = Get("source") /\ rows'.source = rows.source
            /\ moved' = moved \/ pc = "read"
        BY <2>1, SourceStays
      <3>2. ~ moved
        BY <1>5, <3>1, Zenon DEF KeptInv
      <3>3. QED BY <3>1, <3>2
    <2>3. HasChild' => Get("source") = src'
      <3>1. HasChild' => src' = src
        BY WhatStays
      <3>2. CASE pc = "create"
        BY <2>2, <3>1, <3>2 DEF ReplayInv, SourceInv
      <3>3. CASE pc # "create"
        BY <1>5, <2>2, <3>1, <3>3, WhatStays DEF KeptInv
      <3>4. QED BY <3>2, <3>3
    <2>4. QED BY <1>5, <2>2, <2>3 DEF KeptInv
  <1>6. SourceAt("finished", runs.source)' = SourceAt("finished", runs.source)
    BY <1>2 DEF SourceAt, Finished, Moves, Cancelled, Flag
  <1>7. QED BY <1>2, <1>3, <1>4, <1>5, <1>6 DEF KeptInv

ChildInput == With(ReplayInput, ProvenanceKey, ProvenanceOf(request))

\* What holds before a step that leaves the child alone.
LEMMA AloneBefore ==
  ASSUME ReplayInv, DiffInv, KeptInv, AloneInv, [Next]_vars, Undisturbed', HasChild', Settled(src')
  PROVE  /\ Undisturbed /\ UNCHANGED fixed /\ src' = src /\ ~ SourceMoves /\ ~ Cancel
         /\ HasChild => ChildAlone
         /\ src = SourceAt("finished", runs.source)
         /\ HasChild \/ pc = "create"
  <1>1. ~ SourceMoves
    BY DEF SourceMoves, Undisturbed
  <1>2. ~ Cancel
    BY DEF Cancel, CancelChild, Undisturbed
  <1>3. /\ UNCHANGED fixed /\ canceller = "idle"
        /\ moved' = moved \/ pc = "read"
    BY <1>1, SourceStays
  <1>4. ~ moved
    BY <1>3, Zenon DEF KeptInv, Undisturbed
  <1>5. Undisturbed
    BY <1>3, <1>4 DEF Undisturbed, fixed
  <1>6. src' = src
    BY WhatStays
  <1>7. HasChild => ChildAlone
    BY <1>5, <1>6 DEF AloneInv
  <1>8. src = SourceAt("finished", runs.source)
    <2>1. KeptInv'
      BY KeptKeeps
    <2>2. Get("source")' = src' /\ Settled(Get("source")')
      BY <2>1 DEF KeptInv, Undisturbed
    <2>3. src' = SourceAt("finished", runs.source)'
      BY <2>1, <2>2 DEF KeptInv, Undisturbed
    <2>4. SourceAt("finished", runs.source)' = SourceAt("finished", runs.source)
      BY <1>3 DEF SourceAt, Finished, Moves, Cancelled, Flag, fixed
    <2>5. QED BY <1>6, <2>3, <2>4
  <1>9. HasChild \/ pc = "create"
    BY WhatStays
  <1>10. QED BY <1>1, <1>2, <1>3, <1>5, <1>6, <1>7, <1>8, <1>9

LEMMA ChildAloneNext ==
  ASSUME NEW ex, Get("child")' = ex, src' = src, UNCHANGED fixed,
         ex.workflow_type = src.workflow_type, ex.parent = "source",
         Driven' \/ Settled(ex) => ex.input = ChildInput,
         Settled(ex) => Worked' /\ Ends(ex, runs.child),
         pc' \in {"attach", "planning", "plan", "write", "trace", "finish"} => child' = ex,
         ChildAt(ex)'
  PROVE  ChildAlone'
  <1>1. request' = request /\ runs' = runs
    BY DEF fixed
  <1>2. ReplayInput' = ReplayInput /\ ProvenanceOf(request)' = ProvenanceOf(request)
    BY <1>1 DEF ReplayInput, ProvenanceOf
  <1>3. ChildAt(Get("child"))'
    BY DEF ChildAt
  <1>4. QED BY <1>1, <1>2, <1>3, Zenon DEF ChildAlone, Ends, Settled, ChildInput

\* Nobody has flagged the child, so its loop goes on.
LEMMA ChildUnflagged ==
  ASSUME KeptInv, Undisturbed, HasChild, runs \in Runs, src = SourceAt("finished", runs.source),
         NEW ex, ex.input = ChildInput
  PROVE  /\ BusinessInput(ex) = BusinessInput(src) /\ ~ Flagged(ex)
         /\ Provenance(ex) = {ProvenanceOf(request)} /\ DOMAIN request.overrides = {}
  <1>1. DOMAIN request.overrides = {}
    BY DEF KeptInv, Refused, Undisturbed
  <1>2. PICK s : s = src
    OBVIOUS
  <1>3. PICK r : r = runs
    OBVIOUS
  <1>4. /\ MetaKey \in DOMAIN s.input /\ s.input[MetaKey] = "queued"
        /\ ProvenanceKey \notin DOMAIN s.input
    BY <1>2, <1>3, FinishedSource
  <1>5. /\ BusinessInput(ex) = BusinessInput(s) /\ ~ Flagged(ex)
        /\ Provenance(ex) = {ProvenanceOf(request)}
    BY <1>1, <1>2, <1>4, ExactInput DEF ChildInput
  <1>6. QED BY <1>1, <1>2, <1>5

Alone == /\ ReplayInv /\ DiffInv /\ KeptInv /\ AloneInv /\ [Next]_vars
         /\ Undisturbed' /\ HasChild' /\ Settled(src')

\* A step that stores nothing.
LEMMA AloneReads ==
  ASSUME Alone, UNCHANGED <<stored, rows>>, HasChild,
         Driven' => Driven,
         pc' \in {"attach", "planning", "plan", "write", "trace", "finish"} => child' = Get("child"),
         ChildAt(Get("child")) => ChildAt(Get("child"))'
  PROVE  ChildAlone'
  <1>1. Undisturbed /\ UNCHANGED fixed /\ src' = src /\ ChildAlone
    BY AloneBefore DEF Alone
  <1>2. PICK ex : ex = Get("child")
    OBVIOUS
  <1>3. Get("child")' = ex
    BY <1>1, <1>2 DEF Get, fixed
  <1>4. ChildAt(ex)'
    BY <1>1, <1>2, <1>3 DEF ChildAlone, ChildAt
  <1>5. Settled(ex) => Worked' /\ Ends(ex, runs.child)
    BY <1>1, <1>2 DEF ChildAlone, Worked, fixed
  <1>6. /\ ex.workflow_type = src.workflow_type /\ ex.parent = "source"
        /\ Driven' \/ Settled(ex) => ex.input = ChildInput
    BY <1>1, <1>2 DEF ChildAlone, ChildInput
  <1>7. QED BY <1>1, <1>2, <1>3, <1>4, <1>5, <1>6, ChildAloneNext

\* A step that writes the child.
LEMMA AloneWrites ==
  ASSUME Alone, NEW ex, stored' = Put("child", ex),
         ex.workflow_type = src.workflow_type, ex.parent = "source",
         Driven' \/ Settled(ex) => ex.input = ChildInput,
         Settled(ex) => Worked' /\ Ends(ex, runs.child),
         pc' \in {"attach", "planning", "plan", "write", "trace", "finish"} => child' = ex,
         ChildAt(ex)'
  PROVE  ChildAlone'
  <1>1. Undisturbed /\ UNCHANGED fixed /\ src' = src
    BY AloneBefore DEF Alone
  <1>2. Get("child")' = ex
    BY <1>1, PutInMemory DEF Undisturbed
  <1>3. QED BY <1>1, <1>2, ChildAloneNext

\* A record that is a child's, and what a step keeps of it.
LEMMA AloneChild ==
  ASSUME Alone, HasChild
  PROVE  LET ex == Get("child")
         IN  /\ IsExecution(ex) /\ ex.workflow_type = src.workflow_type /\ ex.parent = "source"
             /\ Driven => ex.input = ChildInput /\ ~ Flagged(ex)
             /\ ChildAt(ex) /\ (Settled(ex) => Worked /\ Ends(ex, runs.child))
             /\ pc \in {"attach", "planning", "plan", "write", "trace", "finish"} => child = ex
             /\ Driving => ~ Settled(ex)
  <1>1. /\ Undisturbed /\ ChildAlone /\ src = SourceAt("finished", runs.source)
    BY AloneBefore DEF Alone
  <1>2. runs \in Runs /\ IsExecution(Get("child")) /\ KeptInv
    BY DEF Alone, ReplayInv, StoredInv, HasChild
  <1>3. Driven => Get("child").input = ChildInput
    BY <1>1 DEF ChildAlone, ChildInput
  <1>4. Driven => ~ Flagged(Get("child"))
    BY <1>1, <1>2, <1>3, ChildUnflagged
  <1>5. QED BY <1>1, <1>2, <1>3, <1>4 DEF ChildAlone, Alone, DiffInv, SettledInv

LEMMA NothingReasoned == ASSUME NEW ex, ex.timeline = <<>> PROVE Reasoning(ex) = <<>>
  BY ToldOf, ToldNothing DEF Told

LEMMA AloneCreate == ASSUME Alone, Create PROVE ChildAlone'
  <1>1. /\ child'.status = "created" /\ child'.timeline = <<>>
        /\ child'.workflow_type = src.workflow_type /\ child'.parent = "source"
        /\ stored' = Put("child", child') /\ pc' = "attach"
    BY DEF Create
  <1>2. PICK ex : ex = child'
    OBVIOUS
  <1>3. Reasoning(ex) = <<>>
    BY <1>1, <1>2, NothingReasoned
  <1>4. ChildAt(ex)'
    BY <1>1, <1>2, <1>3 DEF ChildAt
  <1>5. ~ Driven' /\ ~ Settled(ex)
    BY <1>1, <1>2 DEF Driven, Settled
  <1>6. QED BY <1>1, <1>2, <1>4, <1>5, AloneWrites

LEMMA AloneAttach == ASSUME Alone, Attach PROVE ChildAlone'
  <1>1. HasChild
    BY DEF Alone, ReplayInv, WhereInv, Attach
  <1>2. /\ child = Get("child") /\ IsExecution(child) /\ Reasoning(child) = <<>>
        /\ child.status = "created"
        /\ child.workflow_type = src.workflow_type /\ child.parent = "source"
    BY <1>1, AloneChild DEF Attach, ChildAt
  <1>3. PICK ex : ex = Attached(child)
    OBVIOUS
  <1>4. PICK row : row = Row("replay_created")
    OBVIOUS
  <1>5. /\ ex.input = ChildInput /\ ex.timeline = Append(child.timeline, row)
        /\ \A f \in Fields \ {"input", "timeline"} : ex[f] = child[f]
    BY <1>2, <1>3, <1>4 DEF Attached, IsExecution, Fields, ChildInput
  <1>6. Reasoning(ex) = <<>>
    <2>1. IsSeq(child.timeline)
      BY <1>2, SequencesAreSeq DEF IsExecution
    <2>2. ToldBy(row) = <<>>
      BY <1>4 DEF ToldBy, Row
    <2>3. Told(child.timeline) = <<>>
      BY <1>2, ToldOf DEF Told
    <2>4. Told(Append(child.timeline, row)) = <<>> \o <<>>
      BY <2>1, <2>2, <2>3, ToldNext
    <2>5. QED BY <1>5, <2>4, ToldOf DEF Told
  <1>7. ex.status = "created" /\ ex.workflow_type = src.workflow_type /\ ex.parent = "source"
    BY <1>2, <1>5 DEF Fields
  <1>8. /\ stored' = Put("child", ex) /\ child' = ex /\ pc' \in {"start", "recheck"}
    BY <1>3 DEF Attach
  <1>9. ChildAt(ex)'
    BY <1>6, <1>7, <1>8 DEF ChildAt
  <1>10. ~ Settled(ex)
    BY <1>7 DEF Settled
  <1>11. QED BY <1>5, <1>7, <1>8, <1>9, <1>10, AloneWrites

LEMMA AlonePlans == ASSUME Alone, PlanChild PROVE ChildAlone'
  <1>1. HasChild /\ Driven
    BY DEF Alone, ReplayInv, WhereInv, PlanChild, Planning, Driven
  <1>2. PICK ex : ex = Get("child")
    OBVIOUS
  <1>3. /\ IsExecution(ex) /\ ChildAt(ex) /\ ex.input = ChildInput
        /\ ex.workflow_type = src.workflow_type /\ ex.parent = "source"
        /\ pc \in {"planning", "plan"} => child = ex
    BY <1>1, <1>2, AloneChild
  <1>4. UNCHANGED fixed /\ runs \in Runs
    BY AloneBefore DEF Alone, ReplayInv, StoredInv
  <1>5. CASE pc = "start"
    <2>1. /\ UNCHANGED <<stored, rows>> /\ child' = ex /\ pc' = "planning"
      BY <1>2, <1>3, <1>5 DEF PlanChild, Planning, store, ChildAt, Terminal, ExecutionTerminal
    <2>2. ChildAt(Get("child"))'
      <3>1. Get("child")' = ex
        BY <1>2, <1>4, <2>1 DEF Get, fixed
      <3>2. QED BY <1>3, <1>5, <2>1, <3>1 DEF ChildAt
    <2>3. QED BY <1>1, <1>2, <2>1, <2>2, AloneReads
  <1>6. CASE pc = "planning"
    <2>1. PICK next : next = Moves(ex, "planning")
      OBVIOUS
    <2>2. stored' = Put("child", next) /\ child' = next /\ pc' = "plan"
      BY <1>3, <1>6, <2>1 DEF PlanChild, Planning
    <2>3. /\ next.status = "planning" /\ Reasoning(next) = Reasoning(ex)
          /\ \A f \in Fields \ {"status", "timeline"} : next[f] = ex[f]
      BY <1>3, <2>1, MovesTells DEF ExecutionStatus
    <2>4. next.input = ex.input /\ next.workflow_type = ex.workflow_type /\ next.parent = ex.parent
      BY <2>3 DEF Fields
    <2>5. ChildAt(next)'
      BY <1>3, <1>6, <2>2, <2>3 DEF ChildAt
    <2>6. ~ Settled(next)
      BY <2>3 DEF Settled
    <2>7. QED BY <1>3, <2>2, <2>4, <2>5, <2>6, AloneWrites
  <1>7. CASE pc = "plan"
    <2>1. PICK m : m = Moves(ex, "executing")
      OBVIOUS
    <2>2. PICK next : next = [m EXCEPT !.plan = "child_plan"]
      OBVIOUS
    <2>3. /\ m.status = "executing" /\ Reasoning(m) = Reasoning(ex) /\ m = [f \in Fields |-> m[f]]
          /\ \A f \in Fields \ {"status", "timeline"} : m[f] = ex[f]
      BY <1>3, <2>1, MovesTells DEF ExecutionStatus
    <2>4. \A f \in Fields \ {"plan"} : next[f] = m[f]
      BY <2>2, <2>3
    <2>5. /\ next.status = "executing" /\ next.timeline = m.timeline /\ next.input = ex.input
          /\ next.workflow_type = ex.workflow_type /\ next.parent = ex.parent
      BY <2>3, <2>4 DEF Fields
    <2>6. Reasoning(next) = <<>>
      BY <1>3, <1>7, <2>3, <2>5, ToldOf DEF ChildAt
    <2>7. stored' = Put("child", next) /\ child' = next /\ pc' = "loop"
      BY <1>3, <1>7, <2>1, <2>2 DEF PlanChild, Planning
    <2>8. ~ Worked'
      <3>1. PICK all : all = runs.child.rows.steps
        OBVIOUS
      <3>2. all # <<>> /\ "status" \in DOMAIN all[1] /\ all[1].status # "pending" /\ IsSeq(all)
        BY <1>4, <3>1, RowsAssumption, RunsAssumption DEF AreRows, Lists, IsSeq
      <3>3. 1 \in DOMAIN all
        BY <3>2 DEF IsSeq
      <3>4. PICK planned : planned = [i \in DOMAIN all |->
                                        [all[i] EXCEPT !.status = "pending", !.result = {}]]
        OBVIOUS
      <3>5. planned[1].status = "pending"
        BY <3>2, <3>3, <3>4
      <3>6. rows'.child.steps = planned
        <4>1. rows' = [rows EXCEPT !.child.steps = planned]
          BY <1>7, <3>1, <3>4 DEF PlanChild, Planning
        <4>2. rows = [source |-> rows.source, child |-> rows.child]
          BY DEF Alone, DiffInv, SettledInv
        <4>3. "steps" \in DOMAIN rows.child
          BY DEF Alone, DiffInv, SettledInv, AreRows, Lists
        <4>4. QED BY <4>1, <4>2, <4>3
      <3>7. runs'.child.rows.steps = all
        BY <1>4, <3>1 DEF fixed
      <3>8. QED BY <3>2, <3>5, <3>6, <3>7 DEF Worked
    <2>9. ChildAt(next)'
      BY <2>5, <2>6, <2>7, <2>8 DEF ChildAt
    <2>10. ~ Settled(next)
      BY <2>5 DEF Settled
    <2>11. QED BY <1>3, <2>5, <2>7, <2>9, <2>10, AloneWrites
  <1>8. QED BY <1>5, <1>6, <1>7 DEF PlanChild, Planning

LEMMA AloneLoops == ASSUME Alone, Loop PROVE ChildAlone'
  <1>1. HasChild /\ Driven
    BY DEF Alone, ReplayInv, WhereInv, Loop, Driven
  <1>2. PICK ex : ex = Get("child")
    OBVIOUS
  <1>3. ChildAt(ex) /\ ~ Flagged(ex)
    BY <1>1, <1>2, AloneChild
  <1>4. UNCHANGED <<fixed, stored, rows>> /\ child' = ex /\ pc' = "write" /\ pc = "loop"
    BY <1>2, <1>3 DEF Loop, store, ChildAt, Terminal, ExecutionTerminal
  <1>5. ChildAt(Get("child"))'
    <2>1. Get("child")' = ex /\ (Worked' <=> Worked) /\ runs' = runs
      BY <1>2, <1>4 DEF Get, fixed, Worked
    <2>2. QED BY <1>3, <1>4, <2>1 DEF ChildAt
  <1>6. QED BY <1>1, <1>2, <1>4, <1>5, AloneReads

LEMMA AloneWritesBack == ASSUME Alone, WriteBack PROVE ChildAlone'
  <1>1. HasChild /\ Driven
    BY DEF Alone, ReplayInv, WhereInv, WriteBack, Driven
  <1>2. PICK ex : ex = Get("child")
    OBVIOUS
  <1>3. /\ IsExecution(ex) /\ ChildAt(ex) /\ ex.input = ChildInput /\ child = ex
        /\ ex.workflow_type = src.workflow_type /\ ex.parent = "source" /\ ~ Settled(ex)
    BY <1>1, <1>2, AloneChild DEF WriteBack, Driving
  <1>4. /\ UNCHANGED <<fixed, rows>> /\ pc' = "again" /\ pc = "write"
        /\ stored' = Put("child", IF Worked /\ ex.status = "executing"
                                  THEN Moves(ex, "validating") ELSE ex)
    BY <1>3 DEF WriteBack
  <1>5. (Worked' <=> Worked) /\ runs' = runs
    BY <1>4 DEF fixed, Worked
  <1>6. CASE Worked
    <2>1. PICK next : next = Moves(ex, "validating")
      OBVIOUS
    <2>2. /\ next.status = "validating" /\ Reasoning(next) = Reasoning(ex)
          /\ \A f \in Fields \ {"status", "timeline"} : next[f] = ex[f]
      BY <1>3, <2>1, MovesTells DEF ExecutionStatus
    <2>3. next.input = ex.input /\ next.workflow_type = ex.workflow_type /\ next.parent = ex.parent
      BY <2>2 DEF Fields
    <2>4. stored' = Put("child", next)
      BY <1>3, <1>4, <1>6, <2>1 DEF ChildAt
    <2>5. ChildAt(next)'
      BY <1>3, <1>4, <1>5, <1>6, <2>2 DEF ChildAt
    <2>6. ~ Settled(next)
      BY <2>2 DEF Settled
    <2>7. QED BY <1>3, <1>4, <2>3, <2>4, <2>5, <2>6, AloneWrites
  <1>7. CASE ~ Worked
    <2>1. stored' = Put("child", ex)
      BY <1>4, <1>7
    <2>2. ChildAt(ex)'
      BY <1>3, <1>4, <1>5, <1>7 DEF ChildAt
    <2>3. QED BY <1>3, <1>4, <2>1, <2>2, AloneWrites
  <1>8. QED BY <1>6, <1>7

LEMMA AloneAgain == ASSUME Alone, Again PROVE ChildAlone'
  <1>1. HasChild /\ Driven
    BY DEF Alone, ReplayInv, WhereInv, Again, Driven
  <1>2. PICK ex : ex = Get("child")
    OBVIOUS
  <1>3. ChildAt(ex)
    BY <1>1, <1>2, AloneChild
  <1>4. /\ UNCHANGED <<fixed, stored, rows>> /\ child' = ex /\ pc = "again"
        /\ pc' \in {"work", "finish"} /\ (pc' = "work" <=> ~ Worked)
    BY <1>2, <1>3 DEF Again, store, ChildAt, Terminal, ExecutionTerminal
  <1>5. ChildAt(Get("child"))'
    <2>1. Get("child")' = ex /\ (Worked' <=> Worked) /\ runs' = runs
      BY <1>2, <1>4 DEF Get, fixed, Worked
    <2>2. QED BY <1>3, <1>4, <2>1 DEF ChildAt
  <1>6. QED BY <1>1, <1>2, <1>4, <1>5, AloneReads

LEMMA AloneWorks == ASSUME Alone, Work PROVE ChildAlone'
  <1>1. HasChild /\ Driven /\ Driven'
    BY DEF Alone, ReplayInv, WhereInv, Work, Driven
  <1>2. PICK ex : ex = Get("child")
    OBVIOUS
  <1>3. /\ IsExecution(ex) /\ ChildAt(ex) /\ ex.input = ChildInput
        /\ ex.workflow_type = src.workflow_type /\ ex.parent = "source" /\ ~ Settled(ex)
        /\ pc = "trace" => child = ex
    BY <1>1, <1>2, AloneChild DEF Work, Driving
  <1>4. UNCHANGED fixed /\ src' = src /\ runs' = runs /\ runs \in Runs
    BY DEF Work, fixed, Alone, ReplayInv, StoredInv
  <1>5. CASE pc = "work"
    <2>1. UNCHANGED stored /\ child' = ex /\ pc' = "trace" /\ rows' = [rows EXCEPT !.child = runs.child.rows]
      BY <1>2, <1>5 DEF Work
    <2>2. Worked'
      BY <1>4, <2>1 DEF Worked, Alone, DiffInv, SettledInv
    <2>3. Get("child")' = ex
      BY <1>2, <1>4, <2>1 DEF Get, fixed
    <2>4. ChildAt(ex)'
      BY <1>3, <1>4, <1>5, <2>1, <2>2 DEF ChildAt
    <2>5. QED BY <1>3, <1>4, <2>1, <2>3, <2>4, ChildAloneNext
  <1>6. CASE pc = "trace"
    <2>1. PICK next : next = [ex EXCEPT !.timeline = @ \o runs.child.reasoning]
      OBVIOUS
    <2>2. PICK timeline : timeline = ex.timeline \o runs.child.reasoning
      OBVIOUS
    <2>3. next.timeline = timeline /\ \A f \in Fields \ {"timeline"} : next[f] = ex[f]
      BY <1>3, <2>1, <2>2 DEF IsExecution, Fields
    <2>4. /\ next.status = ex.status /\ next.input = ex.input
          /\ next.workflow_type = ex.workflow_type /\ next.parent = ex.parent
      BY <2>3 DEF Fields
    <2>5. IsSeq(ex.timeline) /\ IsSeq(runs.child.reasoning)
      BY <1>3, <1>4, SequencesAreSeq, RunsAssumption DEF IsExecution, IsSeq
    <2>6. Reasoning(next) = ReasoningOf(runs.child)
      <3>1. Told(ex.timeline) = <<>>
        BY <1>3, <1>6, ToldOf DEF ChildAt, Told
      <3>2. Told(timeline) = <<>> \o Told(runs.child.reasoning)
        BY <2>2, <2>5, <3>1, ToldBoth
      <3>3. Told(timeline) = Told(runs.child.reasoning)
        BY <2>5, <3>2, ToldIsSeq, NothingAdded
      <3>4. QED BY <2>3, <3>3, ToldOf DEF ReasoningOf, Told
    <2>7. stored' = Put("child", next) /\ rows' = rows /\ pc' = "loop"
      BY <1>3, <1>6, <2>1 DEF Work
    <2>8. ChildAt(next)'
      BY <1>3, <1>4, <1>6, <2>4, <2>6, <2>7 DEF ChildAt, Worked
    <2>9. ~ Settled(next)
      BY <1>3, <2>4 DEF Settled
    <2>10. QED BY <1>3, <2>4, <2>7, <2>8, <2>9, AloneWrites
  <1>7. QED BY <1>5, <1>6 DEF Work

LEMMA AloneFinishes == ASSUME Alone, Finish PROVE ChildAlone'
  <1>1. HasChild /\ Driven
    BY DEF Alone, ReplayInv, WhereInv, Finish, Driven
  <1>2. PICK ex : ex = Get("child")
    OBVIOUS
  <1>3. /\ IsExecution(ex) /\ ChildAt(ex) /\ ex.input = ChildInput /\ child = ex
        /\ ex.workflow_type = src.workflow_type /\ ex.parent = "source"
    BY <1>1, <1>2, AloneChild DEF Finish
  <1>4. UNCHANGED fixed /\ runs' = runs /\ rows' = rows /\ IsRun(runs.child)
    BY RunsAreRuns DEF Finish, fixed, Alone, ReplayInv, StoredInv
  <1>5. PICK next : next = Finished(ex, runs.child)
    OBVIOUS
  <1>6. Worked /\ Reasoning(ex) = ReasoningOf(runs.child)
    BY <1>3 DEF Finish, ChildAt
  <1>7. /\ Ends(next, runs.child)
        /\ \A f \in {"id", "workflow_type", "parent", "input"} : next[f] = ex[f]
    BY <1>3, <1>4, <1>5, <1>6, FinishedTells
  <1>8. next.input = ex.input /\ next.workflow_type = ex.workflow_type /\ next.parent = ex.parent
    BY <1>7
  <1>9. stored' = Put("child", next) /\ pc' = "recheck" /\ Worked'
    BY <1>3, <1>4, <1>5, <1>6 DEF Finish, Worked
  <1>10. ChildAt(next)'
    BY <1>9 DEF ChildAt
  <1>11. QED BY <1>3, <1>7, <1>8, <1>9, <1>10, AloneWrites

\* The rest leave the child as it is.
LEMMA AloneRests ==
  ASSUME Alone, HasChild, Recheck \/ Raises \/ Diff \/ Done \/ UNCHANGED vars
  PROVE  ChildAlone'
  <1>1. UNCHANGED <<fixed, stored, rows>> /\ (pc' = "answered" \/ UNCHANGED <<pc, child>>)
    BY DEF Recheck, Raises, Diff, Done, vars, store, service
  <1>2. Driven' => Driven /\ pc' = pc
    BY <1>1 DEF Driven
  <1>3. pc' \in {"attach", "planning", "plan", "write", "trace", "finish"} => child' = Get("child")
    <2>1. pc \in {"attach", "planning", "plan", "write", "trace", "finish"} => child = Get("child")
      BY AloneChild
    <2>2. QED BY <1>1, <2>1
  <1>4. ChildAt(Get("child")) => ChildAt(Get("child"))'
    <2>1. Get("child")' = Get("child") /\ (Worked' <=> Worked) /\ runs' = runs
      BY <1>1 DEF Get, fixed, Worked
    <2>2. CASE pc' = "answered"
      BY <2>2 DEF ChildAt
    <2>3. CASE pc' = pc
      BY <2>1, <2>3 DEF ChildAt
    <2>4. QED BY <1>1, <2>2, <2>3
  <1>5. QED BY <1>1, <1>2, <1>3, <1>4, AloneReads

LEMMA AloneKeeps ==
  ASSUME ReplayInv, DiffInv, KeptInv, AloneInv, [Next]_vars
  PROVE  AloneInv'
  <1> SUFFICES ASSUME Undisturbed', HasChild', Settled(src') PROVE ChildAlone'
    <2>1. Settled(src)' <=> Settled(src')
      BY DEF Settled
    <2>2. QED BY <2>1 DEF AloneInv
  <1>1. Alone
    BY DEF Alone
  <1>2. /\ ~ SourceMoves /\ ~ Cancel /\ (HasChild \/ pc = "create")
        /\ HasChild => ChildAt(Get("child"))
    BY AloneBefore DEF ChildAlone
  <1>3. ~ ReadSource /\ ~ Validate /\ ~ Stop /\ ~ Fail
    BY <1>2 DEF ReadSource, Validate, Stop, Fail, ChildAt, ReplayInv, WhereInv
  <1>4. CASE HasChild
    BY <1>1, <1>2, <1>3, <1>4, AloneCreate, AloneAttach, AlonePlans, AloneLoops, AloneWritesBack,
       AloneAgain, AloneWorks, AloneFinishes, AloneRests DEF Next
  <1>5. CASE ~ HasChild
    <2>1. pc = "create"
      BY <1>2, <1>5
    <2>2. CASE Create
      BY <1>1, <2>2, AloneCreate
    <2>3. CASE ~ Create
      <3>1. stored' = stored
        BY <2>1, <2>3, <1>2, Zenon DEF Next, ReadSource, Validate, Attach, Recheck, Raises, PlanChild, Planning,
           Loop, Stop, WriteBack, Again, Fail, Work, Finish, Diff, Done, vars, store
      <3>2. QED BY <1>5, <3>1 DEF HasChild
    <2>4. QED BY <2>2, <2>3
  <1>6. QED BY <1>4, <1>5

LEMMA SilentNext == ASSUME IsSeq(items') PROVE Silent' <=> Hush(items')
  <1>1. Titles' = {e.title : e \in ToSet(items')}
    BY DEF Titles, ToSet
  <1>2. QED BY <1>1 DEF Silent, Hush, Expected

\* What is compared, when both have ended and nobody has interfered.
LEMMA BothEnded ==
  ASSUME ReplayInv, DiffInv, TruthInv, Undisturbed, HasChild,
         Settled(Get("source")), Settled(Get("child"))
  PROVE  /\ backend = "memory" /\ runs \in Runs /\ Get("source") = src
         /\ src.id = "source" /\ Ends(src, runs.source) /\ Ends(Get("child"), runs.child)
         /\ rows.source = runs.source.rows /\ rows.child = runs.child.rows
         /\ Get("child").parent = src.id /\ Get("child").workflow_type = src.workflow_type
         /\ \A p \in Provenance(Get("child")) : DOMAIN p.overrides = {}
         /\ BusinessInput(src) = BusinessInput(Get("child"))
  <1>1. /\ backend = "memory" /\ runs \in Runs /\ Get("source") = src /\ KeptInv
        /\ src = SourceAt("finished", runs.source) /\ rows.source = runs.source.rows
    BY DEF ReplayInv, StoredInv, TruthInv, KeptInv, Undisturbed
  <1>2. ChildAlone
    BY <1>1 DEF TruthInv, AloneInv
  <1>3. /\ Get("child").parent = "source" /\ Get("child").workflow_type = src.workflow_type
        /\ Get("child").input = ChildInput /\ Worked /\ Ends(Get("child"), runs.child)
    BY <1>2 DEF ChildAlone, ChildInput
  <1>4. PICK s : s = src
    OBVIOUS
  <1>5. PICK r : r = runs
    OBVIOUS
  <1>6. s.id = "source" /\ Ends(s, r.source)
    BY <1>1, <1>4, <1>5, FinishedSource
  <1>7. /\ BusinessInput(Get("child")) = BusinessInput(src)
        /\ Provenance(Get("child")) = {ProvenanceOf(request)} /\ DOMAIN request.overrides = {}
    BY <1>1, <1>3, ChildUnflagged
  <1>8. \A p \in Provenance(Get("child")) : DOMAIN p.overrides = {}
    BY <1>7 DEF ProvenanceOf
  <1>9. rows.child = runs.child.rows
    BY <1>3 DEF Worked
  <1>10. QED BY <1>1, <1>3, <1>4, <1>5, <1>6, <1>7, <1>8, <1>9

\* While the comparison goes on, it holds what is stored.
LEMMA PairIsStored ==
  ASSUME ReplayInv, DiffInv, TruthInv, Undisturbed, differ \notin {"idle", "replay", "done"},
         Settled(pair.source), Settled(pair.replay)
  PROVE  /\ HasChild /\ pair.source = src /\ Get("source") = src /\ pair.replay = Get("child")
         /\ Settled(Get("source")) /\ Settled(Get("child"))
  <1>1. HasChild /\ pair.source = src /\ pair.replay = Get("child")
    BY DEF DiffInv, PairInv, TruthInv, ToldInv
  <1>2. Get("source") = src
    BY <1>1 DEF TruthInv, KeptInv, Undisturbed
  <1>3. QED BY <1>1, <1>2

\* The rows that a run leaves are listed in the order in which they were created.
LEMMA RunsRows ==
  ASSUME NEW r \in Runs, NEW run \in {r.source, r.child}
  PROVE  /\ \A part \in Lists : IsSeq(run.rows[part])
         /\ \A s \in ListRows("memory", run.rows.steps) : s = run.rows.steps
         /\ \A s \in ListRows("memory", run.rows.tools) : s = run.rows.tools
         /\ \A i \in DOMAIN run.rows.steps : AtMostOne(run.rows.steps[i].result)
  <1>1. \A part \in Lists : IsSeq(run.rows[part])
    BY RunsAssumption DEF AreRows, IsSeq
  <1>2. InOrder(run.rows.steps) /\ InOrder(run.rows.tools)
    BY RowsAssumption
  <1>3. IsSeq(run.rows.steps) /\ IsSeq(run.rows.tools)
    BY <1>1 DEF Lists
  <1>4. \A i \in DOMAIN run.rows.steps : AtMostOne(run.rows.steps[i].result)
    BY RowsAssumption DEF AtMostOne
  <1>5. \A s \in ListRows("memory", run.rows.steps) : s = run.rows.steps
    BY <1>2, <1>3, ListedInOrder
  <1>6. \A s \in ListRows("memory", run.rows.tools) : s = run.rows.tools
    BY <1>2, <1>3, ListedInOrder
  <1>7. QED BY <1>1, <1>4, <1>5, <1>6

\* A step of the comparison leaves the rest.
LEMMA DiffLeaves ==
  ASSUME Diff
  PROVE  /\ UNCHANGED fixed /\ src' = src /\ (Undisturbed' <=> Undisturbed) /\ runs' = runs
         /\ (HasChild' <=> HasChild) /\ Get("child")' = Get("child") /\ Get("source")' = Get("source")
  BY DEF Diff, fixed, store, service, cancelling, Undisturbed, HasChild, Get

LEMMA ToldSource ==
  ASSUME ReplayInv, DiffInv, TruthInv, Diff, DiffSource PROVE ToldInv'
  <1>1. /\ differ = "idle" /\ differ' = "replay" /\ report' = report /\ HasChild
        /\ pair' = [pair EXCEPT !.source = Get("source")]
    BY DEF DiffSource, HasChild
  <1>2. report # "answered"
    BY <1>1 DEF DiffInv, ItemsInv
  <1>3. Undisturbed => Get("source") = src
    BY <1>1 DEF TruthInv, KeptInv, Undisturbed
  <1>4. pair'.source = Get("source")
    BY <1>1 DEF DiffInv, PairInv
  <1>5. QED BY <1>1, <1>2, <1>3, <1>4, DiffLeaves, Zenon DEF ToldInv

LEMMA ToldReplay ==
  ASSUME ReplayInv, DiffInv, TruthInv, Diff, DiffReplay PROVE ToldInv'
  <1>1. PICK replay : replay = Get("child")
    OBVIOUS
  <1>2. PICK source : source = pair.source
    OBVIOUS
  <1> DEFINE list == CompareLineage(source, replay) \o CompareHeader(source, replay)
                       \o CompareInput(source, replay)
  <1>3. /\ differ = "replay" /\ differ' = "plan" /\ report' = report /\ HasChild
        /\ pair' = [pair EXCEPT !.replay = replay] /\ items' = list
    BY <1>1, <1>2 DEF DiffReplay, DiffInv, PairInv
  <1>4. report # "answered"
    BY <1>3 DEF DiffInv, ItemsInv
  <1>5. pair'.source = source /\ pair'.replay = replay
    BY <1>2, <1>3 DEF DiffInv, PairInv
  <1>6. Undisturbed => source = src /\ Get("source") = src
    BY <1>2, <1>3 DEF TruthInv, ToldInv, KeptInv, Undisturbed
  <1>7. ASSUME Undisturbed, Settled(source), Settled(replay)
        PROVE  Silent' <=> runs.source.status = runs.child.status
    <2>1. /\ Ends(source, runs.source) /\ Ends(replay, runs.child)
          /\ replay.parent = source.id /\ replay.workflow_type = source.workflow_type
          /\ \A p \in Provenance(replay) : DOMAIN p.overrides = {}
          /\ BusinessInput(source) = BusinessInput(replay)
      BY <1>1, <1>3, <1>6, <1>7, BothEnded
    <2>2. IsSeq(list) /\ (Hush(list) <=> source.status = replay.status)
      BY <2>1, HushHeader
    <2> HIDE DEF list
    <2>3. IsSeq(items') /\ (Hush(items') <=> source.status = replay.status)
      BY <1>3, <2>2
    <2>4. Silent' <=> Hush(items')
      BY <2>3, SilentNext
    <2>5. QED BY <2>1, <2>3, <2>4 DEF Ends
  <1> HIDE DEF list
  <1>8. QED BY <1>1, <1>3, <1>4, <1>5, <1>6, <1>7, DiffLeaves, Zenon DEF ToldInv, Settled

\* A part of the comparison that appends what two lists, or two records, differ in.
LEMMA ToldMore ==
  ASSUME DiffInv, NEW more, items' = items \o more, IsSeq(more), NEW same \in BOOLEAN, NEW before \in BOOLEAN,
         Silent <=> before, Hush(more) <=> same
  PROVE  Silent' <=> before /\ same
  <1>1. PICK list : list = items
    OBVIOUS
  <1>2. PICK all : all = list \o more
    OBVIOUS
  <1>3. IsSeq(list) /\ (Silent <=> Hush(list))
    BY <1>1, SilentIsHush DEF DiffInv, ItemsInv, IsSeq
  <1>4. IsSeq(all) /\ (Hush(all) <=> Hush(list) /\ Hush(more))
    BY <1>2, <1>3, HushBoth
  <1>5. items' = all
    BY <1>1, <1>2
  <1>6. Silent' <=> Hush(all)
    BY <1>4, <1>5, SilentNext
  <1>7. QED BY <1>3, <1>4, <1>6

LEMMA ToldPlan ==
  ASSUME ReplayInv, DiffInv, TruthInv, Diff, DiffPlan PROVE ToldInv'
  <1>1. /\ differ = "plan" /\ differ' = "steps" /\ UNCHANGED <<pair, report>>
    BY DEF DiffPlan
  <1>2. report # "answered"
    BY <1>1 DEF DiffInv, ItemsInv
  <1>3. ASSUME Undisturbed, Settled(pair.source), Settled(pair.replay)
        PROVE  Silent' <=> /\ runs.source.status = runs.child.status
                           /\ Len(runs.source.rows.steps) = Len(runs.child.rows.steps)
    <2>1. /\ HasChild /\ pair.source = src /\ Get("source") = src /\ pair.replay = Get("child")
          /\ Settled(Get("source")) /\ Settled(Get("child"))
      BY <1>1, <1>3, PairIsStored
    <2>2. /\ backend = "memory" /\ runs \in Runs
          /\ rows.source = runs.source.rows /\ rows.child = runs.child.rows
      BY <1>3, <2>1, BothEnded
    <2>3. PICK s \in ListRows(backend, rows.source.steps), r \in ListRows(backend, rows.child.steps) :
                 items' = items \o ComparePlan(pair.source, pair.replay, s, r)
      BY DEF DiffPlan, Listed
    <2>4. s = runs.source.rows.steps /\ r = runs.child.rows.steps
      BY <2>2, <2>3, RunsRows
    <2>5. PICK more : more = ComparePlan(pair.source, pair.replay, s, r)
      OBVIOUS
    <2>6. IsSeq(more) /\ (Hush(more) <=> Len(s) = Len(r))
      BY <2>5, HushPlan
    <2>7. Silent <=> runs.source.status = runs.child.status
      BY <1>1, <1>3 DEF TruthInv, ToldInv
    <2>8. Silent' <=> (runs.source.status = runs.child.status) /\ (Len(s) = Len(r))
      BY <2>3, <2>5, <2>6, <2>7, ToldMore
    <2>9. QED BY <2>4, <2>8
  <1>4. Undisturbed => pair.source = src /\ (Settled(pair.replay) => pair.replay = Get("child"))
    BY <1>1 DEF TruthInv, ToldInv
  <1>5. pair' = pair /\ report' = report
    BY <1>1
  <1>6. QED BY <1>1, <1>2, <1>3, <1>4, <1>5, DiffLeaves, Zenon DEF ToldInv, Settled

LEMMA ToldSteps ==
  ASSUME ReplayInv, DiffInv, TruthInv, Diff, DiffSteps PROVE ToldInv'
  <1>1. /\ differ = "steps" /\ differ' = "rest" /\ UNCHANGED <<pair, report>>
    BY DEF DiffSteps
  <1>2. report # "answered"
    BY <1>1 DEF DiffInv, ItemsInv
  <1>3. ASSUME Undisturbed, Settled(pair.source), Settled(pair.replay)
        PROVE  Silent' <=> /\ runs.source.status = runs.child.status
                           /\ Paired(runs.source.rows.steps, runs.child.rows.steps, SameStep)
                           /\ SameReasoning(runs.source, runs.child)
    <2>1. /\ HasChild /\ pair.source = src /\ Get("source") = src /\ pair.replay = Get("child")
          /\ Settled(Get("source")) /\ Settled(Get("child"))
      BY <1>1, <1>3, PairIsStored
    <2>2. /\ backend = "memory" /\ runs \in Runs
          /\ rows.source = runs.source.rows /\ rows.child = runs.child.rows
          /\ Ends(pair.source, runs.source) /\ Ends(pair.replay, runs.child)
      BY <1>3, <2>1, BothEnded
    <2>3. PICK s \in ListRows(backend, rows.source.steps), r \in ListRows(backend, rows.child.steps) :
                 items' = items \o (CompareSteps(s, r) \o CompareReasoning(pair.source, pair.replay))
      BY DEF DiffSteps, Listed
    <2>4. s = runs.source.rows.steps /\ r = runs.child.rows.steps
      BY <2>2, <2>3, RunsRows
    <2>5. PICK one : one = CompareSteps(s, r)
      OBVIOUS
    <2>6. PICK two : two = CompareReasoning(pair.source, pair.replay)
      OBVIOUS
    <2>7. IsSeq(one) /\ (Hush(one) <=> Paired(s, r, SameStep))
      <3>1. /\ IsSeq(s) /\ \A i \in DOMAIN s : AtMostOne(s[i].result)
            /\ IsSeq(r) /\ \A i \in DOMAIN r : AtMostOne(r[i].result)
        BY <2>2, <2>4, RunsRows DEF Lists
      <3>2. QED BY <2>5, <3>1, HushSteps
    <2>8. IsSeq(two) /\ (Hush(two) <=> SameReasoning(runs.source, runs.child))
      <3>1. Reasoning(pair.source) = ReasoningOf(runs.source) /\ Reasoning(pair.replay) = ReasoningOf(runs.child)
        BY <2>2 DEF Ends
      <3>2. IsSeq(ReasoningOf(runs.source)) /\ IsSeq(ReasoningOf(runs.child))
        <4>1. IsSeq(runs.source.reasoning) /\ IsSeq(runs.child.reasoning)
          BY <2>2, RunsAssumption DEF IsSeq
        <4>2. QED BY <4>1, ToldIsSeq, ToldOf DEF ReasoningOf, Told
      <3>3. /\ IsSeq(two)
            /\ Hush(two) <=> Paired(Reasoning(pair.source), Reasoning(pair.replay),
                                    LAMBDA x, y : SameIn({"path", "task"}, x, y))
        BY <2>6, <3>1, <3>2, HushReasoning
      <3>4. QED BY <3>1, <3>3 DEF SameReasoning
    <2>9. PICK more : more = one \o two
      OBVIOUS
    <2>10. IsSeq(more) /\ (Hush(more) <=> Hush(one) /\ Hush(two))
      BY <2>7, <2>8, <2>9, HushBoth
    <2>11. Silent <=> /\ runs.source.status = runs.child.status
                      /\ Len(runs.source.rows.steps) = Len(runs.child.rows.steps)
      BY <1>1, <1>3 DEF TruthInv, ToldInv
    <2>12. items' = items \o more
      BY <2>3, <2>5, <2>6, <2>9
    <2>13. Silent' <=> /\ /\ runs.source.status = runs.child.status
                          /\ Len(s) = Len(r)
                       /\ Hush(one) /\ Hush(two)
      BY <2>4, <2>10, <2>11, <2>12, ToldMore
    <2>14. QED BY <2>4, <2>7, <2>8, <2>13 DEF Paired
  <1>4. Undisturbed => pair.source = src /\ (Settled(pair.replay) => pair.replay = Get("child"))
    BY <1>1 DEF TruthInv, ToldInv
  <1>5. pair' = pair /\ report' = report
    BY <1>1
  <1>6. (SameReasoning(runs.source, runs.child)' <=> SameReasoning(runs.source, runs.child))
        /\ (Paired(runs.source.rows.steps, runs.child.rows.steps, SameStep)'
              <=> Paired(runs.source.rows.steps, runs.child.rows.steps, SameStep))
    BY DiffLeaves DEF SameReasoning, Paired, SameStep
  <1>7. QED BY <1>1, <1>2, <1>3, <1>4, <1>5, <1>6, DiffLeaves, Zenon DEF ToldInv, Settled

SameTools(a, b) ==
  Paired(a, b, LAMBDA s, r : SameIn({"tool_name", "status", "side_effect", "idempotency"}, s, r))
SamePolicy(a, b) == Paired(a, b, LAMBDA s, r : SameIn({"decision", "reason"}, s, r))
SameApprovals(a, b) == Paired(a, b, LAMBDA s, r : SameIn({"decision"}, s, r))

LEMMA ToolsCompared ==
  ASSUME NEW a, NEW b, IsSeq(a), IsSeq(b)
  PROVE  IsSeq(CompareToolCalls(a, b)) /\ (Hush(CompareToolCalls(a, b)) <=> SameTools(a, b))
  BY HushToolCalls DEF SameTools, Paired

LEMMA PolicyCompared ==
  ASSUME NEW a, NEW b, NEW p, NEW q, IsSeq(a), IsSeq(b)
  PROVE  /\ IsSeq(ComparePolicy(a, b, p, q))
         /\ Hush(ComparePolicy(a, b, p, q)) <=> SamePolicy(a, b) /\ Len(p) = Len(q)
  BY HushPolicy DEF SamePolicy, Paired

LEMMA ApprovalsCompared ==
  ASSUME NEW a, NEW b, IsSeq(a), IsSeq(b)
  PROVE  IsSeq(CompareApprovals(a, b)) /\ (Hush(CompareApprovals(a, b)) <=> SameApprovals(a, b))
  BY HushApprovals DEF SameApprovals, Paired

\* What the last part compares, apart from the records.
LEMMA RestOfRows ==
  ASSUME NEW r \in Runs, NEW a, a = r.source.rows, NEW b, b = r.child.rows
  PROVE  /\ IsSeq(CompareToolCalls(a.tools, b.tools))
         /\ IsSeq(ComparePolicy(a.evaluations, b.evaluations, a.proposals, b.proposals))
         /\ IsSeq(CompareApprovals(a.approvals, b.approvals))
         /\ Hush(CompareToolCalls(a.tools, b.tools)) <=> SameTools(a.tools, b.tools)
         /\ Hush(ComparePolicy(a.evaluations, b.evaluations, a.proposals, b.proposals))
              <=> SamePolicy(a.evaluations, b.evaluations) /\ Len(a.proposals) = Len(b.proposals)
         /\ Hush(CompareApprovals(a.approvals, b.approvals)) <=> SameApprovals(a.approvals, b.approvals)
  <1>1. /\ IsSeq(a.tools) /\ IsSeq(b.tools) /\ IsSeq(a.evaluations) /\ IsSeq(b.evaluations)
        /\ IsSeq(a.approvals) /\ IsSeq(b.approvals)
    BY RunsRows DEF Lists
  <1>2. QED BY <1>1, ToolsCompared, PolicyCompared, ApprovalsCompared

\* Five lists one after the other.
LEMMA HushFive ==
  ASSUME NEW a, NEW b, NEW c, NEW d, NEW e, IsSeq(a), IsSeq(b), IsSeq(c), IsSeq(d), IsSeq(e)
  PROVE  /\ IsSeq(a \o b \o c \o d \o e)
         /\ Hush(a \o b \o c \o d \o e) <=> Hush(a) /\ Hush(b) /\ Hush(c) /\ Hush(d) /\ Hush(e)
  <1>1. PICK ab : ab = a \o b
    OBVIOUS
  <1>2. IsSeq(ab) /\ (Hush(ab) <=> Hush(a) /\ Hush(b))
    BY <1>1, HushBoth
  <1>3. PICK abc : abc = ab \o c
    OBVIOUS
  <1>4. IsSeq(abc) /\ (Hush(abc) <=> Hush(ab) /\ Hush(c))
    BY <1>2, <1>3, HushBoth
  <1>5. PICK abcd : abcd = abc \o d
    OBVIOUS
  <1>6. IsSeq(abcd) /\ (Hush(abcd) <=> Hush(abc) /\ Hush(d))
    BY <1>4, <1>5, HushBoth
  <1>7. PICK all : all = abcd \o e
    OBVIOUS
  <1>8. IsSeq(all) /\ (Hush(all) <=> Hush(abcd) /\ Hush(e))
    BY <1>6, <1>7, HushBoth
  <1>9. a \o b \o c \o d \o e = all
    BY <1>1, <1>3, <1>5, <1>7
  <1>10. QED BY <1>2, <1>4, <1>6, <1>8, <1>9

LEMMA ToldRest ==
  ASSUME ReplayInv, DiffInv, TruthInv, Diff, DiffRest PROVE ToldInv'
  <1>1. /\ differ = "rest" /\ differ' = "recheck" /\ UNCHANGED <<pair, report>>
    BY DEF DiffRest
  <1>2. report # "answered"
    BY <1>1 DEF DiffInv, ItemsInv
  <1>3. ASSUME Undisturbed, Settled(pair.source), Settled(pair.replay)
        PROVE  Silent' <=> Alike(runs.source, runs.child)
    <2>1. /\ HasChild /\ pair.source = src /\ Get("source") = src /\ pair.replay = Get("child")
          /\ Settled(Get("source")) /\ Settled(Get("child"))
      BY <1>1, <1>3, PairIsStored
    <2>2. /\ backend = "memory" /\ runs \in Runs
          /\ rows.source = runs.source.rows /\ rows.child = runs.child.rows
          /\ Ends(pair.source, runs.source) /\ Ends(pair.replay, runs.child)
      BY <1>3, <2>1, BothEnded
    <2>3. PICK source : source = pair.source
      OBVIOUS
    <2>4. PICK replay : replay = pair.replay
      OBVIOUS
    <2>5. PICK a : a = runs.source.rows
      OBVIOUS
    <2>6. PICK b : b = runs.child.rows
      OBVIOUS
    <2>7. PICK one : one = CompareToolCalls(a.tools, b.tools)
      OBVIOUS
    <2>8. PICK two : two = ComparePolicy(a.evaluations, b.evaluations, a.proposals, b.proposals)
      OBVIOUS
    <2>9. PICK three : three = CompareApprovals(a.approvals, b.approvals)
      OBVIOUS
    <2>10. PICK four : four = CompareValidation(source, replay)
      OBVIOUS
    <2>11. PICK five : five = CompareResult(source, replay)
      OBVIOUS
    <2>12. PICK more : more = one \o two \o three \o four \o five
      OBVIOUS
    <2>13. items' = items \o more
      <3>1. PICK s \in ListRows(backend, rows.source.tools), r \in ListRows(backend, rows.child.tools) :
              items' = items \o
                (CompareToolCalls(s, r)
                   \o ComparePolicy(rows.source.evaluations, rows.child.evaluations,
                                    rows.source.proposals, rows.child.proposals)
                   \o CompareApprovals(rows.source.approvals, rows.child.approvals)
                   \o CompareValidation(pair.source, pair.replay)
                   \o CompareResult(pair.source, pair.replay))
        BY DEF DiffRest, Listed
      <3>2. s = a.tools /\ r = b.tools
        BY <2>2, <2>5, <2>6, <3>1, RunsRows
      <3>3. QED BY <2>2, <2>3, <2>4, <2>5, <2>6, <2>7, <2>8, <2>9, <2>10, <2>11, <2>12, <3>1, <3>2
    <2>14. /\ IsSeq(one) /\ IsSeq(two) /\ IsSeq(three)
           /\ Hush(one) <=> SameTools(a.tools, b.tools)
           /\ Hush(two) <=> /\ SamePolicy(a.evaluations, b.evaluations)
                            /\ Len(a.proposals) = Len(b.proposals)
           /\ Hush(three) <=> SameApprovals(a.approvals, b.approvals)
      BY <2>2, <2>5, <2>6, <2>7, <2>8, <2>9, RestOfRows
    <2>15. /\ IsSeq(four) /\ IsSeq(five)
           /\ Hush(four) <=> runs.source.validation = runs.child.validation
           /\ Hush(five) <=> SameKeys(ResultKeys, runs.source.result, runs.child.result)
      <3>1. /\ source.result = {runs.source.result} /\ replay.result = {runs.child.result}
            /\ source.validation = runs.source.validation /\ replay.validation = runs.child.validation
        BY <2>2, <2>3, <2>4 DEF Ends
      <3>2. PICK x : x = runs.source.result
        OBVIOUS
      <3>3. PICK y : y = runs.child.result
        OBVIOUS
      <3>4. /\ IsSeq(CompareValidation(source, replay)) /\ IsSeq(CompareResult(source, replay))
            /\ Hush(CompareValidation(source, replay)) <=> source.validation = replay.validation
            /\ Hush(CompareResult(source, replay)) <=> SameKeys(ResultKeys, x, y)
        BY <3>1, <3>2, <3>3, HushResult
      <3>5. QED BY <2>10, <2>11, <3>1, <3>2, <3>3, <3>4
    <2>16. /\ IsSeq(more)
           /\ Hush(more) <=> Hush(one) /\ Hush(two) /\ Hush(three) /\ Hush(four) /\ Hush(five)
      BY <2>12, <2>14, <2>15, HushFive
    <2>17. Silent <=> /\ runs.source.status = runs.child.status
                      /\ Paired(runs.source.rows.steps, runs.child.rows.steps, SameStep)
                      /\ SameReasoning(runs.source, runs.child)
      BY <1>1, <1>3 DEF TruthInv, ToldInv
    <2>18. Silent' <=> /\ /\ runs.source.status = runs.child.status
                          /\ Paired(runs.source.rows.steps, runs.child.rows.steps, SameStep)
                          /\ SameReasoning(runs.source, runs.child)
                       /\ /\ Hush(one) /\ Hush(two) /\ Hush(three)
                          /\ Hush(four) /\ Hush(five)
      BY <2>13, <2>16, <2>17, ToldMore
    <2>19. Hush(one) /\ Hush(two) /\ Hush(three) /\ Hush(four) /\ Hush(five)
             <=> SameRest(runs.source, runs.child)
      BY <2>5, <2>6, <2>14, <2>15, Zenon DEF SameRest, SameTools, SamePolicy, SameApprovals
    <2>20. QED BY <2>18, <2>19, Zenon DEF Alike
  <1>4. Undisturbed => pair.source = src /\ (Settled(pair.replay) => pair.replay = Get("child"))
    BY <1>1 DEF TruthInv, ToldInv
  <1>5. pair' = pair /\ report' = report
    BY <1>1
  <1>6. Alike(runs.source, runs.child)' <=> Alike(runs.source, runs.child)
    BY DiffLeaves DEF Alike, SameRest, SameReasoning, Paired, SameStep
  <1>7. QED BY <1>1, <1>2, <1>3, <1>4, <1>5, <1>6, DiffLeaves, Zenon DEF ToldInv, Settled

LEMMA ToldRecheck ==
  ASSUME ReplayInv, DiffInv, TruthInv, Diff, DiffRecheck PROVE ToldInv'
  <1>1. /\ differ = "recheck" /\ differ' = "done" /\ report' \in {"answered", "mutated"}
        /\ report' = "answered" => UNCHANGED <<pair, items>>
        /\ report' # "answered" => pair' = [source |-> None, replay |-> None]
    BY DEF DiffRecheck
  <1>2. CASE report' = "answered"
    <2>1. Undisturbed => /\ pair.source = src
                         /\ Settled(pair.replay) => pair.replay = Get("child")
                         /\ Settled(pair.source) /\ Settled(pair.replay)
                              => (Silent <=> Alike(runs.source, runs.child))
      BY <1>1 DEF TruthInv, ToldInv
    <2>2. pair' = pair /\ (Silent' <=> Silent)
      BY <1>1, <1>2 DEF Silent, Titles
    <2>3. Alike(runs.source, runs.child)' <=> Alike(runs.source, runs.child)
      BY DiffLeaves DEF Alike, SameRest, SameReasoning, Paired, SameStep
    <2>4. QED BY <1>1, <2>1, <2>2, <2>3, DiffLeaves, Zenon DEF ToldInv, Settled
  <1>3. CASE report' # "answered"
    <2>1. ~ Settled(pair'.source)
      BY <1>1, <1>3 DEF Settled, None
    <2>2. QED BY <1>1, <1>3, <2>1, Zenon DEF ToldInv, Settled
  <1>4. QED BY <1>2, <1>3

\* While the replay is still driven, no ended one is compared; after that nobody writes it.
LEMMA ToldRests ==
  ASSUME ReplayInv, DiffInv, TruthInv, [Next]_vars, ~ Diff PROVE ToldInv'
  <1> SUFFICES ASSUME Undisturbed' PROVE ToldInv'
    BY DEF ToldInv
  <1>1. ~ SourceMoves /\ ~ Cancel
    BY DEF SourceMoves, Cancel, CancelChild, Undisturbed
  <1>2. /\ UNCHANGED fixed /\ canceller = "idle" /\ (moved' = moved \/ pc = "read")
    BY <1>1, SourceStays
  <1>3. Undisturbed
    <2>1. ~ moved
      BY <1>2, Zenon DEF TruthInv, KeptInv, Undisturbed
    <2>2. QED BY <1>2, <2>1 DEF Undisturbed, fixed
  <1>4. UNCHANGED diffing
    BY <1>1 DEF Next, ReadSource, Validate, Create, Attach, Recheck, Raises, PlanChild, Loop, Stop,
       WriteBack, Again, Fail, Work, Finish, Done, vars
  <1>5. /\ differ' = differ /\ pair' = pair /\ report' = report /\ items' = items /\ runs' = runs
    BY <1>2, <1>4 DEF diffing, fixed
  <1>6. differ \notin {"idle", "done"} \/ report = "answered" => HasChild /\ src' = src
    <2>1. differ # "idle" => HasChild
      BY DEF DiffInv, PairInv
    <2>2. report = "answered" => differ = "done"
      BY DEF DiffInv, ItemsInv
    <2>3. HasChild => src' = src
      BY WhatStays
    <2>4. QED BY <2>1, <2>2, <2>3
  <1>7. ASSUME differ \notin {"idle", "replay", "done"} \/ report = "answered", Settled(pair.replay)
        PROVE  pair.replay = Get("child")'
    <2>1. HasChild /\ pair.replay = Get("child")
      BY <1>3, <1>6, <1>7 DEF TruthInv, ToldInv
    <2>2. ~ Driving
      BY <1>7, <2>1 DEF DiffInv, SettledInv
    <2>3. stored' = stored
      BY <1>1, <2>2, Zenon DEF Next, ReadSource, Validate, Create, Attach, Recheck, Raises, PlanChild,
         Planning, Loop, Stop, WriteBack, Again, Fail, Work, Finish, Done, vars, store, Driving
    <2>4. QED BY <1>2, <2>1, <2>3 DEF Get, fixed
  <1>8. (Silent' <=> Silent) /\ (Alike(runs.source, runs.child)' <=> Alike(runs.source, runs.child))
        /\ (SameReasoning(runs.source, runs.child)' <=> SameReasoning(runs.source, runs.child))
        /\ (Paired(runs.source.rows.steps, runs.child.rows.steps, SameStep)'
              <=> Paired(runs.source.rows.steps, runs.child.rows.steps, SameStep))
    BY <1>5 DEF Silent, Titles, Alike, SameRest, SameReasoning, Paired, SameStep
  <1>9. /\ differ \notin {"idle", "done"} \/ report = "answered" => pair.source = src'
        /\ differ \notin {"idle", "replay", "done"} \/ report = "answered"
             => (Settled(pair.replay) => pair.replay = Get("child")')
    BY <1>3, <1>6, <1>7 DEF TruthInv, ToldInv
  <1>10. ToldInv
    BY DEF TruthInv
  <1>11. QED BY <1>3, <1>5, <1>8, <1>9, <1>10, Zenon DEF ToldInv, Settled

LEMMA TruthInit == ASSUME Init PROVE TruthInv
  <1>1. PICK status \in {"executing", "cancelled", "finished"} :
          /\ stored = [source |-> Persist(backend, SourceAt(status, runs.source))]
          /\ rows = [source |-> IF status = "finished" THEN runs.source.rows ELSE NoRows,
                     child |-> NoRows]
    BY DEF Init
  <1>2. ~ HasChild /\ pc = "read" /\ ~ moved
    BY <1>1 DEF Init, HasChild
  <1>3. ASSUME backend = "memory", Settled(Get("source"))
        PROVE  Get("source") = SourceAt("finished", runs.source) /\ rows.source = runs.source.rows
    <2>1. Get("source") = SourceAt(status, runs.source)
      BY <1>1, <1>3 DEF Get, Restore, Persist
    <2>2. SourceAt("executing", runs.source).status = "executing"
      BY DEF SourceAt
    <2>3. SourceAt("cancelled", runs.source).status = "cancelled"
      BY DEF SourceAt, Cancelled, Flag, Moves, Terminal, ExecutionTerminal
    <2>4. status = "finished"
      BY <1>3, <2>1, <2>2, <2>3 DEF Settled
    <2>5. QED BY <1>1, <2>1, <2>4
  <1>4. KeptInv
    BY <1>2, <1>3 DEF KeptInv
  <1>5. AloneInv
    BY <1>2 DEF AloneInv
  <1>6. ToldInv
    <2>1. /\ differ = "idle" /\ report = "none" /\ pair = [source |-> None, replay |-> None]
      BY DEF Init
    <2>2. ~ Settled(pair.source)
      BY <2>1 DEF Settled, None
    <2>3. QED BY <2>1, <2>2, Zenon DEF ToldInv
  <1>7. QED BY <1>4, <1>5, <1>6 DEF TruthInv

LEMMA TruthKeeps == ASSUME ReplayInv, DiffInv, TruthInv, [Next]_vars PROVE TruthInv'
  <1>1. KeptInv'
    BY KeptKeeps DEF TruthInv
  <1>2. AloneInv'
    BY AloneKeeps DEF TruthInv
  <1>3. Diff => ToldInv'
    BY ToldSource, ToldReplay, ToldPlan, ToldSteps, ToldRest, ToldRecheck DEF Diff
  <1>4. ~ Diff => ToldInv'
    BY ToldRests
  <1>5. QED BY <1>1, <1>2, <1>3, <1>4 DEF TruthInv

\* A diff of an exact replay that ran undisturbed is silent exactly when the two runs are
\* alike in what is compared (ReplayDiffService.compare, ReplayService.create_replay).
THEOREM DiffsTellTheTruth == Spec => []DiffTellsTheTruth
  <1>1. Init => ReplayInv /\ DiffInv /\ TruthInv
    BY ReplayInit, DiffInit, TruthInit
  <1>2. ReplayInv /\ DiffInv /\ TruthInv /\ [Next]_vars => (ReplayInv /\ DiffInv /\ TruthInv)'
    BY ReplaySteps, DiffKeeps, TruthKeeps
  <1>3. TruthInv => DiffTellsTheTruth
    BY Zenon DEF TruthInv, ToldInv, Undisturbed, DiffTellsTheTruth
  <1>4. QED BY <1>1, <1>2, <1>3, PTL DEF Spec
===============================================================================
