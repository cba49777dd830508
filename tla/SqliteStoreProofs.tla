------------------------- MODULE SqliteStoreProofs --------------------------
(***************************************************************************)
(* The SQLite store, proved for every number of attempts, keys and         *)
(* principals, for all limits, leases and retentions, and for processes    *)
(* that are late, die or restart under the same id: a turn's claim pins    *)
(* its conversation, a recovered turn never lands, the ledger follows the  *)
(* runs, and no limit is exceeded.                                         *)
(***************************************************************************)
EXTENDS SqliteStore, FiniteSetTheorems, TLAPS

Row == [st : {"none", "claimed", "running", "completed", "indeterminate"},
        att : Attempt \cup {Nobody}, lease : Nat, grace : Nat, exp : Nat,
        body : BOOLEAN, scope : Nat]
Ledger == [Key -> Row]
Run == [st : {"none", "running", "finished", "abandoned"}, lease : Nat]
Record == [inc : Nat, rev : Nat, here : BOOLEAN]
PCs == {"idle", "read", "answered", "refused", "claimed", "running", "fenced", "done", "dead"}

StoreTypes ==
    /\ ledger \in Ledger /\ run \in [Attempt -> Run] /\ conv \in Record
    /\ pc \in [Attempt -> PCs] /\ base \in [Attempt -> Record]
    /\ superseded \subseteq Attempt

\* Before the claim, or the first write of a request without a key.
Early == {"idle", "read"}

\* A row in flight that holds the conversation.
Turn(row) == Live(row) /\ OpOf[row.att] = "message"

\* A row belongs to an attempt on its key that has claimed.
RowOwned(k) ==
    IF ledger[k].st = "none" THEN ledger[k].att = Nobody
    ELSE /\ ledger[k].att \in Attempt /\ KeyOf[ledger[k].att] = k
         /\ pc[ledger[k].att] \notin Early

\* A turn in flight is bound to the stored record, and its scope says so.
RowPinned(k) ==
    Turn(ledger[k]) => /\ base[ledger[k].att] = conv
                       /\ ledger[k].scope = conv.inc /\ conv.inc # 0

RowsOwned == \A k \in Key : RowOwned(k)
RowsPinned == \A k \in Key : RowPinned(k)

\* One turn is in flight.
OneTurn == \A j, k \in Key : Turn(ledger[j]) /\ Turn(ledger[k]) => j = k

\* What an attempt knows at each stage; a consumed hazard is not live again.
AttemptKnown(a) ==
    /\ pc[a] = "read" => OpOf[a] = "message" /\ base[a].inc # 0
    /\ pc[a] = "running" => OpOf[a] = "run"
    /\ run[a].st # "none" => OpOf[a] = "run" /\ pc[a] \notin Early
    /\ a \in superseded => pc[a] \notin Early /\ ~(Mine(a) /\ Live(ledger[KeyOf[a]]))

AttemptsKnown == \A a \in Attempt : AttemptKnown(a)
ConvKnown == conv.here => conv.inc # 0

\* The inductive invariant.
StoreInv ==
    /\ StoreTypes /\ RowsOwned /\ RowsPinned /\ OneTurn /\ AttemptsKnown /\ ConvKnown
    /\ LedgerFollowsRun /\ QuotasHold

-----------------------------------------------------------------------------
\* Rows and ledgers.

\* A row that at most loses: it is removed, or keeps its owner and gains neither
\* life, nor another scope, nor a body, and stays completed if it was.
WeakRow(old, new) ==
    /\ new.st = "none" => new.att = Nobody \/ (old.st = "none" /\ new.att = old.att)
    /\ new.st # "none" =>
         /\ old.st # "none" /\ new.att = old.att
         /\ Live(new) => Live(old) /\ new.scope = old.scope
         /\ new.body => old.body
         /\ old.st = "completed" => new.st = "completed"

Weak(l, m) == \A k \in Key : WeakRow(l[k], m[k])

\* A ledger that stays loses nothing.
LEMMA WeakSame ==
    ASSUME NEW l
    PROVE  Weak(l, l)
  BY DEF Weak, WeakRow

\* Losing twice is losing.
LEMMA WeakTrans ==
    ASSUME NEW l, NEW m, NEW n, Weak(l, m), Weak(m, n)
    PROVE  Weak(l, n)
  BY DEF Weak, WeakRow

\* The rows the store writes when it settles, marks, renews or removes one.
LEMMA RowForms ==
    ASSUME SqliteBounds, NEW r \in Row
    PROVE  /\ NoRow \in Row /\ WeakRow(r, NoRow) /\ NoRow.st = "none"
           /\ WeakRow(r, r)
           /\ Indeterminate(r) \in Row /\ Indeterminate(r).st = "indeterminate"
           /\ Indeterminate(r).att = r.att
           /\ Live(r) => WeakRow(r, Indeterminate(r))
           /\ Completed(r) \in Row /\ Completed(r).st = "completed"
           /\ Completed(r).att = r.att
           /\ r.st # "none" => WeakRow(r, Completed(r))
           /\ \A n \in Nat : [r EXCEPT !.lease = n] \in Row /\ WeakRow(r, [r EXCEPT !.lease = n])
  <1>1. TTL \in Nat /\ Retention \in Nat
    BY DEF SqliteBounds
  <1>2. NoRow \in Row /\ WeakRow(r, NoRow) /\ NoRow.st = "none"
    BY DEF NoRow, Row, WeakRow
  <1>3. WeakRow(r, r)
    BY DEF WeakRow
  <1>4. /\ Indeterminate(r) \in Row /\ Indeterminate(r).st = "indeterminate"
        /\ Indeterminate(r).att = r.att /\ ~Indeterminate(r).body
    BY <1>1 DEF Indeterminate, Row
  <1>5. Live(r) => WeakRow(r, Indeterminate(r))
    BY <1>4 DEF WeakRow, Live
  <1>6. /\ Completed(r) \in Row /\ Completed(r).st = "completed" /\ Completed(r).att = r.att
        /\ Completed(r).body = r.body
    BY <1>1 DEF Completed, Row
  <1>7. r.st # "none" => WeakRow(r, Completed(r))
    BY <1>6 DEF WeakRow, Live
  <1>8. ASSUME NEW n \in Nat
        PROVE  [r EXCEPT !.lease = n] \in Row /\ WeakRow(r, [r EXCEPT !.lease = n])
    BY DEF Row, WeakRow, Live
  <1> QED
    BY <1>2, <1>3, <1>4, <1>5, <1>6, <1>7, <1>8

\* A ledger in which one row loses.
LEMMA OneWeak ==
    ASSUME SqliteBounds, NEW l \in Ledger, NEW k \in Key, NEW r \in Row, WeakRow(l[k], r)
    PROVE  /\ [l EXCEPT ![k] = r] \in Ledger /\ Weak(l, [l EXCEPT ![k] = r])
           /\ [l EXCEPT ![k] = r][k] = r
  <1>1. [l EXCEPT ![k] = r] \in Ledger /\ [l EXCEPT ![k] = r][k] = r
    BY DEF Ledger
  <1>2. ASSUME NEW j \in Key PROVE WeakRow(l[j], [l EXCEPT ![k] = r][j])
    BY RowForms DEF Ledger
  <1> QED
    BY <1>1, <1>2 DEF Weak

\* A row renewed, marked or removed.
LEMMA RowWrites ==
    ASSUME SqliteBounds, NEW l \in Ledger, NEW k \in Key, NEW m,
           \/ \E n \in Nat : m = [l EXCEPT ![k] = [l[k] EXCEPT !.lease = n]]
           \/ Live(l[k]) /\ m = [l EXCEPT ![k] = Indeterminate(l[k])]
           \/ m = [l EXCEPT ![k] = NoRow]
    PROVE  m \in Ledger /\ Weak(l, m)
  <1>1. l[k] \in Row
    BY DEF Ledger
  <1>2. PICK r \in Row : WeakRow(l[k], r) /\ m = [l EXCEPT ![k] = r]
    <2>1. ASSUME NEW n \in Nat, m = [l EXCEPT ![k] = [l[k] EXCEPT !.lease = n]]
          PROVE  \E r \in Row : WeakRow(l[k], r) /\ m = [l EXCEPT ![k] = r]
      <3>1. [l[k] EXCEPT !.lease = n] \in Row /\ WeakRow(l[k], [l[k] EXCEPT !.lease = n])
        BY <1>1, RowForms
      <3> QED
        BY <2>1, <3>1
    <2>2. ASSUME Live(l[k]), m = [l EXCEPT ![k] = Indeterminate(l[k])]
          PROVE  \E r \in Row : WeakRow(l[k], r) /\ m = [l EXCEPT ![k] = r]
      <3>1. Indeterminate(l[k]) \in Row /\ WeakRow(l[k], Indeterminate(l[k]))
        BY <1>1, <2>2, RowForms
      <3> QED
        BY <2>2, <3>1
    <2>3. ASSUME m = [l EXCEPT ![k] = NoRow]
          PROVE  \E r \in Row : WeakRow(l[k], r) /\ m = [l EXCEPT ![k] = r]
      <3>1. NoRow \in Row /\ WeakRow(l[k], NoRow)
        BY <1>1, RowForms
      <3> QED
        BY <2>3, <3>1
    <2> QED
      BY <2>1, <2>2, <2>3
  <1> QED
    BY <1>2, OneWeak

\* SettleRuns completes the rows of the runs and keeps the others.
LEMMA SettleWeak ==
    ASSUME SqliteBounds, NEW l \in Ledger, NEW runs
    PROVE  /\ SettleRuns(l, runs) \in Ledger /\ Weak(l, SettleRuns(l, runs))
           /\ \A k \in Key : l[k].att \in runs /\ OpOf[l[k].att] = "run" /\ l[k].st # "none"
                                => SettleRuns(l, runs)[k].st = "completed"
  <1> DEFINE m == SettleRuns(l, runs)
  <1>1. ASSUME NEW k \in Key
        PROVE  m[k] \in Row /\ WeakRow(l[k], m[k])
    <2>1. l[k] \in Row
      BY DEF Ledger
    <2>2. m[k] = l[k] \/ (m[k] = Completed(l[k]) /\ l[k].st # "none")
      BY DEF SettleRuns
    <2> QED
      BY <2>1, <2>2, RowForms
  <1>2. m \in Ledger
    BY <1>1 DEF SettleRuns, Ledger
  <1>3. ASSUME NEW k \in Key, l[k].att \in runs, OpOf[l[k].att] = "run", l[k].st # "none"
        PROVE  m[k].st = "completed"
    <2>1. l[k] \in Row
      BY DEF Ledger
    <2>2. CASE l[k].st = "completed"
      BY <1>1, <2>2 DEF WeakRow, SettleRuns
    <2>3. CASE l[k].st # "completed"
      <3>1. m[k] = Completed(l[k])
        BY <1>3, <2>1, <2>3 DEF SettleRuns, Row
      <3> QED
        BY <2>1, <3>1, RowForms
    <2> QED
      BY <2>2, <2>3
  <1> QED
    BY <1>1, <1>2, <1>3 DEF Weak

\* MarkExpiredTurns marks turns and keeps completed rows.
LEMMA MarkWeak ==
    ASSUME SqliteBounds, NEW l \in Ledger
    PROVE  MarkExpiredTurns(l) \in Ledger /\ Weak(l, MarkExpiredTurns(l))
  <1> DEFINE m == MarkExpiredTurns(l)
  <1>1. ASSUME NEW k \in Key
        PROVE  m[k] \in Row /\ WeakRow(l[k], m[k])
    <2>1. l[k] \in Row
      BY DEF Ledger
    <2>2. m[k] = l[k] \/ (m[k] = Indeterminate(l[k]) /\ Live(l[k]))
      BY DEF MarkExpiredTurns
    <2> QED
      BY <2>1, <2>2, RowForms
  <1> QED
    BY <1>1 DEF Weak, MarkExpiredTurns, Ledger

\* Pruning removes rows.
LEMMA PrunedWeak ==
    ASSUME SqliteBounds, NEW l \in Ledger, NEW m \in Pruned(l)
    PROVE  m \in Ledger /\ Weak(l, m)
  <1>1. PICK S : m = [k \in Key |-> IF k \in S THEN NoRow ELSE l[k]]
    BY DEF Pruned
  <1>2. ASSUME NEW k \in Key PROVE m[k] \in Row /\ WeakRow(l[k], m[k])
    BY <1>1, RowForms DEF Ledger
  <1> QED
    BY <1>1, <1>2 DEF Weak, Ledger

-----------------------------------------------------------------------------
\* The limits.

\* The limits of a principal and of the store, of ledger l.
Quota(l) ==
    /\ Cardinality(Rows(l)) <= MaxRecords
    /\ Cardinality(Bodies(l)) <= MaxBodies
    /\ \A p \in Principal :
        /\ Cardinality(RowsOf(l, p)) <= MaxPerPrincipal
        /\ Cardinality(LiveOf(l, p)) <= MaxInFlight
        /\ Cardinality(Bodies(l) \cap RowsOf(l, p)) <= MaxBodiesPer

\* The sets that are counted are finite, and their limits are numbers.
LEMMA Countable ==
    ASSUME SqliteBounds, NEW S \in SUBSET Key
    PROVE  IsFiniteSet(S) /\ Cardinality(S) \in Nat
  BY FS_Subset, FS_CardinalityType DEF SqliteBounds

\* A subset is no larger.
LEMMA Fewer ==
    ASSUME SqliteBounds, NEW S \in SUBSET Key, NEW T \in SUBSET S, NEW n \in Nat,
           Cardinality(S) <= n
    PROVE  Cardinality(T) <= n
  <1>1. IsFiniteSet(S) /\ Cardinality(S) \in Nat /\ Cardinality(T) \in Nat
    BY Countable
  <1>2. Cardinality(T) <= Cardinality(S)
    BY <1>1, FS_Subset
  <1> QED
    BY <1>1, <1>2

\* One more than fewer than the limit is within it.
LEMMA OneMore ==
    ASSUME SqliteBounds, NEW S \in SUBSET Key, NEW k \in Key, NEW T \in SUBSET (S \cup {k}),
           NEW n \in Nat, Cardinality(S) < n
    PROVE  Cardinality(T) <= n
  <1>1. IsFiniteSet(S) /\ Cardinality(S) \in Nat
    BY Countable
  <1>2. Cardinality(S \cup {k}) <= n
    BY <1>1, FS_AddElement
  <1> QED
    BY <1>2, Fewer

\* A ledger that loses stays within the limits.
LEMMA WeakQuota ==
    ASSUME SqliteBounds, NEW l, NEW m, Weak(l, m), Quota(l)
    PROVE  Quota(m)
  <1>1. /\ Rows(m) \in SUBSET Rows(l) /\ Bodies(m) \in SUBSET Bodies(l)
        /\ Rows(l) \in SUBSET Key /\ Bodies(l) \in SUBSET Key
    BY DEF Weak, WeakRow, Rows, Bodies
  <1>2. ASSUME NEW p
        PROVE  /\ RowsOf(m, p) \in SUBSET RowsOf(l, p) /\ LiveOf(m, p) \in SUBSET LiveOf(l, p)
               /\ Bodies(m) \cap RowsOf(m, p) \in SUBSET (Bodies(l) \cap RowsOf(l, p))
               /\ RowsOf(l, p) \in SUBSET Key /\ LiveOf(l, p) \in SUBSET Key
               /\ Bodies(l) \cap RowsOf(l, p) \in SUBSET Key
    BY DEF Weak, WeakRow, Rows, Bodies, RowsOf, LiveOf
  <1>3. {MaxRecords, MaxPerPrincipal, MaxInFlight, MaxBodies, MaxBodiesPer} \subseteq Nat
    BY DEF SqliteBounds
  <1>4. Cardinality(Rows(m)) <= MaxRecords /\ Cardinality(Bodies(m)) <= MaxBodies
    BY <1>1, <1>3, Fewer DEF Quota
  <1>5. ASSUME NEW p \in Principal
        PROVE  /\ Cardinality(RowsOf(m, p)) <= MaxPerPrincipal
               /\ Cardinality(LiveOf(m, p)) <= MaxInFlight
               /\ Cardinality(Bodies(m) \cap RowsOf(m, p)) <= MaxBodiesPer
    BY <1>2, <1>3, Fewer DEF Quota
  <1> QED
    BY <1>4, <1>5 DEF Quota

\* A claim of attempt a inserted where the limits leave room for it.
LEMMA ClaimQuota ==
    ASSUME SqliteBounds, NEW l \in Ledger, NEW m \in Ledger, NEW a \in Attempt, NEW k \in Key,
           Quota(l), QuotaFree(a, l), l[k].st = "none",
           \A j \in Key \ {k} : WeakRow(l[j], m[j]),
           m[k].att = a, m[k].body => BodyFits(l, k, PrincipalOf[a])
    PROVE  Quota(m)
  <1> DEFINE q == PrincipalOf[a]
  <1>0. {MaxRecords, MaxPerPrincipal, MaxInFlight, MaxBodies, MaxBodiesPer} \subseteq Nat
    BY DEF SqliteBounds
  <1>1. Rows(m) \in SUBSET (Rows(l) \cup {k}) /\ Rows(l) \in SUBSET Key
    BY DEF Rows, WeakRow
  <1>2. Cardinality(Rows(m)) <= MaxRecords
    BY <1>0, <1>1, OneMore DEF QuotaFree
  <1>3. /\ Bodies(m) \in SUBSET ((Bodies(l) \ {k}) \cup {k})
        /\ ~m[k].body => Bodies(m) \in SUBSET Bodies(l)
        /\ Bodies(l) \in SUBSET Key /\ Bodies(l) \ {k} \in SUBSET Key
    BY DEF Bodies, Rows, WeakRow
  <1>4. Cardinality(Bodies(m)) <= MaxBodies
    <2>1. CASE m[k].body
      BY <1>0, <1>3, <2>1, OneMore DEF BodyFits
    <2>2. CASE ~m[k].body
      BY <1>0, <1>3, <2>2, Fewer DEF Quota
    <2> QED
      BY <2>1, <2>2
  <1>5. ASSUME NEW p
        PROVE  /\ RowsOf(m, p) \in SUBSET (RowsOf(l, p) \cup {k})
               /\ LiveOf(m, p) \in SUBSET (LiveOf(l, p) \cup {k})
               /\ p # q => /\ RowsOf(m, p) \in SUBSET RowsOf(l, p)
                           /\ LiveOf(m, p) \in SUBSET LiveOf(l, p)
               /\ RowsOf(l, p) \in SUBSET Key /\ LiveOf(l, p) \in SUBSET Key
    BY DEF RowsOf, LiveOf, Rows, WeakRow
  <1>6. ASSUME NEW p \in Principal
        PROVE  /\ Cardinality(RowsOf(m, p)) <= MaxPerPrincipal
               /\ Cardinality(LiveOf(m, p)) <= MaxInFlight
    <2>1. CASE p = q
      BY <1>0, <1>5, <2>1, OneMore DEF QuotaFree
    <2>2. CASE p # q
      BY <1>0, <1>5, <2>2, Fewer DEF Quota
    <2> QED
      BY <2>1, <2>2
  <1>7. ASSUME NEW p \in Principal
        PROVE  Cardinality(Bodies(m) \cap RowsOf(m, p)) <= MaxBodiesPer
    <2>1. /\ Bodies(m) \cap RowsOf(m, p) \in SUBSET (((Bodies(l) \ {k}) \cap RowsOf(l, p)) \cup {k})
          /\ (p # q \/ ~m[k].body) =>
                Bodies(m) \cap RowsOf(m, p) \in SUBSET (Bodies(l) \cap RowsOf(l, p))
          /\ (Bodies(l) \ {k}) \cap RowsOf(l, p) \in SUBSET Key
          /\ Bodies(l) \cap RowsOf(l, p) \in SUBSET Key
      BY DEF RowsOf, Bodies, Rows, WeakRow
    <2>2. CASE p = q /\ m[k].body
      BY <1>0, <2>1, <2>2, OneMore DEF BodyFits
    <2>3. CASE p # q \/ ~m[k].body
      BY <1>0, <2>1, <2>3, Fewer DEF Quota
    <2> QED
      BY <2>2, <2>3
  <1> QED
    BY <1>2, <1>4, <1>6, <1>7 DEF Quota

\* A turn's row that is completed and given a body where one fits.
LEMMA BodyQuota ==
    ASSUME SqliteBounds, NEW l \in Ledger, NEW m \in Ledger, NEW k \in Key, Quota(l),
           \A j \in Key \ {k} : m[j] = l[j],
           l[k].st # "none", m[k].st = "completed", m[k].att = l[k].att,
           m[k].body => BodyFits(l, k, PrincipalOf[l[k].att])
    PROVE  Quota(m)
  <1> DEFINE q == PrincipalOf[l[k].att]
  <1>0. {MaxRecords, MaxPerPrincipal, MaxInFlight, MaxBodies, MaxBodiesPer} \subseteq Nat
    BY DEF SqliteBounds
  <1>1. Rows(m) = Rows(l)
    BY DEF Rows
  <1>2. ASSUME NEW p
        PROVE  /\ RowsOf(m, p) = RowsOf(l, p) /\ LiveOf(m, p) \in SUBSET LiveOf(l, p)
               /\ LiveOf(l, p) \in SUBSET Key
    BY <1>1 DEF RowsOf, LiveOf, Live, Rows
  <1>3. /\ Bodies(m) \in SUBSET ((Bodies(l) \ {k}) \cup {k})
        /\ ~m[k].body => Bodies(m) \in SUBSET Bodies(l)
        /\ Bodies(l) \in SUBSET Key /\ Bodies(l) \ {k} \in SUBSET Key
    BY <1>1 DEF Bodies, Rows
  <1>4. Cardinality(Bodies(m)) <= MaxBodies
    <2>1. CASE m[k].body
      BY <1>0, <1>3, <2>1, OneMore DEF BodyFits
    <2>2. CASE ~m[k].body
      BY <1>0, <1>3, <2>2, Fewer DEF Quota
    <2> QED
      BY <2>1, <2>2
  <1>5. ASSUME NEW p \in Principal
        PROVE  Cardinality(Bodies(m) \cap RowsOf(m, p)) <= MaxBodiesPer
    <2>1. /\ Bodies(m) \cap RowsOf(m, p) \in SUBSET (((Bodies(l) \ {k}) \cap RowsOf(l, p)) \cup {k})
          /\ (p # q \/ ~m[k].body) =>
                Bodies(m) \cap RowsOf(m, p) \in SUBSET (Bodies(l) \cap RowsOf(l, p))
          /\ (Bodies(l) \ {k}) \cap RowsOf(l, p) \in SUBSET Key
          /\ Bodies(l) \cap RowsOf(l, p) \in SUBSET Key
      BY DEF RowsOf, Bodies, Rows
    <2>2. CASE p = q /\ m[k].body
      BY <1>0, <2>1, <2>2, OneMore DEF BodyFits
    <2>3. CASE p # q \/ ~m[k].body
      BY <1>0, <2>1, <2>3, Fewer DEF Quota
    <2> QED
      BY <2>2, <2>3
  <1>6. ASSUME NEW p \in Principal
        PROVE  /\ Cardinality(RowsOf(m, p)) <= MaxPerPrincipal
               /\ Cardinality(LiveOf(m, p)) <= MaxInFlight
    BY <1>0, <1>2, Fewer DEF Quota
  <1> QED
    BY <1>1, <1>4, <1>5, <1>6 DEF Quota

-----------------------------------------------------------------------------
\* Steps in which rows only lose.

\* How an attempt may move: not back before its claim, and keeping what it read.
Moves(a) ==
    /\ pc[a] \notin Early => pc'[a] \notin Early /\ base'[a] = base[a]
    /\ pc'[a] = "read" => OpOf[a] = "message" /\ base'[a].inc # 0
    /\ pc'[a] = "running" => OpOf[a] = "run"
    /\ run'[a].st # "none" => OpOf[a] = "run" /\ pc'[a] \notin Early

\* A run that ends completes the row of its attempt.
Follows(a) == Terminal(a)' => Terminal(a) \/ (Mine(a)' => ledger'[KeyOf[a]].st = "completed")

\* The conversation is left alone, or no turn holds it.
ConvFree == conv' = conv \/ (~Busy /\ (conv'.here => conv'.inc # 0))

LEMMA WeakKeeps ==
    ASSUME SqliteBounds, StoreInv, StoreTypes', Weak(ledger, ledger'), ConvFree,
           superseded' = superseded, \A a \in Attempt : Moves(a) /\ Follows(a)
    PROVE  StoreInv'
  <1>1. /\ \A k \in Key : WeakRow(ledger[k], ledger'[k]) /\ RowOwned(k) /\ RowPinned(k)
        /\ \A a \in Attempt : AttemptKnown(a)
    BY DEF Weak, StoreInv, RowsOwned, RowsPinned, AttemptsKnown
  <1>2. \A k \in Key : Turn(ledger'[k]) =>
            /\ Turn(ledger[k]) /\ ledger'[k].att = ledger[k].att
            /\ ledger'[k].scope = ledger[k].scope /\ ledger[k].st # "none"
    BY <1>1 DEF Turn, WeakRow, Live
  <1>3. RowsOwned'
    <2> SUFFICES ASSUME NEW k \in Key PROVE RowOwned(k)'
      BY DEF RowsOwned
    <2>1. CASE ledger'[k].st = "none"
      BY <1>1, <2>1 DEF RowOwned, WeakRow
    <2>2. CASE ledger'[k].st # "none"
      BY <1>1, <2>2 DEF RowOwned, WeakRow, Moves
    <2> QED
      BY <2>1, <2>2
  <1>4. RowsPinned'
    <2> SUFFICES ASSUME NEW k \in Key, Turn(ledger'[k])
                 PROVE  /\ base'[ledger'[k].att] = conv'
                        /\ ledger'[k].scope = conv'.inc /\ conv'.inc # 0
      BY DEF RowsPinned, RowPinned
    <2>1. Turn(ledger[k]) /\ ledger'[k].att = ledger[k].att /\ ledger'[k].scope = ledger[k].scope
      BY <1>2
    <2>2. Busy
      BY <2>1 DEF Busy, Turn
    <2>3. conv' = conv
      BY <2>2 DEF ConvFree
    <2>4. base'[ledger[k].att] = base[ledger[k].att]
      BY <1>1, <1>2 DEF RowOwned, Moves
    <2> QED
      BY <1>1, <2>1, <2>3, <2>4 DEF RowPinned
  <1>5. OneTurn'
    BY <1>2 DEF StoreInv, OneTurn
  <1>6. ASSUME NEW a \in Attempt, Mine(a)'
        PROVE  KeyOf[a] \in Key /\ Mine(a) /\ ledger'[KeyOf[a]].st # "none"
    <2>1. KeyOf[a] \in Key /\ ledger'[KeyOf[a]].att = a /\ a # Nobody
      BY <1>6 DEF Mine, SqliteBounds
    <2>2. ledger'[KeyOf[a]].st # "none"
      BY <1>3, <2>1 DEF RowsOwned, RowOwned
    <2> QED
      BY <1>1, <1>6, <2>1, <2>2 DEF Mine, WeakRow
  <1>7. AttemptsKnown'
    <2> SUFFICES ASSUME NEW a \in Attempt PROVE AttemptKnown(a)'
      BY DEF AttemptsKnown
    <2>1. AttemptKnown(a) /\ Moves(a)
      BY <1>1
    <2>2. ASSUME Mine(a)', Live(ledger'[KeyOf[a]])
          PROVE  Mine(a) /\ Live(ledger[KeyOf[a]])
      BY <1>1, <1>6, <2>2 DEF WeakRow
    <2>3. a \in superseded' => pc'[a] \notin Early /\ ~(Mine(a)' /\ Live(ledger'[KeyOf[a]]))
      BY <2>1, <2>2 DEF AttemptKnown, Moves
    <2> QED
      BY <2>1, <2>3 DEF AttemptKnown, Moves
  <1>8. ConvKnown'
    BY DEF StoreInv, ConvKnown, ConvFree
  <1>9. LedgerFollowsRun'
    <2> SUFFICES ASSUME NEW a \in Attempt, Mine(a)', Terminal(a)'
                 PROVE  ledger'[KeyOf[a]].st = "completed"
      BY DEF LedgerFollowsRun
    <2>1. KeyOf[a] \in Key /\ Mine(a) /\ ledger'[KeyOf[a]].st # "none"
      BY <1>6
    <2>2. CASE Terminal(a)
      <3>1. ledger[KeyOf[a]].st = "completed"
        BY <2>1, <2>2 DEF StoreInv, LedgerFollowsRun
      <3> QED
        BY <1>1, <2>1, <3>1 DEF WeakRow
    <2>3. CASE ~Terminal(a)
      BY <2>3 DEF Follows
    <2> QED
      BY <2>2, <2>3
  <1>10. QuotasHold'
    <2>1. Quota(ledger)
      BY DEF StoreInv, QuotasHold, Quota
    <2>2. Quota(ledger')
      BY <2>1, WeakQuota
    <2> QED
      BY <2>2 DEF QuotasHold, Quota
  <1> QED
    BY <1>3, <1>4, <1>5, <1>7, <1>8, <1>9, <1>10 DEF StoreInv

\* A step of an attempt that leaves runs, conversation and bases alone.
LEMMA LedgerKeeps ==
    ASSUME SqliteBounds, StoreInv, ledger' \in Ledger,
           Weak(ledger, ledger'), UNCHANGED <<run, conv, base, superseded>>,
           \/ pc' = pc
           \/ \E a \in Attempt, v \in PCs \ (Early \cup {"running"}) : pc' = [pc EXCEPT ![a] = v]
    PROVE  StoreInv'
  <1>1. pc' \in [Attempt -> PCs]
    BY DEF StoreInv, StoreTypes
  <1>2. StoreTypes'
    BY <1>1 DEF StoreInv, StoreTypes
  <1>3. ASSUME NEW b \in Attempt PROVE Moves(b) /\ Follows(b)
    <2>1. AttemptKnown(b)
      BY DEF StoreInv, AttemptsKnown
    <2>2. pc'[b] = pc[b] \/ pc'[b] \in PCs \ (Early \cup {"running"})
      BY DEF StoreInv, StoreTypes
    <2> QED
      BY <2>1, <2>2 DEF Moves, Follows, Terminal, AttemptKnown, Early
  <1>4. ConvFree
    BY DEF ConvFree
  <1> QED
    BY <1>2, <1>3, <1>4, WeakKeeps
-----------------------------------------------------------------------------
\* The actions.

\* Prune.
LEMMA PruneKeeps ==
    ASSUME SqliteBounds, StoreInv, Prune
    PROVE  StoreInv'
  <1>1. ledger \in Ledger
    BY DEF StoreInv, StoreTypes
  <1> QED
    BY <1>1, PrunedWeak, LedgerKeeps DEF Prune

\* ReadConversation: what is read is the stored record.
LEMMA ReadKeeps ==
    ASSUME SqliteBounds, StoreInv, NEW a \in Attempt, ReadConversation(a)
    PROVE  StoreInv'
  <1> USE DEF ReadConversation, Goto
  <1>1. StoreTypes'
    BY DEF StoreInv, StoreTypes, PCs
  <1>2. Weak(ledger, ledger') /\ ConvFree
    BY WeakSame DEF ConvFree
  <1>3. ASSUME NEW b \in Attempt PROVE Moves(b) /\ Follows(b)
    <2>1. AttemptKnown(b) /\ AttemptKnown(a)
      BY DEF StoreInv, AttemptsKnown
    <2>2. CASE b = a
      <3>1. pc'[a] = "read" /\ base'[a] = conv
        BY DEF StoreInv, StoreTypes
      <3> QED
        BY <2>1, <2>2, <3>1 DEF StoreInv, ConvKnown, Moves, Follows, AttemptKnown, Early, Terminal
    <2>3. CASE b # a
      <3>1. pc'[b] = pc[b] /\ base'[b] = base[b]
        BY <2>3 DEF StoreInv, StoreTypes
      <3> QED
        BY <2>1, <3>1 DEF Moves, Follows, AttemptKnown, Terminal
    <2> QED
      BY <2>2, <2>3
  <1> QED
    BY <1>1, <1>2, <1>3, WeakKeeps

\* A message's heartbeat, its mark and the release of a claim.
LEMMA HeartbeatKeeps ==
    ASSUME SqliteBounds, StoreInv, NEW a \in Attempt,
           HeartbeatIdempotency(a) \/ MarkIndeterminate(a) \/ Release(a)
    PROVE  StoreInv'
  <1> DEFINE k == KeyOf[a]
  <1> USE DEF Goto
  <1>1. ledger \in Ledger /\ TTL \in Nat
    BY DEF StoreInv, StoreTypes, SqliteBounds
  <1>2. Mine(a) => k \in Key /\ ledger[k] \in Row
    BY <1>1 DEF Mine, SqliteBounds, Ledger
  <1>3. \/ ledger' = ledger
        \/ Mine(a) /\ ledger' = [ledger EXCEPT ![k] = [ledger[k] EXCEPT !.lease = TTL]]
        \/ Mine(a) /\ Live(ledger[k]) /\ ledger' = [ledger EXCEPT ![k] = Indeterminate(ledger[k])]
        \/ Mine(a) /\ ledger' = [ledger EXCEPT ![k] = NoRow]
    BY <1>1, <1>2 DEF HeartbeatIdempotency, MarkIndeterminate, Release
  <1>4. ledger' \in Ledger /\ Weak(ledger, ledger')
    BY <1>1, <1>2, <1>3, WeakSame, RowWrites
  <1>5. pc' = pc \/ pc' = [pc EXCEPT ![a] = "fenced"] \/ pc' = [pc EXCEPT ![a] = "done"]
    BY DEF HeartbeatIdempotency, MarkIndeterminate, Release
  <1>6. "fenced" \in PCs \ (Early \cup {"running"}) /\ "done" \in PCs \ (Early \cup {"running"})
    BY DEF PCs, Early
  <1>7. UNCHANGED <<run, conv, base, superseded>>
    BY DEF HeartbeatIdempotency, MarkIndeterminate, Release
  <1> QED
    BY <1>4, <1>5, <1>6, <1>7, LedgerKeeps

\* A step that moves attempt a and its run.
LEMMA RunKeeps ==
    ASSUME SqliteBounds, StoreInv, NEW a \in Attempt, ledger' \in Ledger, Weak(ledger, ledger'),
           UNCHANGED <<conv, base, superseded>>,
           run' \in [Attempt -> Run], pc' \in [Attempt -> PCs],
           \A b \in Attempt \ {a} : run'[b].st = run[b].st /\ pc'[b] = pc[b],
           pc'[a] \notin Early, pc'[a] = "running" \/ run'[a].st # "none" => OpOf[a] = "run",
           Follows(a)
    PROVE  StoreInv'
  <1>1. StoreTypes' /\ ConvFree
    BY DEF StoreInv, StoreTypes, ConvFree
  <1>2. ASSUME NEW b \in Attempt PROVE Moves(b) /\ Follows(b)
    <2>1. AttemptKnown(b)
      BY DEF StoreInv, AttemptsKnown
    <2>2. CASE b = a
      BY <2>2 DEF Moves, Early
    <2>3. CASE b # a
      BY <2>1, <2>3 DEF Moves, Follows, AttemptKnown, Terminal
    <2> QED
      BY <2>2, <2>3
  <1> QED
    BY <1>1, <1>2, WeakKeeps

\* The heartbeat of a run renews both leases or none.
LEMMA HeartbeatRunKeeps ==
    ASSUME SqliteBounds, StoreInv, NEW a \in Attempt, HeartbeatRun(a)
    PROVE  StoreInv'
  <1> DEFINE k == KeyOf[a]
  <1> USE DEF HeartbeatRun, Goto
  <1>1. ledger \in Ledger /\ TTL \in Nat /\ k \in Key /\ ledger[k] \in Row
    BY DEF StoreInv, StoreTypes, SqliteBounds, Ledger
  <1>2. ledger' = ledger \/ ledger' = [ledger EXCEPT ![k] = [ledger[k] EXCEPT !.lease = TTL]]
    BY <1>1
  <1>3. ledger' \in Ledger /\ Weak(ledger, ledger')
    BY <1>1, <1>2, WeakSame, RowWrites
  <1>4. /\ run' \in [Attempt -> Run] /\ \A b \in Attempt : run'[b].st = run[b].st
        /\ pc' \in [Attempt -> PCs] /\ \A b \in Attempt \ {a} : pc'[b] = pc[b]
        /\ pc'[a] \in {pc[a], "fenced"}
    <2>1. run' = run \/ run' = [run EXCEPT ![a].lease = TTL]
      OBVIOUS
    <2>2. run \in [Attempt -> Run] /\ pc \in [Attempt -> PCs]
      BY DEF StoreInv, StoreTypes
    <2>3. run' \in [Attempt -> Run] /\ \A b \in Attempt : run'[b].st = run[b].st
      BY <1>1, <2>1, <2>2 DEF Run
    <2>4. pc' = pc \/ pc' = [pc EXCEPT ![a] = "fenced"]
      OBVIOUS
    <2> QED
      BY <2>2, <2>3, <2>4 DEF PCs
  <1>5. pc'[a] \notin Early /\ OpOf[a] = "run"
    BY <1>4 DEF Working, Early
  <1>6. Follows(a)
    BY <1>4 DEF Follows, Terminal
  <1> QED
    BY <1>3, <1>4, <1>5, <1>6, RunKeeps

\* save_run_intent: the owner's claim becomes running with its record.
LEMMA IntentKeeps ==
    ASSUME SqliteBounds, StoreInv, NEW a \in Attempt, SaveRunIntent(a)
    PROVE  StoreInv'
  <1> USE DEF SaveRunIntent, Goto
  <1>1. ledger \in Ledger /\ TTL \in Nat /\ run \in [Attempt -> Run] /\ pc \in [Attempt -> PCs]
    BY DEF StoreInv, StoreTypes, SqliteBounds
  <1>2. ASSUME NEW r \in Row, r.st = "claimed"
        PROVE  /\ [r EXCEPT !.st = "running", !.lease = TTL] \in Row
               /\ WeakRow(r, [r EXCEPT !.st = "running", !.lease = TTL])
    BY <1>1, <1>2 DEF Row, WeakRow, Live
  <1>3. ledger' \in Ledger /\ Weak(ledger, ledger')
    <2>1. CASE ledger' = ledger
      BY <1>1, <2>1, WeakSame
    <2>2. CASE ledger' = [k \in Key |-> IF ledger[k].att = a /\ ledger[k].st = "claimed"
                                      THEN [ledger[k] EXCEPT !.st = "running", !.lease = TTL]
                                      ELSE ledger[k]]
      <3>1. ASSUME NEW k \in Key PROVE ledger'[k] \in Row /\ WeakRow(ledger[k], ledger'[k])
        BY <1>1, <1>2, <2>2, RowForms DEF Ledger
      <3> QED
        BY <2>2, <3>1 DEF Ledger, Weak
    <2> QED
      BY <2>1, <2>2
  <1>4. /\ run' \in [Attempt -> Run] /\ \A b \in Attempt \ {a} : run'[b] = run[b]
        /\ run'[a].st \in {"running", run[a].st}
    <2> DEFINE fresh == [st |-> "running", lease |-> TTL]
    <2>1. run' = run \/ run' = [run EXCEPT ![a] = fresh]
      OBVIOUS
    <2>2. fresh \in Run /\ fresh.st = "running"
      BY <1>1 DEF Run
    <2> HIDE DEF fresh, Goto, SaveRunIntent
    <2> QED
      BY <1>1, <2>1, <2>2
  <1>5. /\ pc' \in [Attempt -> PCs] /\ \A b \in Attempt \ {a} : pc'[b] = pc[b]
        /\ pc'[a] \in {"running", "refused"}
    BY <1>1 DEF PCs
  <1>6. Follows(a)
    BY <1>4 DEF Follows, Terminal
  <1> QED
    BY <1>3, <1>4, <1>5, <1>6, RunKeeps DEF Early

\* The crew's own save_run_intent renews.
LEMMA HydrateKeeps ==
    ASSUME SqliteBounds, StoreInv, NEW a \in Attempt, HydrateIntent(a)
    PROVE  StoreInv'
  <1> DEFINE k == KeyOf[a]
             n == IF ledger[k].lease = 0 /\ Settled(ledger[k]) THEN 0 ELSE TTL
  <1> USE DEF HydrateIntent
  <1>1. ledger \in Ledger /\ TTL \in Nat /\ run \in [Attempt -> Run] /\ pc \in [Attempt -> PCs]
    BY DEF StoreInv, StoreTypes, SqliteBounds
  <1>2. k \in Key /\ ledger[k] \in Row /\ n \in Nat
    BY <1>1 DEF SqliteBounds, Ledger
  <1>3. ledger' = [ledger EXCEPT ![k] = [ledger[k] EXCEPT !.lease = n]]
    BY <1>1, <1>2 DEF Ledger
  <1> HIDE DEF n
  <1>4. ledger' \in Ledger /\ Weak(ledger, ledger')
    BY <1>1, <1>2, <1>3, RowWrites
  <1>5. run' \in [Attempt -> Run] /\ \A b \in Attempt : run'[b].st = run[b].st
    BY <1>1 DEF Run
  <1>6. OpOf[a] = "run"
    BY DEF StoreInv, AttemptsKnown, AttemptKnown
  <1>7. Follows(a)
    BY <1>5 DEF Follows, Terminal
  <1> QED
    BY <1>1, <1>4, <1>5, <1>6, <1>7, RunKeeps DEF Early
\* What a run that ends leaves of its row is completed.
LEMMA SettledCompletes ==
    ASSUME SqliteBounds, StoreInv, NEW a \in Attempt, NEW runs, a \in runs, OpOf[a] = "run",
           NEW m, Weak(SettleRuns(ledger, runs), m), KeyOf[a] \in Key, m[KeyOf[a]].att = a
    PROVE  m[KeyOf[a]].st = "completed"
  <1> DEFINE k == KeyOf[a]
             l == SettleRuns(ledger, runs)
  <1>1. ledger \in Ledger
    BY DEF StoreInv, StoreTypes
  <1>2. /\ WeakRow(ledger[k], l[k]) /\ WeakRow(l[k], m[k]) /\ RowOwned(k) /\ a # Nobody
        /\ ledger[k].att \in runs /\ OpOf[ledger[k].att] = "run" /\ ledger[k].st # "none"
              => l[k].st = "completed"
    BY <1>1, SettleWeak DEF Weak, StoreInv, RowsOwned, SqliteBounds
  <1> HIDE DEF k, l
  <1>3. l[k].att = a /\ l[k].st # "none" /\ m[k].st # "none"
    BY <1>2 DEF WeakRow, RowOwned, k
  <1>4. ledger[k].att = a /\ ledger[k].st # "none"
    BY <1>2, <1>3 DEF WeakRow
  <1> QED
    BY <1>2, <1>3, <1>4 DEF WeakRow, k

\* update_run_completion: the run ends once, and its row with it.
LEMMA CompletionKeeps ==
    ASSUME SqliteBounds, StoreInv, NEW a \in Attempt, UpdateRunCompletion(a)
    PROVE  StoreInv'
  <1> USE DEF UpdateRunCompletion, Goto
  <1>1. ledger \in Ledger /\ run \in [Attempt -> Run] /\ pc \in [Attempt -> PCs]
    BY DEF StoreInv, StoreTypes
  <1>2. OpOf[a] = "run"
    BY DEF StoreInv, AttemptsKnown, AttemptKnown
  <1>3. ledger' = SettleRuns(ledger, {a}) \/ (ledger' = ledger /\ run' = run)
    OBVIOUS
  <1>4. ledger' \in Ledger /\ Weak(ledger, ledger')
    BY <1>1, <1>3, SettleWeak, WeakSame
  <1>5. run' \in [Attempt -> Run] /\ \A b \in Attempt \ {a} : run'[b] = run[b]
    <2> DEFINE over == [st |-> "finished", lease |-> 0]
    <2>1. run' = run \/ run' = [run EXCEPT ![a] = over]
      OBVIOUS
    <2>2. over \in Run
      BY DEF Run
    <2> HIDE DEF over, UpdateRunCompletion
    <2> QED
      BY <1>1, <2>1, <2>2
  <1>6. /\ pc' \in [Attempt -> PCs] /\ pc'[a] = "done"
        /\ \A b \in Attempt \ {a} : pc'[b] = pc[b]
    BY <1>1 DEF PCs
  <1>7. Follows(a)
    <2>1. CASE ledger' = SettleRuns(ledger, {a})
      <3>1. ASSUME Mine(a)' PROVE ledger'[KeyOf[a]].st = "completed"
        <4>1. KeyOf[a] \in Key /\ ledger'[KeyOf[a]].att = a
          BY <3>1 DEF Mine, SqliteBounds
        <4>2. Weak(SettleRuns(ledger, {a}), ledger')
          BY <2>1, WeakSame
        <4> QED
          BY <1>2, <4>1, <4>2, SettledCompletes
      <3> QED
        BY <3>1 DEF Follows
    <2>2. CASE run' = run
      BY <2>2 DEF Follows, Terminal
    <2> QED
      BY <1>3, <2>1, <2>2
  <1> QED
    BY <1>2, <1>4, <1>5, <1>6, <1>7, RunKeeps DEF Early

\* Saves, starts and deletes find no turn in flight.
LEMMA ConversationKeeps ==
    ASSUME SqliteBounds, StoreInv, SaveConversation \/ StartConversation \/ DeleteConversation
    PROVE  StoreInv'
  <1> USE DEF SaveConversation, StartConversation, DeleteConversation
  <1>1. conv \in Record
    BY DEF StoreInv, StoreTypes
  <1>2. conv' \in Record /\ (conv'.here => conv'.inc # 0)
    <2>1. CASE SaveConversation
      BY <1>1, <2>1 DEF Record, StoreInv, ConvKnown
    <2>2. CASE StartConversation
      BY <1>1, <2>2 DEF Record
    <2>3. CASE DeleteConversation
      BY <1>1, <2>3 DEF Record
    <2> QED
      BY <2>1, <2>2, <2>3
  <1>3. StoreTypes' /\ ConvFree
    BY <1>2 DEF StoreInv, StoreTypes, ConvFree
  <1>4. Weak(ledger, ledger')
    BY WeakSame
  <1>5. ASSUME NEW b \in Attempt PROVE Moves(b) /\ Follows(b)
    BY DEF StoreInv, AttemptsKnown, AttemptKnown, Moves, Follows, Terminal
  <1> QED
    BY <1>3, <1>4, <1>5, WeakKeeps

\* reconcile_abandoned_runs ends runs with their rows.
LEMMA ReconcileKeeps ==
    ASSUME SqliteBounds, StoreInv, Reconcile
    PROVE  StoreInv'
  <1> DEFINE over == {r \in Attempt : Terminal(r)} \cup Orphans \cup Lapsed
             mid == SettleRuns(ledger, over)
  <1> USE DEF Reconcile
  <1>1. ledger \in Ledger /\ run \in [Attempt -> Run]
    BY DEF StoreInv, StoreTypes
  <1>2. mid \in Ledger /\ Weak(ledger, mid)
    BY <1>1, SettleWeak
  <1>3. ledger' = MarkExpiredTurns(mid)
    OBVIOUS
  <1>4. ledger' \in Ledger /\ Weak(mid, ledger')
    <2> HIDE DEF mid
    <2> QED
      BY <1>2, <1>3, MarkWeak
  <1>5. Weak(ledger, ledger')
    BY <1>2, <1>4, WeakTrans
  <1>6. /\ run' \in [Attempt -> Run]
        /\ \A r \in Attempt \ (Orphans \cup Lapsed) : run'[r] = run[r]
    <2> DEFINE gone == [st |-> "abandoned", lease |-> 0]
    <2>1. run' = [r \in Attempt |-> IF r \in Orphans \cup Lapsed THEN gone ELSE run[r]]
      OBVIOUS
    <2>2. gone \in Run
      BY DEF Run
    <2> HIDE DEF gone, Reconcile
    <2> QED
      BY <1>1, <2>1, <2>2
  <1>7. ASSUME NEW b \in Attempt, b \in Orphans \cup Lapsed
        PROVE  OpOf[b] = "run" /\ pc[b] \notin Early /\ b \in over
    <2>1. CASE b \in Lapsed
      BY <2>1 DEF Lapsed, InFlight, StoreInv, AttemptsKnown, AttemptKnown
    <2>2. CASE b \in Orphans
      <3>1. Mine(b) /\ OpOf[b] = "run" /\ KeyOf[b] \in Key
        BY <2>2 DEF Orphans, Mine, SqliteBounds
      <3>2. RowOwned(KeyOf[b]) /\ b # Nobody
        BY <3>1 DEF StoreInv, RowsOwned, SqliteBounds
      <3> QED
        BY <2>2, <3>1, <3>2 DEF RowOwned, Mine
    <2> QED
      BY <1>7, <2>1, <2>2
  <1>8. ASSUME NEW b \in Attempt PROVE Moves(b) /\ Follows(b)
    <2>1. AttemptKnown(b) /\ UNCHANGED <<pc, base>>
      BY DEF StoreInv, AttemptsKnown
    <2>2. CASE b \notin Orphans \cup Lapsed
      BY <1>6, <2>1, <2>2 DEF Moves, Follows, Terminal, AttemptKnown
    <2>3. CASE b \in Orphans \cup Lapsed
      <3>1. Moves(b)
        BY <1>7, <2>1, <2>3 DEF Moves, AttemptKnown, Early
      <3>2. ASSUME Mine(b)' PROVE ledger'[KeyOf[b]].st = "completed"
        <4>1. KeyOf[b] \in Key /\ ledger'[KeyOf[b]].att = b
          BY <3>2 DEF Mine, SqliteBounds
        <4>2. OpOf[b] = "run" /\ b \in over
          BY <1>7, <2>3
        <4> HIDE DEF over
        <4> QED
          BY <1>4, <4>1, <4>2, SettledCompletes
      <3> QED
        BY <3>1, <3>2 DEF Follows
    <2> QED
      BY <2>2, <2>3
  <1>9. StoreTypes' /\ ConvFree
    BY <1>4, <1>6 DEF StoreInv, StoreTypes, ConvFree
  <1> QED
    BY <1>5, <1>8, <1>9, WeakKeeps

\* The bulk heartbeat, the deletion of a run and the restart of a process.
LEMMA InstanceKeeps ==
    ASSUME SqliteBounds, StoreInv,
           \/ \E i \in Instance : HeartbeatOwned(i) \/ Restart(i)
           \/ \E r \in Attempt : DeleteRun(r)
    PROVE  StoreInv'
  <1> USE DEF HeartbeatOwned, Restart, DeleteRun
  <1>1. run \in [Attempt -> Run] /\ pc \in [Attempt -> PCs] /\ TTL \in Nat
    BY DEF StoreInv, StoreTypes, SqliteBounds
  <1>2. run' \in [Attempt -> Run] /\ \A b \in Attempt : run'[b].st \in {"none", run[b].st}
    <2>1. CASE \E i \in Instance : HeartbeatOwned(i)
      BY <1>1, <2>1 DEF Run
    <2>2. CASE \E i \in Instance : Restart(i)
      BY <1>1, <2>2
    <2>3. CASE \E r \in Attempt : DeleteRun(r)
      <3>1. NoRun \in Run /\ NoRun.st = "none"
        BY DEF NoRun, Run
      <3> QED
        BY <1>1, <2>3, <3>1
    <2> QED
      BY <2>1, <2>2, <2>3
  <1>3. pc' \in [Attempt -> PCs] /\ \A b \in Attempt : pc'[b] \in {"dead", pc[b]}
    BY <1>1 DEF PCs
  <1>4. UNCHANGED <<ledger, conv, base, superseded>>
    OBVIOUS
  <1>5. StoreTypes' /\ ConvFree /\ Weak(ledger, ledger')
    BY <1>2, <1>3, <1>4, WeakSame DEF StoreInv, StoreTypes, ConvFree
  <1>6. ASSUME NEW b \in Attempt PROVE Moves(b) /\ Follows(b)
    <2>1. AttemptKnown(b)
      BY DEF StoreInv, AttemptsKnown
    <2> QED
      BY <1>2, <1>3, <1>4, <2>1 DEF AttemptKnown, Moves, Follows, Terminal, Early
  <1> QED
    BY <1>4, <1>5, <1>6, WeakKeeps

\* Time passes.
LEMMA TickKeeps ==
    ASSUME SqliteBounds, StoreInv, Tick
    PROVE  StoreInv'
  <1>1. ledger \in Ledger /\ run \in [Attempt -> Run]
    BY DEF StoreInv, StoreTypes
  <1>2. \A n \in Nat : Less(n) \in Nat
    BY DEF Less
  <1>3. ASSUME NEW k \in Key PROVE ledger'[k] \in Row /\ WeakRow(ledger[k], ledger'[k])
    <2> DEFINE r == ledger[k]
    <2>1. r \in Row
      BY <1>1 DEF Ledger
    <2>2. ledger'[k] = [r EXCEPT !.lease = Less(@), !.grace = Less(@), !.exp = Less(@)]
      BY DEF Tick
    <2> HIDE DEF r
    <2>3. /\ ledger'[k] \in Row /\ ledger'[k].st = r.st /\ ledger'[k].att = r.att
          /\ ledger'[k].body = r.body /\ ledger'[k].scope = r.scope
      BY <1>2, <2>1, <2>2 DEF Row
    <2> QED
      BY <2>3 DEF WeakRow, Live, r
  <1>4. ledger' \in Ledger /\ Weak(ledger, ledger')
    BY <1>3 DEF Tick, Ledger, Weak
  <1>5. run' \in [Attempt -> Run] /\ \A b \in Attempt : run'[b].st = run[b].st
    BY <1>1, <1>2 DEF Tick, Run
  <1>6. StoreTypes' /\ ConvFree
    BY <1>4, <1>5 DEF Tick, StoreInv, StoreTypes, ConvFree
  <1>7. ASSUME NEW b \in Attempt PROVE Moves(b) /\ Follows(b)
    BY <1>5 DEF Tick, StoreInv, AttemptsKnown, AttemptKnown, Moves, Follows, Terminal
  <1> QED
    BY <1>4, <1>6, <1>7, WeakKeeps DEF Tick
\* commit_conversation_idempotency_with_limits: the one turn in flight lands.
LEMMA CommitKeeps ==
    ASSUME SqliteBounds, StoreInv, NEW a \in Attempt, CommitConversation(a)
    PROVE  StoreInv'
  <1> DEFINE k == KeyOf[a]
             row == [Completed(ledger[k]) EXCEPT !.body = BodyFits(ledger, k, PrincipalOf[a])]
  <1> USE DEF CommitConversation, Goto
  <1>0. ledger \in Ledger /\ conv \in Record /\ pc \in [Attempt -> PCs]
    BY DEF StoreInv, StoreTypes
  <1>1. CASE ~Committable(a)
    <2>1. "done" \in PCs \ (Early \cup {"running"})
      BY DEF PCs, Early
    <2> QED
      BY <1>0, <1>1, <2>1, WeakSame, LedgerKeeps
  <1>2. CASE Committable(a)
    <2>1. /\ k \in Key /\ ledger[k] \in Row /\ ledger[k].att = a /\ Live(ledger[k])
          /\ OpOf[a] = "message" /\ UNCHANGED <<run, base, superseded>>
      BY <1>0, <1>2 DEF Committable, Mine, SqliteBounds, Ledger
    <2>2. /\ conv' = [conv EXCEPT !.rev = @ + 1] /\ ledger' = [ledger EXCEPT ![k] = row]
          /\ pc' = [pc EXCEPT ![a] = "done"]
      BY <1>2
    <2>3. row \in Row /\ row.st = "completed" /\ row.att = a
          /\ row.body = BodyFits(ledger, k, PrincipalOf[a])
      <3>1. Completed(ledger[k]) \in Row /\ Completed(ledger[k]).st = "completed"
            /\ Completed(ledger[k]).att = a
        BY <2>1, RowForms
      <3>2. BodyFits(ledger, k, PrincipalOf[a]) \in BOOLEAN
        BY DEF BodyFits
      <3> QED
        BY <3>1, <3>2 DEF Row
    <2> HIDE DEF row
    <2>4. ledger' \in Ledger /\ ledger'[k] = row /\ \A j \in Key \ {k} : ledger'[j] = ledger[j]
      BY <1>0, <2>1, <2>2, <2>3 DEF Ledger
    <2>5. conv' \in Record /\ conv'.inc = conv.inc /\ conv'.here = conv.here
      BY <1>0, <2>2 DEF Record
    <2>6. pc' \in [Attempt -> PCs] /\ pc'[a] = "done" /\ \A b \in Attempt \ {a} : pc'[b] = pc[b]
      BY <1>0, <2>2 DEF PCs
    <2>7. StoreTypes' /\ ConvKnown'
      BY <2>1, <2>4, <2>5, <2>6 DEF StoreInv, StoreTypes, ConvKnown
    <2>8. RowsOwned'
      BY <2>1, <2>3, <2>4, <2>6 DEF StoreInv, RowsOwned, RowOwned, Early
    <2>9. \A j \in Key : ~Turn(ledger'[j])
      BY <2>1, <2>3, <2>4 DEF StoreInv, OneTurn, Turn, Live
    <2>10. RowsPinned' /\ OneTurn'
      BY <2>9 DEF RowsPinned, RowPinned, OneTurn, Turn
    <2>11. ASSUME NEW b \in Attempt, Mine(b)'
           PROVE  /\ KeyOf[b] \in Key /\ Mine(b)
                  /\ ledger'[KeyOf[b]] = ledger[KeyOf[b]] \/ ledger'[KeyOf[b]].st = "completed"
      BY <2>1, <2>3, <2>4, <2>11 DEF Mine, SqliteBounds
    <2>12. AttemptsKnown'
      <3> SUFFICES ASSUME NEW b \in Attempt PROVE AttemptKnown(b)'
        BY DEF AttemptsKnown
      <3>1. AttemptKnown(b)
        BY DEF StoreInv, AttemptsKnown
      <3>2. b \in superseded => pc'[b] \notin Early /\ ~(Mine(b)' /\ Live(ledger'[KeyOf[b]]))
        BY <2>6, <2>11, <3>1 DEF AttemptKnown, Early, Live
      <3>3. /\ pc'[b] = "read" => OpOf[b] = "message" /\ base[b].inc # 0
            /\ pc'[b] = "running" => OpOf[b] = "run"
            /\ run[b].st # "none" => OpOf[b] = "run" /\ pc'[b] \notin Early
        BY <2>6, <3>1 DEF AttemptKnown, Early
      <3> QED
        BY <2>1, <3>2, <3>3 DEF AttemptKnown
    <2>13. LedgerFollowsRun'
      BY <2>1, <2>11 DEF StoreInv, LedgerFollowsRun, Terminal
    <2>14. QuotasHold'
      <3>1. Quota(ledger)
        BY DEF StoreInv, QuotasHold, Quota
      <3>2. Quota(ledger')
        <4>1. /\ ledger[k].st # "none"
              /\ ledger'[k].body => BodyFits(ledger, k, PrincipalOf[ledger[k].att])
          BY <2>1, <2>3, <2>4 DEF Live
        <4> QED
          BY <1>0, <2>1, <2>3, <2>4, <3>1, <4>1, BodyQuota
      <3> QED
        BY <3>2 DEF QuotasHold, Quota
    <2> QED
      BY <2>7, <2>8, <2>10, <2>12, <2>13, <2>14 DEF StoreInv
  <1> QED
    BY <1>1, <1>2
\* The claim of attempt a is inserted: its scope is free, what it read is current,
\* and there is room for it.
LEMMA InsertKeeps ==
    ASSUME SqliteBounds, StoreInv, NEW a \in Attempt, NEW l \in Ledger, Weak(ledger, l),
           KeyOf[a] \in Key, l[KeyOf[a]].st = "none",
           pc[a] = IF OpOf[a] = "message" THEN "read" ELSE "idle",
           InsertClaim(a, l, KeyOf[a]), UNCHANGED <<run, base>>
    PROVE  StoreInv'
  <1> DEFINE k == KeyOf[a]
             hazards == IF ScopeOf(a) = 0 THEN {} ELSE HazardsIn(l, ScopeOf(a))
             loose == [h \in Key |-> IF h \in hazards THEN [l[h] EXCEPT !.scope = 0] ELSE l[h]]
             fit == OpOf[a] = "run" /\ BodyFits(l, k, PrincipalOf[a])
             row == [NoRow EXCEPT !.st = "claimed", !.att = a, !.lease = TTL,
                                  !.scope = ScopeOf(a), !.body = fit]
  <1>1. /\ ScopeFree(a, l) /\ BaseCurrent(a) /\ QuotaFree(a, l)
        /\ ledger' = [loose EXCEPT ![k] = row]
        /\ superseded' = superseded \cup {l[h].att : h \in hazards}
        /\ pc' = [pc EXCEPT ![a] = "claimed"] /\ conv' = conv
    BY DEF InsertClaim, Goto
  <1>2. /\ base \in [Attempt -> Record] /\ pc \in [Attempt -> PCs] /\ TTL \in Nat
        /\ \A b \in Attempt : AttemptKnown(b)
        /\ \A j \in Key : WeakRow(ledger[j], l[j]) /\ RowOwned(j) /\ RowPinned(j) /\ l[j] \in Row
        /\ a # Nobody /\ Nobody \notin Attempt
    BY DEF StoreInv, StoreTypes, AttemptsKnown, RowsOwned, RowsPinned, Weak, SqliteBounds, Ledger
  <1>3. /\ ScopeOf(a) \in Nat
        /\ OpOf[a] = "message" => ScopeOf(a) = conv.inc /\ conv.inc # 0 /\ base[a] = conv
    BY <1>1, <1>2 DEF ScopeOf, Record, BaseCurrent, AttemptKnown
  <1>4. row \in Row /\ row.st = "claimed" /\ row.att = a /\ row.scope = ScopeOf(a) /\ row.body = fit
    <2>1. fit \in BOOLEAN
      BY DEF BodyFits
    <2> HIDE DEF fit
    <2> QED
      BY <1>2, <1>3, <2>1 DEF NoRow, Row
  <1>5. ASSUME NEW h \in Key
        PROVE  loose[h] \in Row /\ WeakRow(l[h], loose[h]) /\ loose[h].st = l[h].st
    <2>1. CASE h \in hazards
      <3>1. loose[h] = [l[h] EXCEPT !.scope = 0] /\ l[h].st = "indeterminate" /\ l[h] \in Row
        BY <1>2, <2>1 DEF HazardsIn
      <3> HIDE DEF loose, hazards
      <3>2. /\ loose[h] \in Row /\ loose[h].st = l[h].st /\ loose[h].att = l[h].att
            /\ loose[h].body = l[h].body
        BY <3>1 DEF Row
      <3> QED
        BY <3>1, <3>2 DEF WeakRow, Live
    <2>2. CASE h \notin hazards
      BY <1>2, <2>2 DEF WeakRow
    <2> QED
      BY <2>1, <2>2
  <1>6. loose \in Ledger
    BY <1>5 DEF Ledger
  <1>7. \A h \in hazards : h \in Key /\ l[h].st = "indeterminate"
    BY DEF HazardsIn
  <1> HIDE DEF loose, row, fit, hazards
  <1>8. /\ ledger' \in Ledger /\ ledger'[k] = row
        /\ \A j \in Key \ {k} : ledger'[j] = loose[j]
    BY <1>1, <1>4, <1>6 DEF Ledger
  <1>9. \A j \in Key \ {k} : WeakRow(ledger[j], ledger'[j]) /\ WeakRow(l[j], ledger'[j])
    BY <1>2, <1>5, <1>8 DEF WeakRow
  <1>10. /\ pc' \in [Attempt -> PCs] /\ pc'[a] = "claimed"
         /\ \A b \in Attempt \ {a} : pc'[b] = pc[b]
    BY <1>1, <1>2 DEF PCs
  <1>11. pc[a] \in Early
    BY DEF Early
  <1>12. \A j \in Key : ledger[j].st # "none" => ledger[j].att \in Attempt \ {a}
    BY <1>2, <1>11 DEF RowOwned
  <1>13. \A h \in hazards : /\ ledger[h].st # "none" /\ l[h].att = ledger[h].att /\ h # k
                            /\ l[h].att \in Attempt \ {a} /\ KeyOf[l[h].att] = h
                            /\ pc[l[h].att] \notin Early
    BY <1>2, <1>7, <1>12 DEF WeakRow, RowOwned
  <1>14. StoreTypes' /\ ConvKnown'
    <2>1. superseded' \subseteq Attempt
      BY <1>1, <1>13 DEF StoreInv, StoreTypes
    <2> QED
      BY <1>1, <1>8, <1>10, <2>1 DEF StoreInv, StoreTypes, ConvKnown
  <1>15. RowsOwned'
    <2> SUFFICES ASSUME NEW j \in Key PROVE RowOwned(j)'
      BY DEF RowsOwned
    <2>1. CASE j = k
      BY <1>4, <1>8, <1>10, <2>1 DEF RowOwned, Early
    <2>2. CASE j # k
      <3>1. RowOwned(j) /\ WeakRow(ledger[j], ledger'[j])
        BY <1>2, <1>9, <2>2
      <3> QED
        BY <1>10, <1>12, <3>1 DEF RowOwned, WeakRow
    <2> QED
      BY <2>1, <2>2
  <1>16. \A j \in Key \ {k} : Turn(ledger'[j]) =>
             /\ Turn(ledger[j]) /\ ledger'[j].att = ledger[j].att
             /\ ledger'[j].scope = ledger[j].scope
             /\ Live(l[j]) /\ l[j].scope = ledger[j].scope
    BY <1>2, <1>9 DEF Turn, WeakRow, Live
  <1>17. RowsPinned'
    <2> SUFFICES ASSUME NEW j \in Key PROVE RowPinned(j)'
      BY DEF RowsPinned
    <2>1. CASE j = k
      BY <1>1, <1>3, <1>4, <1>8, <2>1 DEF RowPinned, Turn
    <2>2. CASE j # k
      BY <1>1, <1>2, <1>16, <2>2 DEF RowPinned
    <2> QED
      BY <2>1, <2>2
  <1>18. OneTurn'
    <2>1. ASSUME NEW j \in Key \ {k}, Turn(ledger'[j]), Turn(ledger'[k]) PROVE FALSE
      <3>1. ledger[j].scope = conv.inc /\ Live(l[j]) /\ l[j].scope = ledger[j].scope
        BY <1>2, <1>16, <2>1 DEF RowPinned
      <3>2. ScopeOf(a) = conv.inc /\ ScopeOf(a) # 0
        BY <1>3, <1>4, <1>8, <2>1 DEF Turn
      <3>3. j \in ActiveIn(l, ScopeOf(a))
        BY <3>1, <3>2 DEF ActiveIn
      <3> QED
        BY <1>1, <3>2, <3>3 DEF ScopeFree
    <2>2. \A i, j \in Key \ {k} : Turn(ledger'[i]) /\ Turn(ledger'[j]) => i = j
      BY <1>16 DEF StoreInv, OneTurn
    <2> QED
      BY <2>1, <2>2 DEF OneTurn
  <1>19. ASSUME NEW b \in Attempt \ {a}, Mine(b)'
         PROVE  /\ KeyOf[b] \in Key \ {k} /\ Mine(b)
                /\ WeakRow(ledger[KeyOf[b]], ledger'[KeyOf[b]]) /\ ledger'[KeyOf[b]].st # "none"
    <2>1. KeyOf[b] \in Key \ {k} /\ ledger'[KeyOf[b]].att = b
      BY <1>4, <1>8, <1>19 DEF Mine, SqliteBounds
    <2>2. ledger'[KeyOf[b]].st # "none"
      BY <1>2, <1>15, <2>1 DEF RowsOwned, RowOwned
    <2> QED
      BY <1>9, <1>19, <2>1, <2>2 DEF Mine, WeakRow
  <1>20. AttemptsKnown'
    <2> SUFFICES ASSUME NEW b \in Attempt PROVE AttemptKnown(b)'
      BY DEF AttemptsKnown
    <2>1. CASE b = a
      <3>1. a \notin superseded /\ run[a].st = "none"
        BY <1>2, <1>11 DEF AttemptKnown
      <3>2. a \notin superseded'
        BY <1>1, <1>13, <3>1
      <3> QED
        BY <1>10, <2>1, <3>1, <3>2 DEF AttemptKnown, Early
    <2>2. CASE b # a
      <3>1. AttemptKnown(b) /\ pc'[b] = pc[b]
        BY <1>2, <1>10, <2>2
      <3>2. CASE b \in superseded
        BY <1>19, <2>2, <3>1, <3>2 DEF AttemptKnown, WeakRow
      <3>3. CASE \E h \in hazards : b = l[h].att
        <4>1. PICK h \in hazards : b = l[h].att
          BY <3>3
        <4>2. KeyOf[b] = h /\ h \in Key \ {k} /\ pc[b] \notin Early
          BY <1>7, <1>13, <4>1
        <4>3. ledger'[h].st = "indeterminate"
          BY <1>5, <1>7, <1>8, <4>2
        <4> QED
          BY <3>1, <4>2, <4>3 DEF AttemptKnown, Live
      <3>4. CASE b \notin superseded'
        BY <3>1, <3>4 DEF AttemptKnown
      <3> QED
        BY <1>1, <3>2, <3>3, <3>4
    <2> QED
      BY <2>1, <2>2
  <1>21. LedgerFollowsRun'
    <2> SUFFICES ASSUME NEW b \in Attempt, Mine(b)', Terminal(b)'
                 PROVE  ledger'[KeyOf[b]].st = "completed"
      BY DEF LedgerFollowsRun
    <2>1. Terminal(b)
      BY DEF Terminal
    <2>2. b # a
      BY <1>2, <1>11, <2>1 DEF Terminal, AttemptKnown
    <2>3. Mine(b) /\ WeakRow(ledger[KeyOf[b]], ledger'[KeyOf[b]]) /\ ledger'[KeyOf[b]].st # "none"
      BY <1>19, <2>2
    <2>4. ledger[KeyOf[b]].st = "completed"
      BY <2>1, <2>3 DEF StoreInv, LedgerFollowsRun
    <2> QED
      BY <2>3, <2>4 DEF WeakRow
  <1>22. QuotasHold'
    <2>1. Quota(ledger)
      BY DEF StoreInv, QuotasHold, Quota
    <2>2. Quota(l)
      BY <2>1, WeakQuota
    <2>3. ledger'[k].att = a /\ (ledger'[k].body => BodyFits(l, k, PrincipalOf[a]))
      BY <1>4, <1>8 DEF fit
    <2>4. Quota(ledger')
      BY <1>1, <1>8, <1>9, <2>2, <2>3, ClaimQuota
    <2> QED
      BY <2>4 DEF QuotasHold, Quota
  <1> QED
    BY <1>14, <1>15, <1>17, <1>18, <1>20, <1>21, <1>22 DEF StoreInv
\* claim_idempotency_with_limits: prune, then answer, refuse or insert.
LEMMA ClaimKeeps ==
    ASSUME SqliteBounds, StoreInv, NEW a \in Attempt, Claim(a)
    PROVE  StoreInv'
  <1> DEFINE k == KeyOf[a]
             Fresh(l) == [l EXCEPT ![k] = IF k \in Stale(l) THEN NoRow ELSE l[k]]
  <1>1. ledger \in Ledger /\ k \in Key /\ UNCHANGED <<run, base>>
    BY DEF Claim, StoreInv, StoreTypes, SqliteBounds
  <1>2. PICK l \in Pruned(ledger) :
            \/ AnswerExisting(a, l, k)
            \/ /\ Fresh(l)[k].st = "none"
               /\ RefuseBusy(a, Fresh(l)) \/ RefuseClaim(a, Fresh(l)) \/ InsertClaim(a, Fresh(l), k)
    BY DEF Claim
  <1>3. l \in Ledger /\ Weak(ledger, l) /\ l[k] \in Row
    BY <1>1, PrunedWeak DEF Ledger
  <1>4. {"answered", "refused"} \subseteq PCs \ (Early \cup {"running"})
    BY DEF PCs, Early
  <1>5. CASE AnswerExisting(a, l, k)
    <2>1. ledger' = l \/ (Live(l[k]) /\ ledger' = [l EXCEPT ![k] = Indeterminate(l[k])])
      BY <1>5 DEF AnswerExisting
    <2>2. ledger' \in Ledger /\ Weak(l, ledger')
      BY <1>1, <1>3, <2>1, WeakSame, RowWrites
    <2>3. Weak(ledger, ledger')
      BY <1>3, <2>2, WeakTrans
    <2> QED
      BY <1>1, <1>4, <1>5, <2>2, <2>3, LedgerKeeps DEF AnswerExisting, Goto
  <1>6. ASSUME NEW f, f = Fresh(l), f[k].st = "none",
               RefuseBusy(a, f) \/ RefuseClaim(a, f) \/ InsertClaim(a, f, k)
        PROVE  StoreInv'
    <2>1. f = [l EXCEPT ![k] = NoRow] \/ f = l
      BY <1>3, <1>6 DEF Ledger
    <2>2. f \in Ledger /\ Weak(l, f)
      BY <1>1, <1>3, <2>1, WeakSame, RowWrites
    <2>3. Weak(ledger, f)
      BY <1>3, <2>2, WeakTrans
    <2>4. CASE RefuseBusy(a, f)
      <3>1. ASSUME NEW j \in Key PROVE ledger'[j] \in Row /\ WeakRow(f[j], ledger'[j])
        <4>1. f[j] \in Row
          BY <2>2 DEF Ledger
        <4>2. ledger'[j] = f[j] \/ (Live(f[j]) /\ ledger'[j] = Indeterminate(f[j]))
          BY <2>4 DEF RefuseBusy, ActiveIn
        <4> QED
          BY <4>1, <4>2, RowForms
      <3>2. ledger' \in Ledger /\ Weak(f, ledger')
        BY <2>4, <3>1 DEF RefuseBusy, Ledger, Weak
      <3>3. Weak(ledger, ledger')
        BY <2>3, <3>2, WeakTrans
      <3> QED
        BY <1>1, <1>4, <2>4, <3>2, <3>3, LedgerKeeps DEF RefuseBusy, Goto
    <2>5. CASE RefuseClaim(a, f)
      BY <1>1, <1>4, <2>2, <2>3, <2>5, LedgerKeeps DEF RefuseClaim, Goto
    <2>6. CASE InsertClaim(a, f, k)
      <3>1. pc[a] = IF OpOf[a] = "message" THEN "read" ELSE "idle"
        BY DEF Claim
      <3> QED
        BY <1>1, <1>6, <2>2, <2>3, <2>6, <3>1, InsertKeeps
    <2> QED
      BY <1>6, <2>4, <2>5, <2>6
  <1> QED
    BY <1>2, <1>5, <1>6

-----------------------------------------------------------------------------
\* The invariant holds at the start.
LEMMA StoreStart ==
    ASSUME SqliteBounds, Init
    PROVE  StoreInv
  <1> USE DEF Init
  <1>1. NoRow \in Row /\ NoRun \in Run
    BY DEF NoRow, Row, NoRun, Run
  <1>2. StoreTypes
    BY <1>1 DEF StoreTypes, Ledger, Record, PCs
  <1>3. \A k \in Key : ledger[k] = NoRow
    OBVIOUS
  <1>4. RowsOwned /\ RowsPinned /\ OneTurn /\ ConvKnown
    BY DEF RowsOwned, RowOwned, RowsPinned, RowPinned, OneTurn, Turn, Live, NoRow, ConvKnown
  <1>5. AttemptsKnown /\ LedgerFollowsRun
    BY DEF AttemptsKnown, AttemptKnown, LedgerFollowsRun, Terminal, NoRun
  <1>6. QuotasHold
    <2>1. Rows(ledger) = {} /\ Bodies(ledger) = {}
      BY <1>3 DEF Rows, Bodies, NoRow
    <2>2. \A p : RowsOf(ledger, p) = {} /\ LiveOf(ledger, p) = {}
      BY <2>1 DEF RowsOf, LiveOf
    <2>3. {MaxRecords, MaxPerPrincipal, MaxInFlight, MaxBodies, MaxBodiesPer} \subseteq Nat
      BY DEF SqliteBounds
    <2>4. ASSUME NEW S, S = {}, NEW n \in Nat PROVE Cardinality(S) <= n
      BY <2>4, FS_EmptySet
    <2> HIDE DEF Init
    <2>5. Cardinality(Rows(ledger)) <= MaxRecords /\ Cardinality(Bodies(ledger)) <= MaxBodies
      BY <2>1, <2>3, <2>4
    <2>6. ASSUME NEW p \in Principal
          PROVE  /\ Cardinality(RowsOf(ledger, p)) <= MaxPerPrincipal
                 /\ Cardinality(LiveOf(ledger, p)) <= MaxInFlight
                 /\ Cardinality(Bodies(ledger) \cap RowsOf(ledger, p)) <= MaxBodiesPer
      <3>1. Bodies(ledger) \cap RowsOf(ledger, p) = {}
        BY <2>1
      <3> QED
        BY <2>2, <2>3, <2>4, <3>1
    <2> QED
      BY <2>5, <2>6 DEF QuotasHold
  <1> QED
    BY <1>2, <1>4, <1>5, <1>6 DEF StoreInv

\* Every step keeps it.
LEMMA StoreStep ==
    ASSUME SqliteBounds, StoreInv, [Next]_vars
    PROVE  StoreInv'
  <1>1. CASE \E a \in Attempt : Step(a)
    BY <1>1, ReadKeeps, ClaimKeeps, HeartbeatKeeps, HeartbeatRunKeeps, HydrateKeeps,
       CompletionKeeps, CommitKeeps DEF Step
  <1>2. CASE \E a \in Attempt : SaveRunIntent(a)
    BY <1>2, IntentKeeps
  <1>3. CASE \/ \E i \in Instance : HeartbeatOwned(i) \/ Restart(i)
             \/ \E a \in Attempt : DeleteRun(a)
    BY <1>3, InstanceKeeps
  <1>4. CASE Prune \/ Reconcile \/ Tick
    BY <1>4, PruneKeeps, ReconcileKeeps, TickKeeps
  <1>5. CASE SaveConversation \/ StartConversation \/ DeleteConversation
    BY <1>5, ConversationKeeps
  <1>6. CASE UNCHANGED vars
    BY <1>6, WeakSame, LedgerKeeps DEF vars, StoreInv, StoreTypes
  <1> QED
    BY <1>1, <1>2, <1>3, <1>4, <1>5, <1>6 DEF Next, Store

\* The inductive invariant holds of every behaviour.
LEMMA StoreInvariant == ASSUME SqliteBounds PROVE Spec => []StoreInv
  BY StoreStart, StoreStep, PTL DEF Spec

\* No save, delete, start or other turn moves the conversation between a turn's claim
\* and its commit (claim_idempotency_with_limits, and what save_conversation and
\* delete_conversation ask of sqlite_active_conversation_idempotency), whichever
\* claims lapse or are pruned.
THEOREM SqliteClaimPins == ASSUME SqliteBounds PROVE Spec => []ClaimPinsConversation
  <1>1. StoreInv => ClaimPinsConversation
    <2> SUFFICES ASSUME StoreInv, NEW a \in Attempt, OpOf[a] = "message", Mine(a),
                        Live(ledger[KeyOf[a]])
                 PROVE  base[a] = conv
      BY DEF ClaimPinsConversation
    <2>1. KeyOf[a] \in Key /\ ledger[KeyOf[a]].att = a
      BY DEF Mine, SqliteBounds
    <2> QED
      BY <2>1 DEF StoreInv, RowsPinned, RowPinned, Turn
  <1> QED
    BY <1>1, StoreInvariant, PTL

\* update_run_completion and reconcile_abandoned_runs complete the row of every run
\* they end, and nothing brings the row back afterwards.
THEOREM SqliteFollowsRun == ASSUME SqliteBounds PROVE Spec => []LedgerFollowsRun
  <1>1. StoreInv => LedgerFollowsRun
    BY DEF StoreInv
  <1> QED
    BY <1>1, StoreInvariant, PTL

\* The limits on rows, on rows in flight and on stored bodies hold in every state,
\* in all and for each principal: claim_idempotency_with_limits counts what its own
\* transaction sees, and drops a body that does not fit.
THEOREM SqliteQuotas == ASSUME SqliteBounds PROVE Spec => []QuotasHold
  <1>1. StoreInv => QuotasHold
    BY DEF StoreInv
  <1> QED
    BY <1>1, StoreInvariant, PTL

\* A turn whose hazard a recovery key consumed never lands, however late its process
\* calls commit_conversation_idempotency.
THEOREM SqliteSuperseded == ASSUME SqliteBounds PROVE Spec => [][SupersededNeverCommits]_vars
  <1>1. ASSUME StoreInv, Next PROVE SupersededNeverCommits
    <2> SUFFICES ASSUME NEW a \in superseded, a \in committed' PROVE a \in committed
      BY DEF SupersededNeverCommits
    <2>1. committed' = committed \/ \E b \in Attempt : CommitConversation(b)
      <3>1. CASE \E b \in Attempt : Claim(b)
        BY <3>1 DEF Claim, AnswerExisting, RefuseBusy, RefuseClaim, InsertClaim
      <3>2. CASE \E b \in Attempt : \/ ReadConversation(b) \/ HeartbeatIdempotency(b)
                                    \/ HeartbeatRun(b) \/ HydrateIntent(b)
                                    \/ UpdateRunCompletion(b) \/ MarkIndeterminate(b)
                                    \/ Release(b) \/ SaveRunIntent(b) \/ DeleteRun(b)
        BY <3>2 DEF ReadConversation, HeartbeatIdempotency, HeartbeatRun, HydrateIntent,
                    UpdateRunCompletion, MarkIndeterminate, Release, SaveRunIntent, DeleteRun
      <3>3. CASE \/ \E i \in Instance : HeartbeatOwned(i) \/ Restart(i)
                 \/ Prune \/ SaveConversation \/ StartConversation \/ DeleteConversation
                 \/ Reconcile \/ Tick
        BY <3>3 DEF HeartbeatOwned, Restart, Prune, SaveConversation, StartConversation,
                    DeleteConversation, Reconcile, Tick
      <3> QED
        BY <1>1, <3>1, <3>2, <3>3 DEF Next, Store, Step
    <2>2. ASSUME NEW b \in Attempt, CommitConversation(b) PROVE a \in committed
      <3>1. AttemptKnown(a)
        BY <1>1 DEF StoreInv, StoreTypes, AttemptsKnown
      <3>2. ~Committable(a)
        BY <3>1 DEF AttemptKnown, Committable
      <3> QED
        BY <2>2, <3>2 DEF CommitConversation
    <2> QED
      BY <2>1, <2>2
  <1> QED
    BY <1>1, StoreInvariant, PTL DEF Spec

\* The promises of the store together, for any attempts, keys, principals and limits: a
\* claimed turn pins its conversation, quotas hold, a run's ledger row follows its record
\* and a superseded turn never commits (sqlite_store.rs).
THEOREM SqliteSound == ASSUME SqliteBounds PROVE Spec => SqliteStoreSound
  <1>1. Spec => [](ClaimPinsConversation /\ QuotasHold /\ LedgerFollowsRun)
    BY SqliteClaimPins, SqliteQuotas, SqliteFollowsRun, PTL
  <1> QED
    BY <1>1, SqliteSuperseded DEF SqliteStoreSound
=============================================================================
