----------------------------- MODULE SessionProofs -----------------------------
(***************************************************************************)
(* Proofs about module Session: its type invariant, and that a candidate   *)
(* is always bound to an analysis of the snapshot it is bound to, and to a *)
(* snapshot of the material it was made for, so that what is staged fits   *)
(* the project; that the buckets stay bounded; and that what an answer     *)
(* lists is in the store.  All for any capacities and lifetimes.           *)
(*                                                                         *)
(* LabelsAgree and NeverStale are not inductive: a candidate may be        *)
(* re-bound by a generation that the cache answers, so the invariant says  *)
(* of the cache that the candidates an entry lists were made for material  *)
(* of the entry's key.                                                     *)
(***************************************************************************)
EXTENDS Session, FiniteSetTheorems, TLAPS

-----------------------------------------------------------------------------
(* Buckets.                                                                *)

\* A sweep only takes away.
LEMMA LiveSubset == ASSUME NEW b PROVE Live(b) \subseteq b
BY DEF Live

\* Everything in a bucket after an insertion was there before, or is the new
\* entry.
LEMMA InsertMembers ==
  ASSUME NEW b, NEW id, NEW val, NEW capacity, NEW ttl, NEW seq
  PROVE  Insert(b, id, val, capacity, ttl, seq)
           \subseteq b \cup {[id |-> id, val |-> val, left |-> ttl, seq |-> seq]}
BY LiveSubset DEF Insert

LEMMA InsertTyped ==
  ASSUME NEW I, NEW V, NEW b \in SUBSET Entries(I, V), NEW id \in I, NEW val \in V,
         NEW capacity, NEW ttl \in Nat, NEW seq \in Nat
  PROVE  Insert(b, id, val, capacity, ttl, seq) \subseteq Entries(I, V)
<1>1. [id |-> id, val |-> val, left |-> ttl, seq |-> seq] \in Entries(I, V)
  BY DEF Entries
<1> QED
  BY <1>1, InsertMembers

\* Sequence numbers and lifetimes.
LEMMA Numbers ==
  ASSUME calls \in Nat
  PROVE  /\ \A n \in Nat : Number(n) \in Nat
         /\ {SNAPSHOT_TTL, ANALYSIS_TTL, CANDIDATE_TTL, PLAN_TTL, TRANSACTION_TTL} \subseteq Nat
BY SessionAssumption DEF Number

-----------------------------------------------------------------------------
(* The invariant.                                                          *)

\* Candidates whose labels agree and are of the material they were made for.
WellBound(ca) ==
  \A c \in ca : c.val.ana.snap = c.val.snap /\ c.val.snap.mat = c.id.ana.snap.mat

\* Cached generations of the material of their key.
WellCached(ch) == \A e \in ch : \A i \in e.val : i.ana.snap.mat = e.id.mat

StoreInv == TypeOK /\ WellBound(candidates) /\ WellCached(cache)

\* What a handler leaves in the store is swept, and stays what it was.
LEMMA SettleKeeps ==
  ASSUME NEW sn \in SUBSET Entries(SnapshotId, SnapshotId),
         NEW an \in SUBSET Entries(AnalysisId, AnalysisId),
         NEW ca \in SUBSET Entries(CandidateId, CandidateRecord),
         NEW pl \in SUBSET Entries(Nat, [cand : CandidateId, snap : SnapshotId]),
         NEW tx \in SUBSET Entries(Nat, [cand : CandidateId, snap : SnapshotId,
                                         status : Status]),
         NEW ch \in SUBSET Entries(CacheKey, SUBSET CandidateId),
         WellBound(ca), WellCached(ch), Settle(sn, an, ca, pl, tx, ch),
         project' \in [mat : Material, count : Nat], calls' \in Nat,
         answer' \subseteq [id : CandidateId, snap : SnapshotId]
  PROVE  StoreInv'
<1>1. /\ Live(sn) \subseteq sn /\ Live(an) \subseteq an /\ Live(ca) \subseteq ca
      /\ Live(pl) \subseteq pl /\ Live(tx) \subseteq tx /\ Live(ch) \subseteq ch
  BY LiveSubset
<1>2. /\ snapshots' = Live(sn) /\ analyses' = Live(an) /\ candidates' = Live(ca)
      /\ plans' = Live(pl) /\ transactions' = Live(tx) /\ cache' = Live(ch)
  BY DEF Settle
<1>3. TypeOK'
  BY <1>1, <1>2 DEF TypeOK
<1>4. WellBound(candidates') /\ WellCached(cache')
  BY <1>1, <1>2 DEF WellBound, WellCached
<1> QED
  BY <1>3, <1>4 DEF StoreInv, WellBound, WellCached

\* The projections of the ids.
LEMMA LiveIds ==
  ASSUME TypeOK
  PROVE  /\ \A s \in Ids(Live(snapshots)) : s \in SnapshotId
         /\ \A a \in Ids(Live(analyses)) : a \in AnalysisId
         /\ \A c \in Live(candidates) :
              c \in candidates /\ c \in Entries(CandidateId, CandidateRecord)
BY LiveSubset DEF TypeOK, Ids, Entries

LEMMA InitStoreInv == Init => StoreInv
BY DEF Init, StoreInv, TypeOK, WellBound, WellCached

LEMMA TickStoreInv == StoreInv /\ Tick => StoreInv'
<1> SUFFICES ASSUME StoreInv, Tick PROVE StoreInv'
  OBVIOUS
<1> DEFINE Older(e) == [e EXCEPT !.left = IF @ > 0 THEN @ - 1 ELSE 0]
           Old(b) == {Older(e) : e \in b}
<1>2. ASSUME NEW I, NEW V, NEW b \in SUBSET Entries(I, V)
      PROVE  /\ Old(b) \subseteq Entries(I, V)
             /\ \A f \in Old(b) : \E e \in b : f.id = e.id /\ f.val = e.val
  <2>1. ASSUME NEW e \in b
        PROVE  Older(e) \in Entries(I, V) /\ Older(e).id = e.id /\ Older(e).val = e.val
    <3>1. e \in [id : I, val : V, left : Nat, seq : Nat]
      BY DEF Entries
    <3>2. (IF e.left > 0 THEN e.left - 1 ELSE 0) \in Nat
      BY <3>1
    <3> QED
      BY <3>1, <3>2 DEF Entries
  <2> QED
    BY <2>1
<1>3. /\ snapshots' = Old(snapshots) /\ analyses' = Old(analyses)
      /\ candidates' = Old(candidates) /\ plans' = Old(plans)
      /\ transactions' = Old(transactions) /\ cache' = Old(cache)
      /\ answer' = {} /\ project' = project /\ calls' = calls
  BY DEF Tick
<1> HIDE DEF Old
<1>4. TypeOK'
  BY <1>2, <1>3 DEF StoreInv, TypeOK
<1>5. WellBound(candidates')
  <2>1. \A f \in candidates' : \E e \in candidates : f.id = e.id /\ f.val = e.val
    BY <1>2, <1>3 DEF StoreInv, TypeOK
  <2> QED
    BY <2>1 DEF StoreInv, WellBound
<1>6. WellCached(cache')
  <2>1. \A f \in cache' : \E e \in cache : f.id = e.id /\ f.val = e.val
    BY <1>2, <1>3 DEF StoreInv, TypeOK
  <2> QED
    BY <2>1 DEF StoreInv, WellCached
<1> QED
  BY <1>4, <1>5, <1>6 DEF StoreInv, WellBound, WellCached

-----------------------------------------------------------------------------
(* What the tools put in.                                                  *)

LEMMA WithAnalysisTyped ==
  ASSUME TypeOK, NEW a \in AnalysisId
  PROVE  WithAnalysis(a) \subseteq Entries(AnalysisId, AnalysisId)
<1>1. analyses \in SUBSET Entries(AnalysisId, AnalysisId) /\ calls \in Nat
  BY DEF TypeOK
<1>2. ANALYSIS_TTL \in Nat /\ Number(0) \in Nat
  BY <1>1, Numbers
<1> QED
  BY <1>1, <1>2, InsertTyped DEF WithAnalysis

\* An analysis that a generation works from is one of its snapshot.
LEMMA ReadingOf ==
  ASSUME TypeOK, NEW s \in SnapshotId, NEW f \in Profile, NEW r \in Reading(s, f)
  PROVE  r.id \in AnalysisId /\ r.id.snap = s
<1>1. \A a \in Ids(Live(analyses)) : a \in AnalysisId
  BY LiveIds
<1> DEFINE made == [snap |-> s, par |-> [profile |-> f, option |-> DefaultOption]]
<1>2. made \in AnalysisId /\ made.snap = s
  BY SessionAssumption DEF AnalysisId, Parameters
<1>3. \A a \in Ids(Reusable(s, f)) : a \in Ids(Live(analyses)) /\ a.snap = s
  BY DEF Reusable, Newest, Ids
<1>4. \/ r.id \in Ids(Live(analyses)) /\ r.id.snap = s
      \/ r.id \in Ids(Reusable(s, f))
      \/ r.id = made
  <2> DEFINE named == [id : {a \in Ids(Live(analyses)) : a.snap = s}, new : {FALSE}]
             found == [id : Ids(Reusable(s, f)), new : {FALSE}]
  <2>1. r \in named \/ r \in found \/ r = [id |-> made, new |-> TRUE]
    BY DEF Reading
  <2>2. ASSUME r \in named PROVE r.id \in Ids(Live(analyses)) /\ r.id.snap = s
    BY <2>2
  <2>3. ASSUME r \in found PROVE r.id \in Ids(Reusable(s, f))
    BY <2>3
  <2>4. ASSUME r = [id |-> made, new |-> TRUE] PROVE r.id = made
    BY <2>4
  <2> QED
    BY <2>1, <2>2, <2>3, <2>4
<1> HIDE DEF made
<1> QED
  BY <1>1, <1>2, <1>3, <1>4

LEMMA AnalysedTyped ==
  ASSUME TypeOK, NEW r, r.id \in AnalysisId
  PROVE  Analysed(r) \subseteq Entries(AnalysisId, AnalysisId)
BY WithAnalysisTyped DEF Analysed, TypeOK

LEMMA GeneratedTyped ==
  ASSUME NEW a \in AnalysisId, NEW f \in Profile, NEW form \in Form
  PROVE  /\ Generated(a, f, form) \subseteq CandidateId
         /\ \A i \in Generated(a, f, form) : i.ana = a
BY DEF Generated, CandidateId

LEMMA ListedTyped ==
  ASSUME NEW ids \in SUBSET CandidateId, NEW s \in SnapshotId
  PROVE  Listed(ids, s) \subseteq [id : CandidateId, snap : SnapshotId]
BY DEF Listed

\* One candidate put in: typed and well bound if it is so itself.
LEMMA OneMore ==
  ASSUME NEW b \in SUBSET Entries(CandidateId, CandidateRecord), WellBound(b),
         NEW id \in CandidateId, NEW val \in CandidateRecord,
         val.ana.snap = val.snap, val.snap.mat = id.ana.snap.mat,
         NEW seq \in Nat
  PROVE  LET after == Insert(b, id, val, MAX_CANDIDATES, CANDIDATE_TTL, seq)
         IN after \in SUBSET Entries(CandidateId, CandidateRecord) /\ WellBound(after)
<1> DEFINE after == Insert(b, id, val, MAX_CANDIDATES, CANDIDATE_TTL, seq)
           new == [id |-> id, val |-> val, left |-> CANDIDATE_TTL, seq |-> seq]
<1>1. CANDIDATE_TTL \in Nat
  BY SessionAssumption
<1>2. after \subseteq Entries(CandidateId, CandidateRecord)
  BY <1>1, InsertTyped
<1>3. after \subseteq b \cup {new}
  BY InsertMembers
<1>4. new.id = id /\ new.val = val
  OBVIOUS
<1> HIDE DEF after, new
<1>5. WellBound(after)
  BY <1>3, <1>4 DEF WellBound
<1> QED
  BY <1>2, <1>5 DEF after

LEMMA WithGeneratedKeeps ==
  ASSUME StoreInv, NEW s \in SnapshotId, NEW a \in AnalysisId, a.snap = s,
         NEW f \in Profile, NEW form \in Form
  PROVE  /\ WithGenerated(s, a, f, form) \in SUBSET Entries(CandidateId, CandidateRecord)
         /\ WellBound(WithGenerated(s, a, f, form))
<1> DEFINE id(n) == [ana |-> a, req |-> f, no |-> n, form |-> form]
           rec == [snap |-> s, ana |-> a]
           one == Insert(candidates, id(1), rec, MAX_CANDIDATES, CANDIDATE_TTL, Number(1))
           two == Insert(one, id(2), rec, MAX_CANDIDATES, CANDIDATE_TTL, Number(2))
<1>1. /\ candidates \in SUBSET Entries(CandidateId, CandidateRecord) /\ WellBound(candidates)
      /\ Number(1) \in Nat /\ Number(2) \in Nat
  BY Numbers DEF StoreInv, TypeOK
<1>2. id(1) \in CandidateId /\ id(2) \in CandidateId /\ rec \in CandidateRecord
  BY DEF CandidateId, CandidateRecord
<1>3. rec.ana.snap = rec.snap /\ rec.snap.mat = id(1).ana.snap.mat
      /\ rec.snap.mat = id(2).ana.snap.mat
  OBVIOUS
<1>4. WithGenerated(s, a, f, form) = two
  BY DEF WithGenerated
<1> HIDE DEF id, rec
<1>5. one \in SUBSET Entries(CandidateId, CandidateRecord) /\ WellBound(one)
  BY <1>1, <1>2, <1>3, OneMore
<1> HIDE DEF one
<1>6. two \in SUBSET Entries(CandidateId, CandidateRecord) /\ WellBound(two)
  BY <1>1, <1>2, <1>3, <1>5, OneMore
<1> QED
  BY <1>4, <1>6

\* A re-bound candidate keeps its id, and its labels agree.
LEMMA ReboundKeeps ==
  ASSUME StoreInv, NEW s \in SnapshotId, NEW a \in AnalysisId, a.snap = s,
         NEW ids, \A i \in ids : i.ana.snap.mat = s.mat
  PROVE  /\ Rebound(ids, s, a) \in SUBSET Entries(CandidateId, CandidateRecord)
         /\ WellBound(Rebound(ids, s, a))
<1>1. candidates \in SUBSET Entries(CandidateId, CandidateRecord) /\ WellBound(candidates)
  BY DEF StoreInv, TypeOK
<1>2. ASSUME NEW c \in candidates
      PROVE  /\ [c EXCEPT !.val.snap = s, !.val.ana = a] \in Entries(CandidateId, CandidateRecord)
             /\ [c EXCEPT !.val.snap = s, !.val.ana = a].id = c.id
             /\ [c EXCEPT !.val.snap = s, !.val.ana = a].val = [snap |-> s, ana |-> a]
  <2>1. c \in [id : CandidateId, val : [snap : SnapshotId, ana : AnalysisId],
               left : Nat, seq : Nat]
    BY <1>1 DEF Entries, CandidateRecord
  <2> QED
    BY <2>1 DEF Entries, CandidateRecord
<1>3. \A d \in Rebound(ids, s, a) :
        \/ d \in candidates
        \/ /\ d \in Entries(CandidateId, CandidateRecord)
           /\ d.id \in ids /\ d.val = [snap |-> s, ana |-> a]
  <2> SUFFICES ASSUME NEW d \in Rebound(ids, s, a), d \notin candidates
               PROVE  /\ d \in Entries(CandidateId, CandidateRecord)
                      /\ d.id \in ids /\ d.val = [snap |-> s, ana |-> a]
    OBVIOUS
  <2>1. PICK c \in candidates :
          d = IF c.id \in ids THEN [c EXCEPT !.val.snap = s, !.val.ana = a] ELSE c
    BY DEF Rebound
  <2>2. c.id \in ids /\ d = [c EXCEPT !.val.snap = s, !.val.ana = a]
    BY <2>1
  <2> QED
    BY <1>2, <2>2
<1> QED
  BY <1>1, <1>3 DEF WellBound

-----------------------------------------------------------------------------
(* One lemma per tool.                                                     *)

\* The store before a call, in the form SettleKeeps asks for.
LEMMA Before ==
  ASSUME StoreInv
  PROVE  /\ snapshots \in SUBSET Entries(SnapshotId, SnapshotId)
         /\ analyses \in SUBSET Entries(AnalysisId, AnalysisId)
         /\ candidates \in SUBSET Entries(CandidateId, CandidateRecord)
         /\ plans \in SUBSET Entries(Nat, [cand : CandidateId, snap : SnapshotId])
         /\ transactions \in SUBSET Entries(Nat, [cand : CandidateId, snap : SnapshotId,
                                                  status : Status])
         /\ cache \in SUBSET Entries(CacheKey, SUBSET CandidateId)
         /\ WellBound(candidates) /\ WellCached(cache)
         /\ project \in [mat : Material, count : Nat] /\ calls \in Nat
         /\ {} \subseteq [id : CandidateId, snap : SnapshotId]
         /\ TypeOK
BY DEF StoreInv, TypeOK

\* The call counter keeps its type, whether the call stores something or not.
LEMMA CallsTyped ==
  ASSUME StoreInv, NEW r, Stores \/ Ran(r) \/ UNCHANGED calls
  PROVE  calls' \in Nat
BY Before DEF Stores, Ran

LEMMA ReadsKeeps == StoreInv /\ Reads => StoreInv'
<1> SUFFICES ASSUME StoreInv, Reads PROVE StoreInv'
  OBVIOUS
<1>1. /\ Settle(snapshots, analyses, candidates, plans, transactions, cache)
      /\ answer' = {} /\ project' = project /\ calls' = calls
  BY DEF Reads
<1> QED
  BY <1>1, Before, SettleKeeps

LEMMA CountedTyped ==
  ASSUME StoreInv, NEW m \in Material, Counted(m)
  PROVE  project' \in [mat : Material, count : Nat]
BY Before DEF Counted

LEMMA UserEditsKeeps == StoreInv /\ UserEdits => StoreInv'
<1> SUFFICES ASSUME StoreInv, UserEdits PROVE StoreInv'
  OBVIOUS
<1>1. project' \in [mat : Material, count : Nat]
  BY CountedTyped DEF UserEdits
<1>2. /\ UNCHANGED <<snapshots, analyses, candidates, plans, transactions, cache, calls>>
      /\ answer' = {}
  BY DEF UserEdits
<1> QED
  BY <1>1, <1>2 DEF StoreInv, TypeOK, WellBound, WellCached

LEMMA InspectKeeps == StoreInv /\ Inspect => StoreInv'
<1> SUFFICES ASSUME StoreInv, Inspect PROVE StoreInv'
  OBVIOUS
<1> DEFINE s == [no |-> calls, mat |-> project.mat, count |-> project.count]
           sn == Insert(snapshots, s, s, MAX_SNAPSHOTS, SNAPSHOT_TTL, Number(0))
<1>1. s \in SnapshotId
  BY Before DEF SnapshotId
<1>2. SNAPSHOT_TTL \in Nat /\ Number(0) \in Nat
  BY Before, Numbers
<1>3. /\ Settle(sn, analyses, candidates, plans, transactions, cache)
      /\ Stores /\ answer' = {} /\ project' = project
  BY DEF Inspect
<1> HIDE DEF s
<1>4. sn \in SUBSET Entries(SnapshotId, SnapshotId)
  BY <1>1, <1>2, Before, InsertTyped
<1> HIDE DEF sn
<1> QED
  BY <1>3, <1>4, Before, CallsTyped, SettleKeeps

LEMMA AnalyzeKeeps == StoreInv /\ Analyze => StoreInv'
<1> SUFFICES ASSUME StoreInv, Analyze PROVE StoreInv'
  OBVIOUS
<1>1. PICK s \in Ids(Live(snapshots)), p \in Parameters :
        /\ Stores /\ answer' = {} /\ project' = project
        /\ Settle(snapshots, WithAnalysis([snap |-> s, par |-> p]), candidates, plans,
                  transactions, cache)
  BY DEF Analyze
<1>2. [snap |-> s, par |-> p] \in AnalysisId
  BY Before, LiveIds DEF AnalysisId
<1>3. WithAnalysis([snap |-> s, par |-> p]) \in SUBSET Entries(AnalysisId, AnalysisId)
  BY <1>2, Before, WithAnalysisTyped
<1> QED
  BY <1>1, <1>3, Before, CallsTyped, SettleKeeps

\* What the cache serves was made for material like the snapshot's.
LEMMA CachedMade ==
  ASSUME StoreInv, NEW s, NEW f, NEW ids \in Cached(Key(s, f))
  PROVE  ids \in SUBSET CandidateId /\ \A i \in ids : i.ana.snap.mat = s.mat
<1>1. PICK e \in cache : e.id = Key(s, f) /\ ids = e.val
  BY LiveSubset DEF Cached
<1>2. Key(s, f).mat = s.mat
  BY DEF Key
<1>3. e \in Entries(CacheKey, SUBSET CandidateId)
  BY Before
<1>4. e.val \in SUBSET CandidateId
  BY <1>3 DEF Entries
<1> QED
  BY <1>1, <1>2, <1>4 DEF StoreInv, WellCached

LEMMA GenerateCachedKeeps ==
  ASSUME StoreInv, NEW s \in SnapshotId, NEW f \in Profile, NEW r \in Reading(s, f),
         GenerateCached(s, f, r)
  PROVE  StoreInv'
<1>1. r.id \in AnalysisId /\ r.id.snap = s
  BY Before, ReadingOf
<1>2. PICK ids \in Cached(Key(s, f)) :
        /\ Ran(r) /\ answer' = Listed(ids, s) /\ project' = project
        /\ Settle(snapshots, Analysed(r), Rebound(ids, s, r.id), plans, transactions, cache)
  BY DEF GenerateCached
<1>3. ids \in SUBSET CandidateId /\ \A i \in ids : i.ana.snap.mat = s.mat
  BY <1>2, CachedMade
<1>4. /\ Rebound(ids, s, r.id) \in SUBSET Entries(CandidateId, CandidateRecord)
      /\ WellBound(Rebound(ids, s, r.id))
  BY <1>1, <1>3, ReboundKeeps
<1>5. Analysed(r) \in SUBSET Entries(AnalysisId, AnalysisId)
  BY <1>1, Before, AnalysedTyped
<1>6. answer' \subseteq [id : CandidateId, snap : SnapshotId]
  BY <1>2, <1>3, ListedTyped
<1>7. calls' \in Nat
  BY <1>2, CallsTyped
<1> QED
  BY <1>2, <1>4, <1>5, <1>6, <1>7, Before, SettleKeeps

\* Putting an entry under the key of s keeps the cache well formed.
LEMMA CachePut ==
  ASSUME StoreInv, NEW s \in SnapshotId, NEW f \in Profile,
         NEW ids \in SUBSET CandidateId, \A i \in ids : i.ana.snap.mat = s.mat
  PROVE  LET ch == Insert(cache, Key(s, f), ids, MAX_CACHE_ENTRIES, CANDIDATE_TTL, Number(3))
         IN ch \in SUBSET Entries(CacheKey, SUBSET CandidateId) /\ WellCached(ch)
<1> DEFINE key == Key(s, f)
           ch == Insert(cache, key, ids, MAX_CACHE_ENTRIES, CANDIDATE_TTL, Number(3))
           new == [id |-> key, val |-> ids, left |-> CANDIDATE_TTL, seq |-> Number(3)]
<1>1. key \in CacheKey /\ key.mat = s.mat
  BY DEF Key, CacheKey, SnapshotId
<1>2. CANDIDATE_TTL \in Nat /\ Number(3) \in Nat
  BY Before, Numbers
<1> HIDE DEF key
<1>3. ch \subseteq Entries(CacheKey, SUBSET CandidateId)
  BY <1>1, <1>2, Before, InsertTyped
<1>4. ch \subseteq cache \cup {new}
  BY InsertMembers
<1>5. new.id = key /\ new.val = ids
  OBVIOUS
<1> HIDE DEF ch, new
<1>6. WellCached(ch)
  BY <1>1, <1>4, <1>5, Before DEF WellCached
<1> QED
  BY <1>3, <1>6 DEF ch, key

LEMMA GenerateAnewKeeps ==
  ASSUME StoreInv, NEW s \in SnapshotId, NEW f \in Profile, NEW r \in Reading(s, f),
         GenerateAnew(s, f, r)
  PROVE  StoreInv'
<1> DEFINE ids == Generated(r.id, f, "generated")
           ca  == WithGenerated(s, r.id, f, "generated")
           ch  == Insert(cache, Key(s, f), ids, MAX_CACHE_ENTRIES, CANDIDATE_TTL, Number(3))
<1>1. r.id \in AnalysisId /\ r.id.snap = s
  BY Before, ReadingOf
<1>2. /\ Stores /\ answer' = Listed(ids, s) /\ project' = project
      /\ Settle(snapshots, Analysed(r), ca, plans, transactions, ch)
  BY DEF GenerateAnew
<1>3. "generated" \in Form
  BY DEF Form
<1>4. ids \in SUBSET CandidateId /\ \A i \in ids : i.ana = r.id
  BY <1>1, <1>3, GeneratedTyped
<1>5. ca \in SUBSET Entries(CandidateId, CandidateRecord) /\ WellBound(ca)
  BY <1>1, <1>3, WithGeneratedKeeps
<1>6. Analysed(r) \in SUBSET Entries(AnalysisId, AnalysisId)
  BY <1>1, Before, AnalysedTyped
<1> HIDE DEF ids, ca
<1>7. \A i \in ids : i.ana.snap.mat = s.mat
  BY <1>1, <1>4
<1>8. ch \in SUBSET Entries(CacheKey, SUBSET CandidateId) /\ WellCached(ch)
  BY <1>4, <1>7, CachePut
<1> HIDE DEF ch
<1>9. answer' \subseteq [id : CandidateId, snap : SnapshotId]
  BY <1>2, <1>4, ListedTyped
<1>10. calls' \in Nat
  BY <1>2, CallsTyped
<1> QED
  BY <1>2, <1>5, <1>6, <1>8, <1>9, <1>10, Before, SettleKeeps

LEMMA GenerateFailsKeeps ==
  ASSUME StoreInv, NEW s \in SnapshotId, NEW f \in Profile, NEW r \in Reading(s, f),
         GenerateFails(s, f, r)
  PROVE  StoreInv'
<1>1. r.id \in AnalysisId
  BY Before, ReadingOf
<1>2. /\ Stores /\ answer' = {} /\ project' = project
      /\ Settle(snapshots, Analysed(r), candidates, plans, transactions, cache)
  BY DEF GenerateFails
<1>3. Analysed(r) \in SUBSET Entries(AnalysisId, AnalysisId)
  BY <1>1, Before, AnalysedTyped
<1> QED
  BY <1>2, <1>3, Before, CallsTyped, SettleKeeps

LEMMA GenerateKeeps == StoreInv /\ Generate => StoreInv'
<1> SUFFICES ASSUME StoreInv, Generate PROVE StoreInv'
  OBVIOUS
<1>1. PICK s \in Ids(Live(snapshots)), f \in Profile : \E r \in Reading(s, f) :
        GenerateCached(s, f, r) \/ GenerateAnew(s, f, r) \/ GenerateFails(s, f, r)
  BY DEF Generate
<1>2. s \in SnapshotId
  BY Before, LiveIds
<1> QED
  BY <1>1, <1>2, GenerateCachedKeeps, GenerateAnewKeeps, GenerateFailsKeeps

\* What a reharmonization works from: a snapshot and an analysis of it.
LEMMA FromOf ==
  ASSUME StoreInv, NEW f \in Profile, NEW from \in ReharmonizesFrom(f)
  PROVE  /\ from[1] \in SnapshotId
         /\ from[2].id \in AnalysisId /\ from[2].id.snap = from[1]
<1>1. CASE \E c \in Live(candidates) :
             from = <<c.val.snap, [id |-> c.val.ana, new |-> FALSE]>>
  <2>1. PICK c \in Live(candidates) :
          from = <<c.val.snap, [id |-> c.val.ana, new |-> FALSE]>>
    BY <1>1
  <2>2. c \in candidates /\ c \in Entries(CandidateId, CandidateRecord)
    BY Before, LiveIds
  <2>3. c.val \in [snap : SnapshotId, ana : AnalysisId]
    BY <2>2 DEF Entries, CandidateRecord
  <2>4. c.val.ana.snap = c.val.snap
    BY <2>2, Before DEF WellBound
  <2>5. from[1] = c.val.snap /\ from[2].id = c.val.ana
    BY <2>1
  <2> QED
    BY <2>3, <2>4, <2>5
<1>2. CASE \E s \in Ids(Live(snapshots)) : from \in {s} \X Reading(s, f)
  <2>1. PICK s \in Ids(Live(snapshots)) : from \in {s} \X Reading(s, f)
    BY <1>2
  <2>2. from[1] = s /\ from[2] \in Reading(s, f)
    BY <2>1
  <2>3. s \in SnapshotId
    BY Before, LiveIds
  <2>4. from[2].id \in AnalysisId /\ from[2].id.snap = s
    BY <2>2, <2>3, Before, ReadingOf
  <2> QED
    BY <2>2, <2>3, <2>4
<1> QED
  BY <1>1, <1>2 DEF ReharmonizesFrom

LEMMA ReharmonizeKeeps == StoreInv /\ Reharmonize => StoreInv'
<1> SUFFICES ASSUME StoreInv, Reharmonize PROVE StoreInv'
  OBVIOUS
<1>0. PICK f \in Profile, form \in {"generated", "reharmonized"} :
        \E from \in ReharmonizesFrom(f) :
        LET s == from[1]  r == from[2] IN
        /\ Stores
        /\ Settle(snapshots, Analysed(r), WithGenerated(s, r.id, f, form), plans,
                  transactions, cache)
        /\ answer' = Listed(Generated(r.id, f, form), s)
        /\ UNCHANGED project
  BY DEF Reharmonize
<1>1. PICK from \in ReharmonizesFrom(f) :
        /\ Stores /\ project' = project
        /\ Settle(snapshots, Analysed(from[2]),
                  WithGenerated(from[1], from[2].id, f, form), plans,
                  transactions, cache)
        /\ answer' = Listed(Generated(from[2].id, f, form), from[1])
  BY <1>0
<1>2. /\ from[1] \in SnapshotId
      /\ from[2].id \in AnalysisId /\ from[2].id.snap = from[1]
  BY FromOf
<1>3. form \in Form
  BY DEF Form
<1>4. /\ WithGenerated(from[1], from[2].id, f, form)
           \in SUBSET Entries(CandidateId, CandidateRecord)
      /\ WellBound(WithGenerated(from[1], from[2].id, f, form))
  BY <1>2, <1>3, WithGeneratedKeeps
<1>5. Analysed(from[2]) \in SUBSET Entries(AnalysisId, AnalysisId)
  BY <1>2, Before, AnalysedTyped
<1>6. answer' \subseteq [id : CandidateId, snap : SnapshotId]
  BY <1>1, <1>2, <1>3, GeneratedTyped, ListedTyped
<1>7. calls' \in Nat
  BY <1>1, CallsTyped
<1> QED
  BY <1>1, <1>4, <1>5, <1>6, <1>7, Before, SettleKeeps

\* A derived candidate goes in next to its source, with its labels.
LEMMA WithDerivedKeeps ==
  ASSUME StoreInv, NEW c \in candidates, NEW form \in Form, NEW n \in Nat,
         NEW b \in SUBSET Entries(CandidateId, CandidateRecord), WellBound(b)
  PROVE  /\ WithDerived(b, c, form, n) \in SUBSET Entries(CandidateId, CandidateRecord)
         /\ WellBound(WithDerived(b, c, form, n))
<1>1. c \in [id : CandidateId, val : CandidateRecord, left : Nat, seq : Nat]
  BY Before DEF Entries
<1>2. Derived(c, form) \in CandidateId /\ Derived(c, form).ana = c.id.ana
  BY <1>1 DEF Derived, CandidateId
<1>3. c.val.ana.snap = c.val.snap /\ c.val.snap.mat = c.id.ana.snap.mat
  BY Before DEF WellBound
<1>4. Number(n) \in Nat
  BY Before, Numbers
<1> QED
  BY <1>1, <1>2, <1>3, <1>4, OneMore DEF WithDerived

LEMMA ArrangeKeeps == StoreInv /\ Arrange => StoreInv'
<1> SUFFICES ASSUME StoreInv, Arrange PROVE StoreInv'
  OBVIOUS
<1>1. PICK c \in Live(candidates) :
        /\ Stores /\ answer' = {} /\ project' = project
        /\ Settle(snapshots, analyses, WithDerived(candidates, c, "arranged", 1), plans,
                  transactions, cache)
  BY DEF Arrange
<1>2. c \in candidates /\ "arranged" \in Form
  BY Before, LiveIds DEF Form
<1>3. /\ WithDerived(candidates, c, "arranged", 1)
           \in SUBSET Entries(CandidateId, CandidateRecord)
      /\ WellBound(WithDerived(candidates, c, "arranged", 1))
  BY <1>2, Before, WithDerivedKeeps
<1> QED
  BY <1>1, <1>3, Before, CallsTyped, SettleKeeps

LEMMA VoiceKeeps == StoreInv /\ Voice => StoreInv'
<1> SUFFICES ASSUME StoreInv, Voice PROVE StoreInv'
  OBVIOUS
<1>0. PICK c \in Live(candidates) : \E all \in BOOLEAN :
        LET one == WithDerived(candidates, c, "voiced_1", 1) IN
        /\ Stores
        /\ Settle(snapshots, analyses,
                  IF all THEN WithDerived(one, c, "voiced_2", 2) ELSE one,
                  plans, transactions, cache)
        /\ answer' = {} /\ project' = project
  BY DEF Voice
<1>1. PICK all \in BOOLEAN :
        LET one == WithDerived(candidates, c, "voiced_1", 1) IN
        /\ Stores
        /\ Settle(snapshots, analyses,
                  IF all THEN WithDerived(one, c, "voiced_2", 2) ELSE one,
                  plans, transactions, cache)
        /\ answer' = {} /\ project' = project
  BY <1>0
<1> DEFINE one == WithDerived(candidates, c, "voiced_1", 1)
           two == WithDerived(one, c, "voiced_2", 2)
           left == IF all THEN two ELSE one
<1>2. c \in candidates /\ {"voiced_1", "voiced_2"} \subseteq Form
  BY Before, LiveIds DEF Form
<1>3. one \in SUBSET Entries(CandidateId, CandidateRecord) /\ WellBound(one)
  BY <1>2, Before, WithDerivedKeeps
<1>4. /\ Stores /\ answer' = {} /\ project' = project
      /\ Settle(snapshots, analyses, left, plans, transactions, cache)
  BY <1>1
<1> HIDE DEF one
<1>5. two \in SUBSET Entries(CandidateId, CandidateRecord) /\ WellBound(two)
  BY <1>2, <1>3, WithDerivedKeeps
<1> HIDE DEF two
<1>6. left \in SUBSET Entries(CandidateId, CandidateRecord) /\ WellBound(left)
  BY <1>3, <1>5
<1> HIDE DEF left
<1> QED
  BY <1>4, <1>6, Before, CallsTyped, SettleKeeps

LEMMA StageKeeps ==
  ASSUME StoreInv, NEW c \in Live(candidates), NEW staged, NEW heard,
         Stage(c, staged, heard)
  PROVE  StoreInv'
<1> DEFINE t == [cand |-> c.id, snap |-> c.val.snap, status |-> "staged"]
           p == [cand |-> c.id, snap |-> c.val.snap]
           put == Insert(transactions, calls, t, MAX_TRANSACTIONS, TRANSACTION_TTL, Number(5))
           tx == IF heard THEN put ELSE transactions
           pl == WithPlan(c)
<1>1. c \in Entries(CandidateId, CandidateRecord)
  BY Before, LiveIds
<1>2. c.id \in CandidateId /\ c.val.snap \in SnapshotId
  BY <1>1 DEF Entries, CandidateRecord
<1>3. /\ t \in [cand : CandidateId, snap : SnapshotId, status : Status]
      /\ p \in [cand : CandidateId, snap : SnapshotId]
  BY <1>2 DEF Status
<1>4. PLAN_TTL \in Nat /\ TRANSACTION_TTL \in Nat /\ Number(4) \in Nat /\ Number(5) \in Nat
  BY Before, Numbers
<1>5. pl = Insert(plans, calls, p, MAX_PLANS, PLAN_TTL, Number(4))
  BY DEF WithPlan
<1>6. /\ Stores /\ answer' = {} /\ Settle(snapshots, analyses, candidates, pl, tx, cache)
  BY DEF Stage
<1>7. project' \in [mat : Material, count : Nat]
  <2>1. CASE staged
    <3>1. Counted(project.mat) /\ project.mat \in Material
      BY <2>1, Before DEF Stage
    <3> QED
      BY <3>1, CountedTyped
  <2>2. CASE ~staged
    BY <2>2, Before DEF Stage
  <2> QED
    BY <2>1, <2>2
<1> HIDE DEF t, p
<1>8. pl \in SUBSET Entries(Nat, [cand : CandidateId, snap : SnapshotId])
  <2> HIDE DEF pl
  <2>1. plans \in SUBSET Entries(Nat, [cand : CandidateId, snap : SnapshotId]) /\ calls \in Nat
    BY Before
  <2>2. Insert(plans, calls, p, MAX_PLANS, PLAN_TTL, Number(4))
          \subseteq Entries(Nat, [cand : CandidateId, snap : SnapshotId])
    BY <1>3, <1>4, <2>1, InsertTyped
  <2> QED
    BY <1>5, <2>2
<1>9. put \in SUBSET Entries(Nat, [cand : CandidateId, snap : SnapshotId, status : Status])
  BY <1>3, <1>4, Before, InsertTyped
<1> HIDE DEF pl, put
<1>10. tx \in SUBSET Entries(Nat, [cand : CandidateId, snap : SnapshotId, status : Status])
  BY <1>9, Before
<1> HIDE DEF tx
<1> QED
  BY <1>6, <1>7, <1>8, <1>10, Before, CallsTyped, SettleKeeps

\* Marking a transaction changes its status and nothing else.
LEMMA MarkedKeeps ==
  ASSUME StoreInv, NEW id, NEW status \in Status
  PROVE  /\ Marked(id, status) \in SUBSET Entries(Nat, [cand : CandidateId,
                                                 snap : SnapshotId, status : Status])
         /\ \A d \in Marked(id, status) : d.id \in Ids(transactions)
<1> SUFFICES ASSUME NEW d \in Marked(id, status)
             PROVE  /\ d \in Entries(Nat, [cand : CandidateId, snap : SnapshotId,
                                           status : Status])
                    /\ \E e \in transactions : d.id = e.id
  BY DEF Ids
<1>1. PICK e \in transactions : d = IF e.id = id THEN [e EXCEPT !.val.status = status] ELSE e
  BY DEF Marked
<1>2. e \in [id : Nat, val : [cand : CandidateId, snap : SnapshotId, status : Status],
             left : Nat, seq : Nat]
  BY Before DEF Entries
<1>3. CASE e.id = id
  <2>1. d = [e EXCEPT !.val.status = status]
    BY <1>1, <1>3
  <2> QED
    BY <1>2, <2>1 DEF Entries
<1>4. CASE e.id # id
  BY <1>1, <1>2, <1>4 DEF Entries
<1> QED
  BY <1>3, <1>4

LEMMA ActKeeps ==
  ASSUME StoreInv, NEW t, NEW status \in Status, Act(t, status)
  PROVE  StoreInv'
<1>1. /\ Settle(snapshots, analyses, candidates, plans, Marked(t.id, status), cache)
      /\ Counted(project.mat) /\ answer' = {} /\ calls' = calls
  BY DEF Act
<1>2. project' \in [mat : Material, count : Nat]
  <2>1. project.mat \in Material
    BY Before
  <2> QED
    BY <1>1, <2>1, CountedTyped
<1>3. Marked(t.id, status) \in SUBSET Entries(Nat, [cand : CandidateId, snap : SnapshotId,
                                                    status : Status])
  BY MarkedKeeps
<1> QED
  BY <1>1, <1>2, <1>3, Before, SettleKeeps

LEMMA NextKeeps == StoreInv /\ [Next]_vars => StoreInv'
<1> SUFFICES ASSUME StoreInv, [Next]_vars PROVE StoreInv'
  OBVIOUS
<1>1. CASE Next
  <2>1. ASSUME NEW c \in Live(candidates), NEW staged \in BOOLEAN, NEW heard \in BOOLEAN,
               Stage(c, staged, heard)
        PROVE  StoreInv'
    BY <2>1, StageKeeps
  <2>2. ASSUME NEW t \in Live(transactions), NEW status \in Status \ {"staged"},
               Act(t, status)
        PROVE  StoreInv'
    BY <2>2, ActKeeps
  <2> QED
    BY <1>1, <2>1, <2>2, TickStoreInv, ReadsKeeps, UserEditsKeeps, InspectKeeps,
       AnalyzeKeeps, GenerateKeeps, ReharmonizeKeeps, ArrangeKeeps, VoiceKeeps DEF Next
<1>2. CASE UNCHANGED vars
  BY <1>2 DEF vars, StoreInv, TypeOK, WellBound, WellCached
<1> QED
  BY <1>1, <1>2

\* The store's inductive invariant.
THEOREM StoreInvariant == Spec => []StoreInv
<1> QED
  BY InitStoreInv, NextKeeps, PTL DEF Spec

-----------------------------------------------------------------------------
(* What the properties say.                                                *)

\* Every variable keeps its shape, whatever tools are called.
THEOREM TypeCorrect == Spec => []TypeOK
<1>1. StoreInv => TypeOK
  BY DEF StoreInv
<1> QED
  BY <1>1, StoreInvariant, PTL

\* A candidate is always bound to an analysis of the snapshot it is bound to.
THEOREM LabelsAlwaysAgree == Spec => []LabelsAgree
<1>1. StoreInv => LabelsAgree
  BY DEF StoreInv, WellBound, LabelsAgree
<1> QED
  BY <1>1, StoreInvariant, PTL

\* A candidate is never bound to a snapshot of other material than it was made
\* for.
THEOREM CandidatesNeverStale == Spec => []NeverStale
<1>1. StoreInv => NeverStale
  BY DEF StoreInv, WellBound, NeverStale
<1> QED
  BY <1>1, StoreInvariant, PTL

\* Only a staging that the bridge has heard puts in a transaction, and it is of
\* a candidate made for what is in the project.
LEMMA StageFits ==
  ASSUME StoreInv, NEW c \in Live(candidates), NEW staged, NEW heard,
         Stage(c, staged, heard), NEW t \in transactions', t.id \notin Ids(transactions)
  PROVE  t.val.cand.ana.snap.mat = project.mat
<1> DEFINE new == [cand |-> c.id, snap |-> c.val.snap, status |-> "staged"]
           put == Insert(transactions, calls, new, MAX_TRANSACTIONS, TRANSACTION_TTL, Number(5))
           entry == [id |-> calls, val |-> new, left |-> TRANSACTION_TTL, seq |-> Number(5)]
<1>1. transactions' = Live(IF heard THEN put ELSE transactions)
  BY DEF Stage, Settle
<1>2. t \notin transactions
  BY DEF Ids
<1>3. heard /\ t \in put
  BY <1>1, <1>2, LiveSubset
<1>4. put \subseteq transactions \cup {entry}
  BY InsertMembers
<1> HIDE DEF put
<1>5. t = entry
  BY <1>2, <1>3, <1>4
<1>6. t.val.cand = c.id
  BY <1>5
<1>7. project.mat = c.val.snap.mat
  BY <1>3 DEF Stage, Holds
<1>8. c.val.snap.mat = c.id.ana.snap.mat
  BY Before, LiveIds DEF WellBound
<1> QED
  BY <1>6, <1>7, <1>8

\* What is staged was made for the material that is in the project.
THEOREM StagedIsForThis == Spec => StagedForThis
<1> DEFINE Fits == \A t \in transactions' :
                     t.id \notin Ids(transactions) => t.val.cand.ana.snap.mat = project.mat
<1>1. StoreInv /\ [Next]_vars => [Fits]_vars
  <2> SUFFICES ASSUME StoreInv, Next PROVE Fits
    BY DEF vars
  <2>1. ASSUME transactions' = Live(transactions) \/ transactions' = transactions
        PROVE  Fits
    BY <2>1, LiveSubset DEF Ids
  <2>2. ASSUME Tick PROVE Fits
    <3>1. \A d \in transactions' : \E e \in transactions :
            d = [e EXCEPT !.left = IF @ > 0 THEN @ - 1 ELSE 0]
      BY <2>2 DEF Tick
    <3>2. \A e \in transactions : e \in [id : Nat,
            val : [cand : CandidateId, snap : SnapshotId, status : Status],
            left : Nat, seq : Nat]
      BY Before DEF Entries
    <3>3. \A d \in transactions' : \E e \in transactions : d.id = e.id
      BY <3>1, <3>2
    <3> QED
      BY <3>3 DEF Ids
  <2>3. ASSUME Reads \/ UserEdits \/ Inspect PROVE Fits
    BY <2>1, <2>3 DEF Reads, UserEdits, Inspect, Settle
  <2>4. ASSUME Analyze \/ Reharmonize \/ Arrange \/ Voice PROVE Fits
    BY <2>1, <2>4 DEF Analyze, Reharmonize, Arrange, Voice, Settle
  <2>5. ASSUME Generate PROVE Fits
    <3>1. PICK s \in Ids(Live(snapshots)), f \in Profile : \E r \in Reading(s, f) :
            GenerateCached(s, f, r) \/ GenerateAnew(s, f, r) \/ GenerateFails(s, f, r)
      BY <2>5 DEF Generate
    <3>2. transactions' = Live(transactions)
      BY <3>1 DEF GenerateCached, GenerateAnew, GenerateFails, Settle
    <3> QED
      BY <2>1, <3>2
  <2>6. ASSUME NEW c \in Live(candidates), NEW staged \in BOOLEAN, NEW heard \in BOOLEAN,
               Stage(c, staged, heard)
        PROVE  Fits
    BY <2>6, StageFits
  <2>7. ASSUME NEW t \in Live(transactions), NEW status \in Status \ {"staged"},
               Act(t, status)
        PROVE  Fits
    <3>1. transactions' = Live(Marked(t.id, status))
      BY <2>7 DEF Act, Settle
    <3>2. \A d \in Marked(t.id, status) : d.id \in Ids(transactions)
      BY MarkedKeeps
    <3> QED
      BY <3>1, <3>2, LiveSubset
  <2> QED
    BY <2>2, <2>3, <2>4, <2>5, <2>6, <2>7 DEF Next
<1> QED
  BY <1>1, StoreInvariant, PTL DEF Spec, StagedForThis

-----------------------------------------------------------------------------
(* No bucket outgrows its capacity.                                        *)

Sized(b, n) == IsFiniteSet(b) /\ Bucket(b, n)

\* The least number among those of a bucket's entries is one of theirs.
LEMMA OldestExists ==
  ASSUME NEW I, NEW V, NEW b \in SUBSET Entries(I, V), b # {}
  PROVE  Oldest(b) # {}
<1> DEFINE nums == {e.seq : e \in b}
<1>1. \A e \in b : e.seq \in Nat
  BY DEF Entries
<1>2. nums \subseteq Nat /\ nums # {}
  BY <1>1
<1>3. \E x \in nums : \A y \in nums : ~(<<y, x>> \in OpToRel(<, Nat))
  <2> HIDE DEF nums
  <2> QED
    BY <1>2, WFMin, NatLessThanWellFounded
<1>4. PICK x \in nums : \A y \in nums : ~(<<y, x>> \in OpToRel(<, Nat))
  BY <1>3
<1>5. \A y \in nums : ~(y < x)
  BY <1>2, <1>4 DEF OpToRel
<1>6. PICK e \in b : e.seq = x
  OBVIOUS
<1>7. \A f \in b : e.seq <= f.seq
  BY <1>1, <1>5, <1>6
<1> QED
  BY <1>6, <1>7 DEF Oldest

LEMMA LessIsSized ==
  ASSUME NEW n \in Nat, NEW b, Sized(b, n), NEW c \in SUBSET b
  PROVE  Sized(c, n)
<1>1. IsFiniteSet(c) /\ Cardinality(c) <= Cardinality(b)
  BY FS_Subset DEF Sized
<1>2. Cardinality(c) \in Nat /\ Cardinality(b) \in Nat
  BY <1>1, FS_CardinalityType DEF Sized
<1> QED
  BY <1>1, <1>2 DEF Sized, Bucket

\* A bucket with something taken out has room for one more.
LEMMA OneOut ==
  ASSUME NEW n \in Nat, NEW b, Sized(b, n), NEW c \in SUBSET b, c # b
  PROVE  Sized(c, n) /\ Cardinality(c) < n
<1>1. Sized(c, n)
  BY LessIsSized
<1>2. Cardinality(c) <= Cardinality(b) /\ Cardinality(c) # Cardinality(b)
  BY FS_Subset DEF Sized
<1>3. Cardinality(c) \in Nat /\ Cardinality(b) \in Nat
  BY <1>1, FS_CardinalityType DEF Sized
<1> QED
  BY <1>1, <1>2, <1>3 DEF Sized, Bucket

\* An insertion makes room first.
LEMMA InsertSized ==
  ASSUME NEW I, NEW V, NEW b \in SUBSET Entries(I, V), NEW n \in Nat \ {0}, Sized(b, n),
         NEW id, NEW val, NEW ttl, NEW seq
  PROVE  Sized(Insert(b, id, val, n, ttl, seq), n)
<1> DEFINE live == Live(b)
           kept == IF Cardinality(live) >= n /\ id \notin Ids(live)
                     THEN live \ Oldest(live) ELSE live
           others == {e \in kept : e.id # id}
           new == [id |-> id, val |-> val, left |-> ttl, seq |-> seq]
<1>1. live \in SUBSET b /\ live \in SUBSET Entries(I, V)
  BY LiveSubset
<1>2. Sized(live, n)
  BY <1>1, LessIsSized
<1>3. Cardinality(live) \in Nat
  BY <1>2, FS_CardinalityType DEF Sized
<1> HIDE DEF live
<1>4. others \in SUBSET live
  OBVIOUS
<1>5. Sized(others, n) /\ Cardinality(others) < n
  <2>1. CASE id \in Ids(live)
    <3>1. PICK e \in live : e.id = id
      BY <2>1 DEF Ids
    <3>2. others # live
      BY <3>1
    <3> QED
      BY <1>2, <1>4, <3>2, OneOut
  <2>2. CASE id \notin Ids(live) /\ Cardinality(live) >= n
    <3>1. live # {}
      BY <1>3, <2>2, FS_EmptySet
    <3>2. Oldest(live) # {}
      BY <1>1, <3>1, OldestExists
    <3>3. Oldest(live) \subseteq live
      BY DEF Oldest
    <3>4. others # live
      BY <2>2, <3>2, <3>3
    <3> QED
      BY <1>2, <1>4, <3>4, OneOut
  <2>3. CASE id \notin Ids(live) /\ ~(Cardinality(live) >= n)
    <3>1. Sized(others, n)
      BY <1>2, <1>4, LessIsSized
    <3>2. Cardinality(others) <= Cardinality(live)
      BY <1>2, <1>4, FS_Subset DEF Sized
    <3>3. Cardinality(others) \in Nat
      BY <3>1, FS_CardinalityType DEF Sized
    <3> QED
      BY <1>3, <2>3, <3>1, <3>2, <3>3
  <2> QED
    BY <2>1, <2>2, <2>3
<1>6. \A e \in others : e.id # id
  OBVIOUS
<1>7. new.id = id
  OBVIOUS
<1>8. Insert(b, id, val, n, ttl, seq) = others \cup {new}
  BY DEF Insert, live
<1> HIDE DEF others, new
<1>9. /\ IsFiniteSet(others \cup {new})
      /\ Cardinality(others \cup {new}) = Cardinality(others) + 1
  BY <1>5, <1>6, <1>7, FS_AddElement DEF Sized
<1>10. Cardinality(others) \in Nat
  BY <1>5, FS_CardinalityType DEF Sized
<1>11. Cardinality(others \cup {new}) <= n
  BY <1>5, <1>9, <1>10
<1>12. \A e, f \in others \cup {new} : e.id = f.id => e = f
  BY <1>5, <1>6, <1>7 DEF Sized, Bucket
<1> QED
  BY <1>8, <1>9, <1>11, <1>12 DEF Sized, Bucket

\* Entries that change and keep their ids are no more than they were.
LEMMA ChangedSized ==
  ASSUME NEW n \in Nat, NEW b, Sized(b, n), NEW g, NEW c, c = {g[e] : e \in b},
         \A e \in b : g[e].id = e.id
  PROVE  Sized(c, n)
<1> DEFINE h == [e \in b |-> g[e]]
<1>1. h \in [b -> c] /\ \A t \in c : \E s \in b : h[s] = t
  OBVIOUS
<1>2. h \in Surjection(b, c)
  BY <1>1 DEF Surjection
<1> HIDE DEF h
<1>3. IsFiniteSet(c) /\ Cardinality(c) <= Cardinality(b)
  BY <1>2, FS_Surjection DEF Sized
<1>4. Cardinality(c) \in Nat /\ Cardinality(b) \in Nat
  BY <1>3, FS_CardinalityType DEF Sized
<1>5. \A e, f \in c : e.id = f.id => e = f
  BY DEF Sized, Bucket
<1> QED
  BY <1>3, <1>4, <1>5 DEF Sized, Bucket

AllSized ==
  /\ Sized(snapshots, MAX_SNAPSHOTS)   /\ Sized(analyses, MAX_ANALYSES)
  /\ Sized(candidates, MAX_CANDIDATES) /\ Sized(plans, MAX_PLANS)
  /\ Sized(transactions, MAX_TRANSACTIONS) /\ Sized(cache, MAX_CACHE_ENTRIES)

LEMMA Capacities ==
  /\ {MAX_SNAPSHOTS, MAX_ANALYSES, MAX_CANDIDATES, MAX_PLANS, MAX_TRANSACTIONS,
      MAX_CACHE_ENTRIES} \subseteq Nat \ {0}
BY SessionAssumption

LEMMA SettleSized ==
  ASSUME NEW sn, NEW an, NEW ca, NEW pl, NEW tx, NEW ch,
         Sized(sn, MAX_SNAPSHOTS), Sized(an, MAX_ANALYSES), Sized(ca, MAX_CANDIDATES),
         Sized(pl, MAX_PLANS), Sized(tx, MAX_TRANSACTIONS), Sized(ch, MAX_CACHE_ENTRIES),
         Settle(sn, an, ca, pl, tx, ch)
  PROVE  AllSized'
<1>1. /\ snapshots' = Live(sn) /\ analyses' = Live(an) /\ candidates' = Live(ca)
      /\ plans' = Live(pl) /\ transactions' = Live(tx) /\ cache' = Live(ch)
  BY DEF Settle
<1>2. /\ Sized(snapshots', MAX_SNAPSHOTS) /\ Sized(analyses', MAX_ANALYSES)
      /\ Sized(candidates', MAX_CANDIDATES)
  BY <1>1, LiveSubset, LessIsSized, Capacities
<1>3. /\ Sized(plans', MAX_PLANS) /\ Sized(transactions', MAX_TRANSACTIONS)
      /\ Sized(cache', MAX_CACHE_ENTRIES)
  BY <1>1, LiveSubset, LessIsSized, Capacities
<1> QED
  BY <1>2, <1>3 DEF AllSized, Sized, Bucket

LEMMA WithAnalysisSized ==
  ASSUME StoreInv, AllSized, NEW a
  PROVE  Sized(WithAnalysis(a), MAX_ANALYSES)
<1>1. analyses \in SUBSET Entries(AnalysisId, AnalysisId) /\ Sized(analyses, MAX_ANALYSES)
  BY Before DEF AllSized
<1> QED
  BY <1>1, InsertSized, Capacities DEF WithAnalysis

LEMMA AnalysedSized ==
  ASSUME StoreInv, AllSized, NEW r
  PROVE  Sized(Analysed(r), MAX_ANALYSES)
BY WithAnalysisSized DEF Analysed, AllSized

LEMMA WithGeneratedSized ==
  ASSUME StoreInv, AllSized, NEW s \in SnapshotId, NEW a \in AnalysisId, a.snap = s,
         NEW f \in Profile, NEW form \in Form
  PROVE  Sized(WithGenerated(s, a, f, form), MAX_CANDIDATES)
<1> DEFINE id(n) == [ana |-> a, req |-> f, no |-> n, form |-> form]
           rec == [snap |-> s, ana |-> a]
           one == Insert(candidates, id(1), rec, MAX_CANDIDATES, CANDIDATE_TTL, Number(1))
           two == Insert(one, id(2), rec, MAX_CANDIDATES, CANDIDATE_TTL, Number(2))
<1>1. /\ candidates \in SUBSET Entries(CandidateId, CandidateRecord)
      /\ Sized(candidates, MAX_CANDIDATES) /\ Number(1) \in Nat /\ CANDIDATE_TTL \in Nat
  BY Before, Numbers DEF AllSized
<1>2. id(1) \in CandidateId /\ rec \in CandidateRecord
  BY DEF CandidateId, CandidateRecord
<1>3. WithGenerated(s, a, f, form) = two
  BY DEF WithGenerated
<1> HIDE DEF id, rec
<1>4. one \in SUBSET Entries(CandidateId, CandidateRecord)
  BY <1>1, <1>2, InsertTyped
<1>5. Sized(one, MAX_CANDIDATES)
  BY <1>1, InsertSized, Capacities
<1> HIDE DEF one
<1>6. Sized(two, MAX_CANDIDATES)
  BY <1>4, <1>5, InsertSized, Capacities
<1> QED
  BY <1>3, <1>6

LEMMA ReboundSized ==
  ASSUME StoreInv, AllSized, NEW ids, NEW s, NEW a
  PROVE  Sized(Rebound(ids, s, a), MAX_CANDIDATES)
<1> DEFINE g == [c \in candidates |->
                   IF c.id \in ids THEN [c EXCEPT !.val.snap = s, !.val.ana = a] ELSE c]
<1>1. \A c \in candidates : c \in [id : CandidateId, val : CandidateRecord,
                                   left : Nat, seq : Nat]
  BY Before DEF Entries
<1>2. ASSUME NEW c \in candidates
      PROVE  [c EXCEPT !.val.snap = s, !.val.ana = a].id = c.id
  BY <1>1
<1>3. \A c \in candidates : g[c].id = c.id
  BY <1>2
<1>4. Rebound(ids, s, a) = {g[c] : c \in candidates}
  BY DEF Rebound
<1> HIDE DEF g
<1> QED
  BY <1>3, <1>4, ChangedSized, Capacities DEF AllSized

LEMMA MarkedSized ==
  ASSUME StoreInv, AllSized, NEW id, NEW status
  PROVE  Sized(Marked(id, status), MAX_TRANSACTIONS)
<1> DEFINE g == [e \in transactions |->
                   IF e.id = id THEN [e EXCEPT !.val.status = status] ELSE e]
<1>1. \A e \in transactions :
        e \in [id : Nat, val : [cand : CandidateId, snap : SnapshotId, status : Status],
               left : Nat, seq : Nat]
  BY Before DEF Entries
<1>2. ASSUME NEW e \in transactions PROVE [e EXCEPT !.val.status = status].id = e.id
  BY <1>1
<1>3. \A e \in transactions : g[e].id = e.id
  BY <1>2
<1>4. Marked(id, status) = {g[e] : e \in transactions}
  BY DEF Marked
<1> HIDE DEF g
<1> QED
  BY <1>3, <1>4, ChangedSized, Capacities DEF AllSized

LEMMA TickSized == StoreInv /\ AllSized /\ Tick => AllSized'
<1> SUFFICES ASSUME StoreInv, AllSized, Tick PROVE AllSized'
  OBVIOUS
<1> DEFINE Older(e) == [e EXCEPT !.left = IF @ > 0 THEN @ - 1 ELSE 0]
           Old(b) == {Older(e) : e \in b}
<1>1. ASSUME NEW I, NEW V, NEW b \in SUBSET Entries(I, V), NEW n \in Nat, Sized(b, n)
      PROVE  Sized(Old(b), n)
  <2> DEFINE g == [e \in b |-> Older(e)]
  <2>1. \A e \in b : e \in [id : I, val : V, left : Nat, seq : Nat]
    BY DEF Entries
  <2>2. \A e \in b : g[e].id = e.id
    BY <2>1
  <2>3. Old(b) = {g[e] : e \in b}
    OBVIOUS
  <2> HIDE DEF g, Old
  <2> QED
    BY <1>1, <2>2, <2>3, ChangedSized
<1>2. /\ snapshots' = Old(snapshots) /\ analyses' = Old(analyses)
      /\ candidates' = Old(candidates) /\ plans' = Old(plans)
      /\ transactions' = Old(transactions) /\ cache' = Old(cache)
  BY DEF Tick
<1> HIDE DEF Old
<1>3. /\ Sized(snapshots', MAX_SNAPSHOTS) /\ Sized(analyses', MAX_ANALYSES)
      /\ Sized(candidates', MAX_CANDIDATES)
  BY <1>1, <1>2, Before, Capacities DEF AllSized
<1>4. /\ Sized(plans', MAX_PLANS) /\ Sized(transactions', MAX_TRANSACTIONS)
      /\ Sized(cache', MAX_CACHE_ENTRIES)
  BY <1>1, <1>2, Before, Capacities DEF AllSized
<1> QED
  BY <1>3, <1>4 DEF AllSized, Sized, Bucket

\* The calls that read the project, and the ones that act on a transaction.
LEMMA PlainSized ==
  StoreInv /\ AllSized /\ (Reads \/ UserEdits \/ Inspect \/ Analyze) => AllSized'
<1> SUFFICES ASSUME StoreInv, AllSized, Reads \/ UserEdits \/ Inspect \/ Analyze
             PROVE  AllSized'
  OBVIOUS
<1>1. CASE Reads
  BY <1>1, SettleSized DEF Reads, AllSized
<1>2. CASE UserEdits
  BY <1>2 DEF UserEdits, AllSized, Sized, Bucket
<1>3. CASE Inspect
  <2>1. PICK s : Settle(Insert(snapshots, s, s, MAX_SNAPSHOTS, SNAPSHOT_TTL, Number(0)),
                        analyses, candidates, plans, transactions, cache)
    BY <1>3 DEF Inspect
  <2>2. Sized(Insert(snapshots, s, s, MAX_SNAPSHOTS, SNAPSHOT_TTL, Number(0)), MAX_SNAPSHOTS)
    BY Before, InsertSized, Capacities DEF AllSized
  <2> QED
    BY <2>1, <2>2, SettleSized DEF AllSized
<1>4. CASE Analyze
  <2>1. PICK a : Settle(snapshots, WithAnalysis(a), candidates, plans, transactions, cache)
    BY <1>4 DEF Analyze
  <2> QED
    BY <2>1, WithAnalysisSized, SettleSized DEF AllSized
<1> QED
  BY <1>1, <1>2, <1>3, <1>4

LEMMA GenerateSized == StoreInv /\ AllSized /\ Generate => AllSized'
<1> SUFFICES ASSUME StoreInv, AllSized, Generate PROVE AllSized'
  OBVIOUS
<1>1. PICK s \in Ids(Live(snapshots)), f \in Profile : \E r \in Reading(s, f) :
        GenerateCached(s, f, r) \/ GenerateAnew(s, f, r) \/ GenerateFails(s, f, r)
  BY DEF Generate
<1>2. PICK r \in Reading(s, f) :
        GenerateCached(s, f, r) \/ GenerateAnew(s, f, r) \/ GenerateFails(s, f, r)
  BY <1>1
<1>3. s \in SnapshotId /\ r.id \in AnalysisId /\ r.id.snap = s
  BY Before, LiveIds, ReadingOf
<1>4. Sized(Analysed(r), MAX_ANALYSES)
  BY AnalysedSized
<1>5. CASE GenerateCached(s, f, r)
  <2>1. PICK ids : Settle(snapshots, Analysed(r), Rebound(ids, s, r.id), plans,
                          transactions, cache)
    BY <1>5 DEF GenerateCached
  <2> QED
    BY <1>4, <2>1, ReboundSized, SettleSized DEF AllSized
<1>6. CASE GenerateAnew(s, f, r)
  <2> DEFINE ca == WithGenerated(s, r.id, f, "generated")
  <2>1. PICK ids : Settle(snapshots, Analysed(r), ca, plans, transactions,
          Insert(cache, Key(s, f), ids, MAX_CACHE_ENTRIES, CANDIDATE_TTL, Number(3)))
    BY <1>6 DEF GenerateAnew
  <2>2. "generated" \in Form
    BY DEF Form
  <2>3. Sized(ca, MAX_CANDIDATES)
    BY <1>3, <2>2, WithGeneratedSized
  <2> HIDE DEF ca
  <2>4. Sized(Insert(cache, Key(s, f), ids, MAX_CACHE_ENTRIES, CANDIDATE_TTL, Number(3)),
              MAX_CACHE_ENTRIES)
    BY Before, InsertSized, Capacities DEF AllSized
  <2> QED
    BY <1>4, <2>1, <2>3, <2>4, SettleSized DEF AllSized
<1>7. CASE GenerateFails(s, f, r)
  BY <1>4, <1>7, SettleSized DEF GenerateFails, AllSized
<1> QED
  BY <1>2, <1>5, <1>6, <1>7

LEMMA ReharmonizeSized == StoreInv /\ AllSized /\ Reharmonize => AllSized'
<1> SUFFICES ASSUME StoreInv, AllSized, Reharmonize PROVE AllSized'
  OBVIOUS
<1>1. PICK f \in Profile, form \in {"generated", "reharmonized"} :
        \E from \in ReharmonizesFrom(f) :
        LET s == from[1]  r == from[2] IN
        Settle(snapshots, Analysed(r), WithGenerated(s, r.id, f, form), plans,
               transactions, cache)
  BY DEF Reharmonize
<1>2. PICK from \in ReharmonizesFrom(f) :
        Settle(snapshots, Analysed(from[2]),
               WithGenerated(from[1], from[2].id, f, form), plans,
               transactions, cache)
  BY <1>1
<1>3. form \in Form
  BY DEF Form
<1>4. Sized(WithGenerated(from[1], from[2].id, f, form), MAX_CANDIDATES)
  BY <1>3, FromOf, WithGeneratedSized
<1> QED
  BY <1>2, <1>4, AnalysedSized, SettleSized DEF AllSized

LEMMA WithDerivedSized ==
  ASSUME NEW b \in SUBSET Entries(CandidateId, CandidateRecord), Sized(b, MAX_CANDIDATES),
         NEW c, NEW form, NEW n
  PROVE  Sized(WithDerived(b, c, form, n), MAX_CANDIDATES)
BY InsertSized, Capacities DEF WithDerived

LEMMA DeriveSized == StoreInv /\ AllSized /\ (Arrange \/ Voice) => AllSized'
<1> SUFFICES ASSUME StoreInv, AllSized, Arrange \/ Voice PROVE AllSized'
  OBVIOUS
<1>1. CASE Arrange
  <2>1. PICK c : Settle(snapshots, analyses, WithDerived(candidates, c, "arranged", 1),
                        plans, transactions, cache)
    BY <1>1 DEF Arrange
  <2>2. Sized(WithDerived(candidates, c, "arranged", 1), MAX_CANDIDATES)
    BY Before, WithDerivedSized DEF AllSized
  <2> QED
    BY <2>1, <2>2, SettleSized DEF AllSized
<1>2. CASE Voice
  <2>1. PICK c \in Live(candidates) : \E all \in BOOLEAN :
          LET one == WithDerived(candidates, c, "voiced_1", 1) IN
          Settle(snapshots, analyses,
                 IF all THEN WithDerived(one, c, "voiced_2", 2) ELSE one,
                 plans, transactions, cache)
    BY <1>2 DEF Voice
  <2> DEFINE one == WithDerived(candidates, c, "voiced_1", 1)
             two == WithDerived(one, c, "voiced_2", 2)
  <2>2. PICK all \in BOOLEAN : Settle(snapshots, analyses, IF all THEN two ELSE one,
                                      plans, transactions, cache)
    BY <2>1
  <2>3. c \in candidates /\ {"voiced_1", "voiced_2"} \subseteq Form
    BY Before, LiveIds DEF Form
  <2>4. Sized(one, MAX_CANDIDATES) /\ one \in SUBSET Entries(CandidateId, CandidateRecord)
    BY <2>3, Before, WithDerivedKeeps, WithDerivedSized DEF AllSized
  <2> HIDE DEF one
  <2>5. Sized(two, MAX_CANDIDATES)
    BY <2>4, WithDerivedSized
  <2> HIDE DEF two
  <2>6. Sized(IF all THEN two ELSE one, MAX_CANDIDATES)
    BY <2>4, <2>5
  <2> QED
    BY <2>2, <2>6, SettleSized DEF AllSized
<1> QED
  BY <1>1, <1>2

LEMMA StageSized ==
  ASSUME StoreInv, AllSized, NEW c, NEW staged, NEW heard, Stage(c, staged, heard)
  PROVE  AllSized'
<1>1. PICK t :
        Settle(snapshots, analyses, candidates, WithPlan(c),
               IF heard THEN Insert(transactions, calls, t, MAX_TRANSACTIONS,
                                    TRANSACTION_TTL, Number(5))
                        ELSE transactions,
               cache)
  BY DEF Stage
<1>2. Sized(WithPlan(c), MAX_PLANS)
  BY Before, InsertSized, Capacities DEF WithPlan, AllSized
<1>3. Sized(Insert(transactions, calls, t, MAX_TRANSACTIONS, TRANSACTION_TTL, Number(5)),
            MAX_TRANSACTIONS)
  BY Before, InsertSized, Capacities DEF AllSized
<1> QED
  BY <1>1, <1>2, <1>3, SettleSized DEF AllSized

LEMMA ActSized ==
  ASSUME StoreInv, AllSized, NEW t, NEW status, Act(t, status)
  PROVE  AllSized'
BY MarkedSized, SettleSized DEF Act, AllSized

LEMMA NextSized == StoreInv /\ AllSized /\ [Next]_vars => AllSized'
<1> SUFFICES ASSUME StoreInv, AllSized, [Next]_vars PROVE AllSized'
  OBVIOUS
<1>1. CASE Next
  BY <1>1, TickSized, PlainSized, GenerateSized, ReharmonizeSized, DeriveSized,
     StageSized, ActSized DEF Next
<1>2. CASE UNCHANGED vars
  BY <1>2 DEF vars, AllSized, Sized, Bucket
<1> QED
  BY <1>1, <1>2

\* No bucket ever holds more than its capacity, nor an id twice.
THEOREM BucketsBounded == Spec => []Bounded
<1>1. Init => AllSized
  BY FS_EmptySet, Capacities DEF Init, AllSized, Sized, Bucket
<1>2. AllSized => Bounded
  BY DEF AllSized, Sized, Bounded
<1>3. StoreInv /\ AllSized /\ [Next]_vars => AllSized'
  BY NextSized
<1> QED
  BY <1>1, <1>2, <1>3, StoreInvariant, PTL DEF Spec

-----------------------------------------------------------------------------
(* What a generation answers with can be read back.  Its second candidate  *)
(* may evict an older one to make room, but never its first: everything    *)
(* that was in the bucket before the call has a lower sequence number.     *)

Earlier == \A c \in candidates : c.seq < Number(0)

\* An entry that an insertion of another id leaves in its bucket.
LEMMA InsertSpares ==
  ASSUME NEW b, NEW e \in Live(b), NEW id, id # e.id,
         NEW val, NEW capacity, NEW ttl, NEW seq,
         e \notin Oldest(Live(b)) \/ ~(Cardinality(Live(b)) >= capacity)
  PROVE  e \in Insert(b, id, val, capacity, ttl, seq)
BY DEF Insert

\* The numbers of a call come after all earlier ones and before all later ones.
LEMMA NumbersGrow ==
  ASSUME calls \in Nat
  PROVE  /\ Number(0) \in Nat /\ Number(1) \in Nat /\ Number(2) \in Nat
         /\ Number(0) + 8 \in Nat
         /\ Number(0) < Number(1) /\ Number(1) < Number(2) /\ Number(2) < Number(0) + 8
BY DEF Number

LEMMA WithGeneratedThere ==
  ASSUME StoreInv, AllSized, Earlier,
         NEW s \in SnapshotId, NEW a \in AnalysisId, NEW f \in Profile, NEW form \in Form,
         NEW i \in Generated(a, f, form)
  PROVE  \E c \in Live(Live(WithGenerated(s, a, f, form))) : c.id = i /\ c.val.snap = s
<1> DEFINE id(n) == [ana |-> a, req |-> f, no |-> n, form |-> form]
           rec == [snap |-> s, ana |-> a]
           new(n) == [id |-> id(n), val |-> rec, left |-> CANDIDATE_TTL, seq |-> Number(n)]
           one == Insert(candidates, id(1), rec, MAX_CANDIDATES, CANDIDATE_TTL, Number(1))
           two == Insert(one, id(2), rec, MAX_CANDIDATES, CANDIDATE_TTL, Number(2))
<1>1. /\ Number(0) \in Nat /\ Number(1) \in Nat /\ Number(0) < Number(1)
      /\ CANDIDATE_TTL > 0 /\ MAX_CANDIDATES \in Nat /\ MAX_CANDIDATES >= 2
  BY Before, NumbersGrow, SessionAssumption
<1>2. WithGenerated(s, a, f, form) = two
  BY DEF WithGenerated
<1>3. new(1) \in one /\ new(2) \in two
  BY DEF Insert
<1>4. one \subseteq candidates \cup {new(1)}
  BY InsertMembers
<1>5. \A n \in {1, 2} : /\ new(n).id = id(n) /\ new(n).val = rec
                        /\ new(n).left = CANDIDATE_TTL /\ new(n).seq = Number(n)
  OBVIOUS
<1>6. id(1) # id(2) /\ rec.snap = s
  OBVIOUS
<1>7. i = id(1) \/ i = id(2)
  BY DEF Generated
<1>8. PICK n1, n2 : n1 = new(1) /\ n2 = new(2)
  OBVIOUS
<1>9. PICK i1, i2, v : i1 = id(1) /\ i2 = id(2) /\ v = rec
  OBVIOUS
<1>10. two = Insert(one, i2, v, MAX_CANDIDATES, CANDIDATE_TTL, Number(2))
  BY <1>9
<1>11. /\ n1 \in one /\ n2 \in two /\ one \subseteq candidates \cup {n1}
       /\ n1.id = i1 /\ n2.id = i2 /\ n1.val.snap = s /\ n2.val.snap = s
       /\ n1.left > 0 /\ n2.left > 0 /\ n1.seq = Number(1)
       /\ i1 # i2 /\ i \in {i1, i2}
  BY <1>1, <1>3, <1>4, <1>5, <1>6, <1>7, <1>8, <1>9
<1> HIDE DEF id, rec, new, one
<1>12. n1 \in Live(one)
  BY <1>11 DEF Live
<1>13. n1 \notin Oldest(Live(one)) \/ ~(Cardinality(Live(one)) >= MAX_CANDIDATES)
  <2>1. CASE Live(one) = {n1}
    <3>1. Cardinality(Live(one)) = 1
      BY <2>1, FS_Singleton
    <3> QED
      BY <1>1, <3>1
  <2>2. CASE Live(one) # {n1}
    <3>1. PICK e \in Live(one) : e # n1
      BY <1>12, <2>2
    <3>2. e \in candidates
      BY <1>11, <3>1, LiveSubset
    <3>3. e.seq < Number(0) /\ e.seq \in Nat
      BY <3>2, Before DEF Earlier, Entries
    <3>4. ~(n1.seq <= e.seq)
      BY <1>1, <1>11, <3>3
    <3> QED
      BY <3>1, <3>4 DEF Oldest
  <2> QED
    BY <2>1, <2>2
<1>14. n1 \in two
  BY <1>10, <1>11, <1>12, <1>13, InsertSpares
<1> HIDE DEF two
<1>15. n1 \in Live(Live(two)) /\ n2 \in Live(Live(two))
  BY <1>11, <1>14 DEF Live
<1> QED
  BY <1>2, <1>11, <1>15

\* A candidate that is re-bound stays in the bucket.
LEMMA ReboundThere ==
  ASSUME StoreInv, NEW ids, ids \subseteq Ids(Live(candidates)),
         NEW s, NEW a, NEW i \in ids
  PROVE  \E c \in Live(Live(Rebound(ids, s, a))) : c.id = i /\ c.val.snap = s
<1>1. PICK c \in candidates : c.id = i /\ c.left > 0
  BY DEF Ids, Live
<1>2. c \in [id : CandidateId, val : [snap : SnapshotId, ana : AnalysisId],
             left : Nat, seq : Nat]
  BY <1>1, Before DEF Entries, CandidateRecord
<1>3. PICK d : d = [c EXCEPT !.val.snap = s, !.val.ana = a]
  OBVIOUS
<1>4. d.id = i /\ d.left > 0 /\ d.val.snap = s
  BY <1>1, <1>2, <1>3
<1>5. d \in Rebound(ids, s, a)
  BY <1>1, <1>3 DEF Rebound
<1> QED
  BY <1>4, <1>5 DEF Live

\* Candidates numbered as before, or by this call.
Numbered(b) ==
  \A d \in b : d.seq \in {Number(1), Number(2)} \/ \E c \in candidates : d.seq = c.seq

LEMMA InsertNumbered ==
  ASSUME NEW b, Numbered(b), NEW id, NEW val, NEW capacity, NEW ttl,
         NEW n \in {1, 2}
  PROVE  Numbered(Insert(b, id, val, capacity, ttl, Number(n)))
<1>1. Insert(b, id, val, capacity, ttl, Number(n))
        \subseteq b \cup {[id |-> id, val |-> val, left |-> ttl, seq |-> Number(n)]}
  BY InsertMembers
<1>2. [id |-> id, val |-> val, left |-> ttl, seq |-> Number(n)].seq \in {Number(1), Number(2)}
  OBVIOUS
<1> QED
  BY <1>1, <1>2 DEF Numbered

LEMMA EarlierStep == StoreInv /\ Earlier /\ [Next]_vars => Earlier'
<1> SUFFICES ASSUME StoreInv, Earlier, [Next]_vars PROVE Earlier'
  OBVIOUS
<1>1. /\ Number(0) \in Nat /\ Number(1) \in Nat /\ Number(2) \in Nat
      /\ Number(1) < Number(0) + 8 /\ Number(2) < Number(0) + 8
  BY Before, NumbersGrow
<1>2. \A c \in candidates : c.seq \in Nat /\ c.seq < Number(0)
  BY Before DEF Entries, Earlier
<1>3. Stores => Number(0)' = Number(0) + 8
  BY Before DEF Stores, Number
<1>4. UNCHANGED calls => Number(0)' = Number(0)
  BY DEF Number
<1>5. ASSUME \A d \in candidates' : \E c \in candidates : d.seq = c.seq,
             Stores \/ UNCHANGED calls
      PROVE  Earlier'
  BY <1>1, <1>2, <1>3, <1>4, <1>5 DEF Earlier
<1>6. ASSUME NEW b, Numbered(b), Stores, candidates' \subseteq b
      PROVE  Earlier'
  <2>1. \A d \in b : d.seq < Number(0) + 8
    BY <1>1, <1>2, <1>6 DEF Numbered
  <2> QED
    BY <1>3, <1>6, <2>1 DEF Earlier
<1>7. Numbered(candidates)
  BY DEF Numbered
<1>8. CASE Tick
  <2>1. \A c \in candidates : c \in [id : CandidateId, val : CandidateRecord,
                                    left : Nat, seq : Nat]
    BY Before DEF Entries
  <2>2. \A d \in candidates' : \E c \in candidates :
          d = [c EXCEPT !.left = IF @ > 0 THEN @ - 1 ELSE 0]
    BY <1>8 DEF Tick
  <2>3. \A d \in candidates' : \E c \in candidates : d.seq = c.seq
    BY <2>1, <2>2
  <2> QED
    BY <1>5, <1>8, <2>3 DEF Tick
<1>9. CASE UserEdits \/ Reads \/ Inspect \/ Analyze
  <2>1. candidates' \subseteq candidates /\ (Stores \/ UNCHANGED calls)
    BY <1>9, LiveSubset DEF UserEdits, Reads, Inspect, Analyze, Settle
  <2> QED
    BY <1>5, <2>1
<1>10. ASSUME NEW c, NEW staged, NEW heard, Stage(c, staged, heard) PROVE Earlier'
  <2>1. candidates' \subseteq candidates /\ Stores
    BY <1>10, LiveSubset DEF Stage, Settle
  <2> QED
    BY <1>5, <2>1
<1>11. ASSUME NEW t, NEW status, Act(t, status) PROVE Earlier'
  <2>1. candidates' \subseteq candidates /\ UNCHANGED calls
    BY <1>11, LiveSubset DEF Act, Settle
  <2> QED
    BY <1>5, <2>1
<1>12. ASSUME NEW s, NEW f, NEW r, GenerateFails(s, f, r) PROVE Earlier'
  <2>1. candidates' \subseteq candidates /\ Stores
    BY <1>12, LiveSubset DEF GenerateFails, Settle
  <2> QED
    BY <1>5, <2>1
<1>13. ASSUME NEW s, NEW f, NEW r, GenerateCached(s, f, r) PROVE Earlier'
  <2>1. PICK ids : Ran(r) /\ candidates' = Live(Rebound(ids, s, r.id))
    BY <1>13 DEF GenerateCached, Settle
  <2>2. \A c \in candidates : c \in [id : CandidateId,
                                    val : [snap : SnapshotId, ana : AnalysisId],
                                    left : Nat, seq : Nat]
    BY Before DEF Entries, CandidateRecord
  <2>3. \A d \in candidates' : \E c \in candidates :
          d = IF c.id \in ids THEN [c EXCEPT !.val.snap = s, !.val.ana = r.id] ELSE c
    BY <2>1, LiveSubset DEF Rebound
  <2>4. \A d \in candidates' : \E c \in candidates : d.seq = c.seq
    BY <2>2, <2>3
  <2> QED
    BY <1>5, <2>1, <2>4 DEF Ran
<1>14. ASSUME NEW s, NEW a, NEW f, NEW form PROVE Numbered(WithGenerated(s, a, f, form))
  BY <1>7, InsertNumbered DEF WithGenerated
<1>15. ASSUME NEW s, NEW f, NEW r, GenerateAnew(s, f, r) PROVE Earlier'
  <2>1. Stores /\ candidates' \subseteq WithGenerated(s, r.id, f, "generated")
    BY <1>15, LiveSubset DEF GenerateAnew, Settle
  <2> QED
    BY <1>6, <1>14, <2>1
<1>16. CASE Reharmonize
  <2>1. PICK f \in Profile, form \in {"generated", "reharmonized"} :
        \E from \in ReharmonizesFrom(f) :
          LET s == from[1]  r == from[2] IN
          Stores /\ candidates' = Live(WithGenerated(s, r.id, f, form))
    BY <1>16 DEF Reharmonize, Settle
  <2>2. PICK s, a : Stores /\ candidates' = Live(WithGenerated(s, a, f, form))
    BY <2>1
  <2> QED
    BY <1>6, <1>14, <2>2, LiveSubset
<1>17. ASSUME NEW b, Numbered(b), NEW c, NEW form, NEW n \in {1, 2}
       PROVE  Numbered(WithDerived(b, c, form, n))
  BY <1>17, InsertNumbered DEF WithDerived
<1>18. CASE Arrange
  <2>1. PICK c : Stores /\ candidates' = Live(WithDerived(candidates, c, "arranged", 1))
    BY <1>18 DEF Arrange, Settle
  <2> QED
    BY <1>6, <1>7, <1>17, <2>1, LiveSubset
<1>19. CASE Voice
  <2>1. PICK c \in Live(candidates), all \in BOOLEAN :
          LET one == WithDerived(candidates, c, "voiced_1", 1) IN
          /\ Stores
          /\ candidates' = Live(IF all THEN WithDerived(one, c, "voiced_2", 2) ELSE one)
    BY <1>19 DEF Voice, Settle
  <2>2. PICK one, two : /\ one = WithDerived(candidates, c, "voiced_1", 1)
                        /\ two = WithDerived(one, c, "voiced_2", 2)
    OBVIOUS
  <2>3. Stores /\ candidates' = Live(IF all THEN two ELSE one)
    BY <2>1, <2>2
  <2>4. Numbered(one)
    BY <1>7, <1>17, <2>2
  <2>5. Numbered(two)
    BY <1>17, <2>2, <2>4
  <2> QED
    BY <1>6, <2>3, <2>4, <2>5, LiveSubset
<1>20. CASE UNCHANGED vars
  BY <1>5, <1>20 DEF vars
<1> QED
  BY <1>8, <1>9, <1>10, <1>11, <1>12, <1>13, <1>15, <1>16, <1>18, <1>19, <1>20
  DEF Next, Generate

LEMMA UsableStep == StoreInv /\ AllSized /\ Earlier /\ Next => AnswerUsable'
<1> SUFFICES ASSUME StoreInv, AllSized, Earlier, Next PROVE AnswerUsable'
  OBVIOUS
<1>1. ASSUME answer' = {} PROVE AnswerUsable'
  BY <1>1 DEF AnswerUsable
<1>2. ASSUME NEW ids, NEW s, answer' = Listed(ids, s),
             \A i \in ids : \E c \in Live(candidates') : c.id = i /\ c.val.snap = s
      PROVE  AnswerUsable'
  <2>1. \A a \in answer' : a.id \in ids /\ a.snap = s
    BY <1>2 DEF Listed
  <2> QED
    BY <1>2, <2>1 DEF AnswerUsable, Live
<1>3. CASE Generate
  <2>1. PICK s \in Ids(Live(snapshots)), f \in Profile : \E r \in Reading(s, f) :
          GenerateCached(s, f, r) \/ GenerateAnew(s, f, r) \/ GenerateFails(s, f, r)
    BY <1>3 DEF Generate
  <2>2. PICK r \in Reading(s, f) :
          GenerateCached(s, f, r) \/ GenerateAnew(s, f, r) \/ GenerateFails(s, f, r)
    BY <2>1
  <2>3. s \in SnapshotId /\ r.id \in AnalysisId
    BY Before, LiveIds, ReadingOf
  <2>4. CASE GenerateCached(s, f, r)
    <3>1. PICK ids \in Cached(Key(s, f)) : /\ answer' = Listed(ids, s)
                                           /\ candidates' = Live(Rebound(ids, s, r.id))
      BY <2>4 DEF GenerateCached, Settle
    <3>2. ids \subseteq Ids(Live(candidates))
      BY <3>1 DEF Cached, Serves
    <3> QED
      BY <1>2, <3>1, <3>2, ReboundThere
  <2>5. CASE GenerateAnew(s, f, r)
    <3>1. /\ answer' = Listed(Generated(r.id, f, "generated"), s)
          /\ candidates' = Live(WithGenerated(s, r.id, f, "generated"))
      BY <2>5 DEF GenerateAnew, Settle
    <3>2. "generated" \in Form
      BY DEF Form
    <3>3. \A i \in Generated(r.id, f, "generated") :
            \E c \in Live(candidates') : c.id = i /\ c.val.snap = s
      BY <2>3, <3>1, <3>2, WithGeneratedThere
    <3> QED
      BY <1>2, <3>1, <3>3
  <2>6. CASE GenerateFails(s, f, r)
    BY <1>1, <2>6 DEF GenerateFails
  <2> QED
    BY <2>2, <2>4, <2>5, <2>6
<1>4. CASE Reharmonize
  <2>0. PICK f \in Profile, form \in {"generated", "reharmonized"} :
        \E from \in ReharmonizesFrom(f) :
          LET s == from[1]  r == from[2] IN
          /\ candidates' = Live(WithGenerated(s, r.id, f, form))
          /\ answer' = Listed(Generated(r.id, f, form), s)
    BY <1>4 DEF Reharmonize, Settle
  <2>1. PICK from \in ReharmonizesFrom(f) :
          /\ candidates' = Live(WithGenerated(from[1], from[2].id, f, form))
          /\ answer' = Listed(Generated(from[2].id, f, form), from[1])
    BY <2>0
  <2>2. from[1] \in SnapshotId /\ from[2].id \in AnalysisId
    BY FromOf
  <2>3. form \in Form
    BY DEF Form
  <2>4. \A i \in Generated(from[2].id, f, form) :
          \E c \in Live(candidates') : c.id = i /\ c.val.snap = from[1]
    BY <2>1, <2>2, <2>3, WithGeneratedThere
  <2> QED
    BY <1>2, <2>1, <2>4
<1>5. CASE Tick \/ UserEdits \/ Reads \/ Inspect \/ Analyze \/ Arrange \/ Voice
  BY <1>1, <1>5 DEF Tick, UserEdits, Reads, Inspect, Analyze, Arrange, Voice
<1>6. ASSUME NEW c, NEW staged, NEW heard, Stage(c, staged, heard) PROVE AnswerUsable'
  BY <1>1, <1>6 DEF Stage
<1>7. ASSUME NEW t, NEW status, Act(t, status) PROVE AnswerUsable'
  BY <1>1, <1>7 DEF Act
<1> QED
  BY <1>3, <1>4, <1>5, <1>6, <1>7 DEF Next

\* Whatever generate and reharmonize list in an answer is in the store when they
\* answer, under the caller's snapshot (store_candidates, rebind_candidates).
THEOREM AnswersUsable == Spec => []AnswerUsable
<1>1. Init => AllSized /\ Earlier /\ AnswerUsable
  <2>1. Init => AllSized
    BY FS_EmptySet, Capacities DEF Init, AllSized, Sized, Bucket
  <2> QED
    BY <2>1 DEF Init, Earlier, AnswerUsable
<1>2. StoreInv /\ AllSized /\ [Next]_vars => AllSized'
  BY NextSized
<1>3. StoreInv /\ Earlier /\ [Next]_vars => Earlier'
  BY EarlierStep
<1>4. StoreInv /\ AllSized /\ Earlier /\ AnswerUsable /\ [Next]_vars => AnswerUsable'
  <2>1. AnswerUsable /\ UNCHANGED vars => AnswerUsable'
    BY DEF vars, AnswerUsable, Live
  <2> QED
    BY <2>1, UsableStep
<1> QED
  BY <1>1, <1>2, <1>3, <1>4, StoreInvariant, PTL DEF Spec
=============================================================================
