-------------------------- MODULE LiveData_proofs --------------------------
(***************************************************************************)
(* Proofs about the caches and the event stream, for any writers, pollers, *)
(* tabs, writes, failures, cut streams and restarts.                       *)
(***************************************************************************)
EXTENDS LiveDataProps, FiniteSetTheorems, TLAPS

USE LiveDataAssumption

(* The bounds are naturals, and so are the revisions.                      *)
LEMMA BoundsType ==
  /\ \A k \in Kinds : Bounds[k] \in Nat
  /\ Bounds["writes"] = MaxWrites /\ Bounds["quiet"] = MaxQuiet
  /\ Revs \subseteq Nat /\ 0 \in Revs /\ None \notin Revs /\ None \notin Rows
  /\ Pollers \cap Revs = {}
BY DEF Kinds, Bounds, Revs, None, Rows

(* The writers in flight, which RevBounded counts.                         *)
Running == {w \in Writers : write[w].pc # "idle"}

LEMMA RunningFinite == IsFiniteSet(Running) /\ Cardinality(Running) \in Nat
BY FS_Subset, FS_CardinalityType DEF Running

LEMMA InitInv == Init => DataInv
<1> SUFFICES ASSUME Init PROVE DataInv
  OBVIOUS
<1> USE BoundsType DEF Init
<1>1. TypeOK
  <2>1. tab \in [Tabs -> Tab]
    <3> <<>> \in Seq(Event)
      OBVIOUS
    <3> QED BY DEF NewTab, Tab, Rows
  <2>2. /\ write \in [Writers -> Call] /\ read \in [Listings -> Call]
        /\ memo \in [Revs -> [st : {"none", "running", "done"}, ver : Rows]]
    BY DEF AtRest, NoMemo, Call, Rows
  <2>3. \A r \in Revs : memo[r].st = "none" /\ read[r].pc = "idle"
    BY DEF AtRest, NoMemo, Listings
  <2>4. \A t \in Tabs : tab[t].req = None
    BY DEF NewTab
  <2>5. /\ rows \in Rows /\ acked \in 0..rows /\ rev \in Revs /\ cache \in Rows \cup {None}
        /\ ackedAt \in [Revs -> Rows] /\ count \in Counts /\ missed \in [Tabs -> SUBSET Reasons]
    BY DEF Rows, Counts, Reasons
  <2> QED BY <2>1, <2>2, <2>3, <2>4, <2>5 DEF TypeOK
<1>2. RevBounded
  <2>1. {w \in Writers : write[w].pc # "idle"} = {}
    BY DEF AtRest
  <2>2. count["writes"] = 0 /\ count["quiet"] = 0 /\ rev = 0
    BY DEF Kinds
  <2>3. \A k \in Kinds : count[k] <= Bounds[k]
    OBVIOUS
  <2> QED BY <2>1, <2>2, <2>3, FS_EmptySet, SMTT(20) DEF RevBounded
<1>3. AnswersCommitted /\ FutureUnknown /\ AnnouncedIsAcked
  BY DEF AnswersCommitted, FutureUnknown, AnnouncedIsAcked, AtRest, NoMemo
<1>4. ListingIsFresh /\ CacheIsFresh /\ SharedBootstrapIsFresh
  BY DEF ListingIsFresh, CacheIsFresh, SharedBootstrapIsFresh, AtRest, NoMemo, Listings
<1> QED BY <1>1, <1>2, <1>3, <1>4 DEF DataInv

-----------------------------------------------------------------------------
(* Facts used by several actions.                                          *)

(* What was missed stays missed.                                           *)
LEMMA MissedGrows ==
  ASSUME TypeOK, NEW ts \in SUBSET Tabs, NEW rs \in SUBSET Reasons, Missed(ts, rs)
  PROVE  /\ missed' \in [Tabs -> SUBSET Reasons]
         /\ NoLateFill' => NoLateFill
         /\ NoLateFill' => ts = {} \/ "fill" \notin rs
BY DEF TypeOK, Missed, NoLateFill

LEMMA SpendCount ==
  ASSUME TypeOK, \A k \in Kinds : count[k] <= Bounds[k], NEW kind \in Kinds, Spend(kind)
  PROVE  /\ count' \in Counts
         /\ \A k \in Kinds : count'[k] <= Bounds[k]
         /\ count'[kind] = count[kind] + 1
         /\ \A k \in Kinds \ {kind} : count'[k] = count[k]
BY BoundsType DEF TypeOK, Spend, Counts

(* RevBounded does not depend on the other counters.                       *)
LEMMA RevBoundedKept ==
  ASSUME TypeOK, RevBounded, rev' = rev, write' = write,
         \/ UNCHANGED count
         \/ \E kind \in {"faults", "drops", "busy"} : Spend(kind)
  PROVE  RevBounded' /\ count' \in Counts
<1>1. CASE UNCHANGED count
  BY <1>1 DEF RevBounded, TypeOK
<1>2. CASE \E kind \in {"faults", "drops", "busy"} : Spend(kind)
  <2> PICK kind \in {"faults", "drops", "busy"} : Spend(kind)
    BY <1>2
  <2>1. /\ kind \in Kinds
        /\ "writes" \in Kinds \ {kind} /\ "quiet" \in Kinds \ {kind}
    BY DEF Kinds
  <2>2. \A k \in Kinds : count[k] <= Bounds[k]
    BY DEF RevBounded
  <2>3. /\ count' \in Counts /\ \A k \in Kinds : count'[k] <= Bounds[k]
        /\ count'["writes"] = count["writes"] /\ count'["quiet"] = count["quiet"]
    BY <2>1, <2>2, SpendCount
  <2> QED BY <2>3 DEF RevBounded
<1> QED BY <1>1, <1>2

(* There is room for one more revision.                                    *)
LEMMA RoomForRev ==
  ASSUME TypeOK, NEW n \in Nat, NEW c \in Counts, rev + 1 <= c["writes"] + c["quiet"],
         \A k \in Kinds : c[k] <= Bounds[k]
  PROVE  rev + 1 \in Revs
<1>1. c["writes"] <= MaxWrites /\ c["quiet"] <= MaxQuiet /\ c["writes"] \in Nat /\ c["quiet"] \in Nat
  BY BoundsType DEF Kinds, Counts
<1> QED BY <1>1 DEF TypeOK, Revs

LEMMA BumpType ==
  ASSUME TypeOK, NEW quiet \in BOOLEAN, rev + 1 \in Revs, Bump(quiet)
  PROVE  /\ tab' \in [Tabs -> Tab]
         /\ \A t \in Tabs : tab'[t].req = tab[t].req
         /\ rev' = rev + 1
<1>1. \A t \in Tabs : tab[t] \in Tab
  BY DEF TypeOK
<1>2. \A t \in Tabs : tab'[t] \in Tab /\ tab'[t].req = tab[t].req
  <2> TAKE t \in Tabs
  <2> DEFINE e == [rev |-> rev + 1, quiet |-> quiet]
  <2>1. e \in Event
    BY DEF Event
  <2>2. tab[t].inbox \in Seq(Event)
    BY <1>1 DEF Tab
  <2>3. Append(tab[t].inbox, e) \in Seq(Event)
    BY <2>1, <2>2
  <2>4. CASE tab[t].open
    <3>1. tab'[t] = [tab[t] EXCEPT !.inbox = Append(tab[t].inbox, e)]
      BY <2>4 DEF Bump
    <3> HIDE DEF e
    <3> QED BY <3>1, <2>3, <1>1 DEF Tab
  <2>5. CASE ~tab[t].open
    BY <2>5, <1>1 DEF Bump
  <2> QED BY <2>4, <2>5
<1> QED BY <1>2 DEF Bump

-----------------------------------------------------------------------------
(* Writes.                                                                 *)

LEMMA WriteInv ==
  ASSUME DataInv, NEW w \in Writers, Write(w)
  PROVE  DataInv'
<1> USE DEF DataInv, Write
<1>1. /\ count' \in Counts /\ count'["writes"] = count["writes"] + 1
      /\ count'["quiet"] = count["quiet"] /\ \A k \in Kinds : count'[k] <= Bounds[k]
  BY SpendCount DEF RevBounded, Kinds
<1>2. TypeOK'
  BY <1>1 DEF TypeOK, Call, Rows
<1>3. RevBounded'
  <2>1. Running' = Running \cup {w} /\ w \notin Running
    BY DEF Running, TypeOK
  <2>2. Cardinality(Running') = Cardinality(Running) + 1
    BY <2>1, RunningFinite, FS_AddElement
  <2>3. rev \in Nat /\ count["writes"] \in Nat /\ count["quiet"] \in Nat
    BY BoundsType DEF TypeOK, Counts, Kinds
  <2>4. rev + Cardinality(Running) <= count["writes"] + count["quiet"]
    BY DEF RevBounded, Running
  <2>5. rev' + Cardinality(Running') <= count'["writes"] + count'["quiet"]
    BY <1>1, <2>2, <2>3, <2>4, RunningFinite
  <2> QED BY <1>1, <2>5 DEF RevBounded, Running
<1>4. AnswersCommitted'
  BY DEF AnswersCommitted, TypeOK
<1>5. FutureUnknown' /\ AnnouncedIsAcked' /\ ListingIsFresh' /\ CacheIsFresh' /\ SharedBootstrapIsFresh'
  BY DEF FutureUnknown, AnnouncedIsAcked, ListingIsFresh, CacheIsFresh, SharedBootstrapIsFresh, NoLateFill
<1> QED BY <1>2, <1>3, <1>4, <1>5

LEMMA CommitInv ==
  ASSUME DataInv, NEW w \in Writers, Commit(w)
  PROVE  DataInv'
<1> USE DEF DataInv, Commit
<1>1. TypeOK'
  BY DEF TypeOK, Call, Rows
<1>2. RevBounded'
  <2>1. Running' = Running
    BY DEF Running, TypeOK
  <2> QED BY <2>1 DEF RevBounded, Running
<1>3. AnswersCommitted'
  BY DEF AnswersCommitted, TypeOK, Call, Rows
<1>4. FutureUnknown' /\ AnnouncedIsAcked' /\ ListingIsFresh' /\ CacheIsFresh' /\ SharedBootstrapIsFresh'
  BY DEF FutureUnknown, AnnouncedIsAcked, ListingIsFresh, CacheIsFresh, SharedBootstrapIsFresh, NoLateFill
<1> QED BY <1>1, <1>2, <1>3, <1>4

(* A revision that is announced: nothing was known of it.                  *)
LEMMA AnnouncedFresh ==
  ASSUME DataInv, rev + 1 \in Revs, rev' = rev + 1, NEW a \in Nat, a >= acked, a <= rows,
         acked' = a, ackedAt' = [ackedAt EXCEPT ![rev'] = a],
         UNCHANGED <<rows, read, memo, missed>>
  PROVE  /\ ackedAt' \in [Revs -> Rows] /\ acked' \in 0..rows'
         /\ FutureUnknown' /\ AnnouncedIsAcked' /\ ListingIsFresh' /\ SharedBootstrapIsFresh'
<1> USE BoundsType DEF DataInv, TypeOK
<1>1. memo[rev + 1].st = "none" /\ read[rev + 1].pc = "idle"
  BY DEF FutureUnknown, Listings, Call
<1>2. \A r \in Revs : ackedAt'[r] = IF r = rev + 1 THEN a ELSE ackedAt[r]
  OBVIOUS
<1>3. ackedAt' \in [Revs -> Rows] /\ acked' \in 0..rows'
  BY DEF Rows
<1>4. FutureUnknown'
  BY DEF FutureUnknown
<1>5. AnnouncedIsAcked'
  BY <1>2 DEF AnnouncedIsAcked, Rows
<1>6. ListingIsFresh'
  BY <1>1, <1>2 DEF ListingIsFresh
<1>7. SharedBootstrapIsFresh'
  BY <1>1, <1>2 DEF SharedBootstrapIsFresh, NoLateFill
<1> QED BY <1>3, <1>4, <1>5, <1>6, <1>7

LEMMA ReturnedInv ==
  ASSUME DataInv, NEW w \in Writers, Returned(w)
  PROVE  DataInv'
<1> USE DEF DataInv
<1>1. write[w] \in Call /\ write[w].ver \in Nat /\ write[w].ver <= rows /\ acked \in Nat /\ rows \in Nat
  BY DEF Returned, TypeOK, Call, Rows, AnswersCommitted
<1>2. /\ Running' = Running \ {w} /\ w \in Running
      /\ Cardinality(Running') = Cardinality(Running) - 1 /\ Cardinality(Running) >= 1
  <2>1. Running' = Running \ {w} /\ w \in Running
    BY DEF Running, TypeOK, Returned, AtRest
  <2>2. Cardinality(Running') = Cardinality(Running) - 1
    BY <2>1, RunningFinite, FS_RemoveElement
  <2>3. Cardinality(Running) # 0
    BY <2>1, RunningFinite, FS_EmptySet
  <2> QED BY <2>1, <2>2, <2>3, RunningFinite
<1>3. /\ rev + Cardinality(Running) <= count["writes"] + count["quiet"]
      /\ \A k \in Kinds : count[k] <= Bounds[k]
      /\ rev \in Nat /\ count \in Counts /\ count["writes"] \in Nat /\ count["quiet"] \in Nat
  BY BoundsType DEF RevBounded, Running, TypeOK, Counts, Kinds
<1>4. rev + 1 \in Revs /\ rev' = rev + 1
  <2>1. rev + 1 <= count["writes"] + count["quiet"]
    BY <1>2, <1>3, RunningFinite
  <2> QED BY <2>1, <1>3, RoomForRev DEF Returned, Bump
<1>5. /\ tab' \in [Tabs -> Tab] /\ \A t \in Tabs : tab'[t].req = tab[t].req
  BY <1>4, BumpType DEF Returned
<1>6. /\ ackedAt' \in [Revs -> Rows] /\ acked' \in 0..rows'
      /\ FutureUnknown' /\ AnnouncedIsAcked' /\ ListingIsFresh' /\ SharedBootstrapIsFresh'
  <2> DEFINE a == IF write[w].ver > acked THEN write[w].ver ELSE acked
  <2>1. a \in Nat /\ a >= acked /\ a <= rows
    BY <1>1 DEF TypeOK
  <2>2. acked' = a /\ ackedAt' = [ackedAt EXCEPT ![rev'] = a] /\ UNCHANGED <<rows, read, memo, missed>>
    BY DEF Returned
  <2> HIDE DEF a
  <2> QED BY <1>4, <2>1, <2>2, AnnouncedFresh
<1>7. TypeOK'
  BY <1>4, <1>5, <1>6 DEF TypeOK, Returned, Call, AtRest, Rows
<1>8. RevBounded'
  <2>1. rev' + Cardinality(Running') <= count["writes"] + count["quiet"]
    BY <1>2, <1>3, <1>4, RunningFinite
  <2> QED BY <2>1, <1>3 DEF RevBounded, Running, Returned
<1>9. AnswersCommitted' /\ CacheIsFresh'
  BY DEF AnswersCommitted, CacheIsFresh, Returned, TypeOK, AtRest
<1> QED BY <1>6, <1>7, <1>8, <1>9

LEMMA WriteFailsInv ==
  ASSUME DataInv, NEW w \in Writers, WriteFails(w)
  PROVE  DataInv'
<1> USE DEF DataInv
<1>1. /\ count' \in Counts /\ count'["writes"] = count["writes"]
      /\ count'["quiet"] = count["quiet"] /\ \A k \in Kinds : count'[k] <= Bounds[k]
  BY SpendCount DEF RevBounded, Kinds, WriteFails
<1>2. missed' \in [Tabs -> SUBSET Reasons] /\ (NoLateFill' => NoLateFill)
  <2>1. (IF write[w].pc = "answer" THEN Tabs ELSE {}) \in SUBSET Tabs /\ {"answer"} \in SUBSET Reasons
    BY DEF Reasons
  <2> QED BY <2>1, MissedGrows DEF WriteFails
<1>3. TypeOK'
  BY <1>1, <1>2 DEF TypeOK, Call, Rows, WriteFails, AtRest
<1>4. RevBounded'
  <2>1. Running' = Running \ {w} /\ w \in Running
    BY DEF Running, TypeOK, WriteFails, AtRest
  <2>2. Cardinality(Running') = Cardinality(Running) - 1
    BY <2>1, RunningFinite, FS_RemoveElement
  <2>3. rev \in Nat /\ count["writes"] \in Nat /\ count["quiet"] \in Nat
    BY BoundsType DEF TypeOK, Counts, Kinds
  <2>4. rev + Cardinality(Running) <= count["writes"] + count["quiet"]
    BY DEF RevBounded, Running
  <2>5. rev' + Cardinality(Running') <= count'["writes"] + count'["quiet"]
    BY <1>1, <2>2, <2>3, <2>4, RunningFinite DEF WriteFails
  <2> QED BY <1>1, <2>5 DEF RevBounded, Running
<1>5. AnswersCommitted'
  BY DEF AnswersCommitted, TypeOK, WriteFails, AtRest
<1>6. FutureUnknown' /\ AnnouncedIsAcked' /\ ListingIsFresh'
  BY DEF FutureUnknown, AnnouncedIsAcked, ListingIsFresh, WriteFails
<1>7. CacheIsFresh' /\ SharedBootstrapIsFresh'
  BY <1>2 DEF CacheIsFresh, SharedBootstrapIsFresh, WriteFails
<1> QED BY <1>3, <1>4, <1>5, <1>6, <1>7

LEMMA QuietWriteInv ==
  ASSUME DataInv, QuietWrite
  PROVE  DataInv'
<1> USE DEF DataInv
<1>1. /\ count' \in Counts /\ count'["quiet"] = count["quiet"] + 1
      /\ count'["writes"] = count["writes"] /\ \A k \in Kinds : count'[k] <= Bounds[k]
  BY SpendCount DEF RevBounded, Kinds, QuietWrite
<1>2. /\ rev \in Nat /\ count["writes"] \in Nat /\ count["quiet"] \in Nat
      /\ rev + Cardinality(Running) <= count["writes"] + count["quiet"]
  BY BoundsType DEF RevBounded, Running, TypeOK, Counts, Kinds
<1>3. rev + 1 \in Revs /\ rev' = rev + 1
  <2>1. rev + 1 <= count'["writes"] + count'["quiet"]
    BY <1>1, <1>2, RunningFinite
  <2> QED BY <2>1, <1>1, RoomForRev DEF QuietWrite, Bump
<1>4. /\ tab' \in [Tabs -> Tab] /\ \A t \in Tabs : tab'[t].req = tab[t].req
  BY <1>3, BumpType DEF QuietWrite
<1>5. /\ ackedAt' \in [Revs -> Rows] /\ acked' \in 0..rows'
      /\ FutureUnknown' /\ AnnouncedIsAcked' /\ ListingIsFresh' /\ SharedBootstrapIsFresh'
  <2>1. acked \in Nat /\ acked >= acked /\ acked <= rows
    BY DEF TypeOK, Rows
  <2>2. acked' = acked /\ ackedAt' = [ackedAt EXCEPT ![rev'] = acked] /\ UNCHANGED <<rows, read, memo, missed>>
    BY DEF QuietWrite
  <2> QED BY <1>3, <2>1, <2>2, AnnouncedFresh
<1>6. TypeOK'
  BY <1>1, <1>3, <1>4, <1>5 DEF TypeOK, QuietWrite
<1>7. RevBounded'
  <2>1. rev' + Cardinality(Running) <= count'["writes"] + count'["quiet"]
    BY <1>1, <1>2, <1>3, RunningFinite
  <2>2. Running' = Running
    BY DEF Running, QuietWrite
  <2> QED BY <1>1, <2>1, <2>2 DEF RevBounded, Running
<1>8. AnswersCommitted' /\ CacheIsFresh'
  BY DEF AnswersCommitted, CacheIsFresh, NoLateFill, QuietWrite
<1> QED BY <1>5, <1>6, <1>7, <1>8

-----------------------------------------------------------------------------
(* Lists.                                                                  *)

LEMMA PollInv ==
  ASSUME DataInv, NEW p \in Pollers, Poll(p)
  PROVE  DataInv'
<1> USE DEF DataInv, Poll
<1>1. \A r \in Revs : read'[r] = read[r]
  BY BoundsType DEF TypeOK, Listings
<1>2. TypeOK'
  BY <1>1 DEF TypeOK, Call, Listings
<1>3. RevBounded' /\ AnswersCommitted'
  BY DEF RevBounded, AnswersCommitted
<1>4. FutureUnknown' /\ AnnouncedIsAcked' /\ ListingIsFresh'
  BY <1>1 DEF FutureUnknown, AnnouncedIsAcked, ListingIsFresh
<1>5. CacheIsFresh' /\ SharedBootstrapIsFresh'
  BY DEF CacheIsFresh, SharedBootstrapIsFresh, NoLateFill
<1> QED BY <1>2, <1>3, <1>4, <1>5

LEMMA ListReadInv ==
  ASSUME DataInv, NEW p \in Listings, ListRead(p)
  PROVE  DataInv'
<1> USE DEF DataInv, ListRead
<1>1. \A r \in Listings : read'[r] = IF r = p THEN [pc |-> "answer", ver |-> rows] ELSE read[r]
  BY DEF TypeOK
<1>2. TypeOK'
  <2>1. read' \in [Listings -> Call]
    BY DEF TypeOK, Call, Rows
  <2>2. \A r \in Revs : memo'[r].st = "running" <=> read'[r].pc # "idle"
    BY <1>1 DEF TypeOK, Listings
  <2> QED BY <2>1, <2>2 DEF TypeOK
<1>3. RevBounded' /\ AnswersCommitted'
  BY DEF RevBounded, AnswersCommitted
<1>4. ListingIsFresh'
  <2>1. \A r \in Revs : rows \in Nat /\ ackedAt[r] \in Nat /\ ackedAt[r] <= acked /\ acked <= rows
    BY DEF AnnouncedIsAcked, TypeOK, Rows
  <2>2. \A r \in Revs : rows >= ackedAt[r]
    BY <2>1 DEF TypeOK
  <2> QED BY <1>1, <2>2 DEF ListingIsFresh, Listings
<1>5. FutureUnknown' /\ AnnouncedIsAcked' /\ CacheIsFresh' /\ SharedBootstrapIsFresh'
  BY DEF FutureUnknown, AnnouncedIsAcked, CacheIsFresh, SharedBootstrapIsFresh, NoLateFill
<1> QED BY <1>2, <1>3, <1>4, <1>5

LEMMA ListFillInv ==
  ASSUME DataInv, NEW p \in Listings, ListFill(p)
  PROVE  DataInv'
<1> USE DEF DataInv
<1>1. read[p] \in Call /\ read[p].pc = "answer" /\ read[p].ver \in Nat /\ acked \in Nat
  BY DEF ListFill, TypeOK, Call, Rows
<1>2. \A r \in Listings : read'[r] = IF r = p THEN AtRest ELSE read[r]
  BY DEF TypeOK, ListFill
<1>3. \A r \in Revs : memo'[r] = IF r = p THEN [st |-> "done", ver |-> read[p].ver] ELSE memo[r]
  BY DEF TypeOK, ListFill
<1>4. /\ missed' \in [Tabs -> SUBSET Reasons] /\ (NoLateFill' => NoLateFill)
      /\ NoLateFill' => read[p].ver >= acked
  <2>1. (IF read[p].ver < acked THEN Tabs ELSE {}) \in SUBSET Tabs /\ {"fill"} \in SUBSET Reasons
    BY DEF Reasons
  <2>2. /\ missed' \in [Tabs -> SUBSET Reasons] /\ (NoLateFill' => NoLateFill)
        /\ NoLateFill' => (IF read[p].ver < acked THEN Tabs ELSE {}) = {} \/ "fill" \notin {"fill"}
    BY <2>1, MissedGrows DEF ListFill
  <2>3. NoLateFill' => ~(read[p].ver < acked)
    BY <2>2
  <2> QED BY <1>1, <2>2, <2>3
<1>5. TypeOK'
  <2>1. read' \in [Listings -> Call]
    BY DEF TypeOK, Call, Rows, AtRest, ListFill
  <2>2. memo' \in [Revs -> [st : {"none", "running", "done"}, ver : Rows]]
    BY <1>1 DEF TypeOK, Rows, ListFill
  <2>3. \A r \in Revs : memo'[r].st = "running" <=> read'[r].pc # "idle"
    BY <1>2, <1>3 DEF TypeOK, Listings, AtRest
  <2>4. \A t \in Tabs : tab'[t].req # None => memo'[tab'[t].req].st # "none"
    BY <1>3 DEF TypeOK, ListFill, Tab
  <2>5. cache' \in Rows \cup {None}
    BY <1>1 DEF ListFill, Rows
  <2> QED BY <1>4, <2>1, <2>2, <2>3, <2>4, <2>5 DEF TypeOK, ListFill
<1>6. RevBounded' /\ AnswersCommitted' /\ AnnouncedIsAcked'
  BY DEF RevBounded, AnswersCommitted, AnnouncedIsAcked, ListFill
<1>7. FutureUnknown'
  <2>1. p \in Revs => memo[p].st = "running"
    BY <1>1 DEF TypeOK
  <2> QED BY <1>3, <2>1 DEF FutureUnknown, ListFill
<1>8. ListingIsFresh'
  BY <1>2 DEF ListingIsFresh, ListFill, AtRest, Listings
<1>9. CacheIsFresh'
  BY <1>4 DEF CacheIsFresh, ListFill
<1>10. SharedBootstrapIsFresh'
  <2>1. p \in Revs => read[p].ver >= ackedAt[p]
    BY <1>1 DEF ListingIsFresh
  <2> QED BY <1>3, <1>4, <2>1 DEF SharedBootstrapIsFresh, ListFill
<1> QED BY <1>5, <1>6, <1>7, <1>8, <1>9, <1>10

LEMMA ReqCleared ==
  ASSUME NEW x \in Tab
  PROVE  [x EXCEPT !.req = None] \in Tab
BY DEF Tab

LEMMA ListFailsInv ==
  ASSUME DataInv, NEW p \in Listings, ListFails(p)
  PROVE  DataInv'
<1> USE DEF DataInv
<1>1. RevBounded' /\ count' \in Counts
  BY RevBoundedKept DEF ListFails
<1>2. \A r \in Listings : read'[r] = IF r = p THEN AtRest ELSE read[r]
  BY DEF TypeOK, ListFails
<1>3. read' \in [Listings -> Call]
  BY DEF TypeOK, Call, Rows, AtRest, ListFails
<1>4. ListingIsFresh'
  BY <1>2 DEF ListingIsFresh, ListFails, AtRest, Listings
<1>5. AnswersCommitted' /\ AnnouncedIsAcked'
  BY DEF AnswersCommitted, AnnouncedIsAcked, ListFails
<1>6. CASE p \in Revs
  <2> DEFINE waiting == {t \in Tabs : tab[t].req = p}
  <2>1. \A r \in Revs : memo'[r] = IF r = p THEN NoMemo ELSE memo[r]
    BY <1>6 DEF TypeOK, ListFails
  <2>2. missed' \in [Tabs -> SUBSET Reasons] /\ (NoLateFill' => NoLateFill)
    <3>1. waiting \in SUBSET Tabs /\ {"request"} \in SUBSET Reasons /\ Missed(waiting, {"request"})
      BY <1>6 DEF ListFails, Reasons
    <3> HIDE DEF waiting
    <3> QED BY <3>1, MissedGrows
  <2>3. tab' = [t \in Tabs |-> IF t \in waiting THEN [tab[t] EXCEPT !.req = None] ELSE tab[t]]
    BY <1>6 DEF ListFails
  <2>4. tab' \in [Tabs -> Tab]
    BY <2>3, ReqCleared DEF TypeOK
  <2>5. \A t \in Tabs : tab'[t].req = IF tab[t].req = p THEN None ELSE tab[t].req
    BY <2>3 DEF TypeOK, Tab
  <2>6. memo' \in [Revs -> [st : {"none", "running", "done"}, ver : Rows]]
    BY <1>6 DEF TypeOK, ListFails, NoMemo, Rows
  <2>7. \A r \in Revs : memo'[r].st = "running" <=> read'[r].pc # "idle"
    BY <1>2, <2>1 DEF TypeOK, Listings, AtRest, NoMemo
  <2>8. \A t \in Tabs : tab'[t].req # None => memo'[tab'[t].req].st # "none"
    BY <2>1, <2>5 DEF TypeOK, Tab
  <2>9. TypeOK'
    BY <1>1, <1>3, <2>2, <2>4, <2>6, <2>7, <2>8 DEF TypeOK, ListFails
  <2>10. FutureUnknown' /\ CacheIsFresh' /\ SharedBootstrapIsFresh'
    BY <2>1, <2>2 DEF FutureUnknown, CacheIsFresh, SharedBootstrapIsFresh, ListFails, NoMemo
  <2> QED BY <1>1, <1>4, <1>5, <2>9, <2>10
<1>7. CASE p \notin Revs
  <2>1. UNCHANGED <<memo, tab, missed>>
    BY <1>7 DEF ListFails
  <2>2. \A r \in Revs : read'[r] = read[r]
    BY <1>2, <1>7 DEF Listings
  <2>3. TypeOK'
    BY <1>1, <1>3, <2>1, <2>2 DEF TypeOK, ListFails
  <2>4. FutureUnknown' /\ CacheIsFresh' /\ SharedBootstrapIsFresh'
    BY <2>1 DEF FutureUnknown, CacheIsFresh, SharedBootstrapIsFresh, NoLateFill, ListFails
  <2> QED BY <1>1, <1>4, <1>5, <2>3, <2>4
<1> QED BY <1>6, <1>7

LEMMA CacheExpiresInv ==
  ASSUME DataInv, CacheExpires
  PROVE  DataInv'
<1> USE DEF DataInv, CacheExpires
<1>1. TypeOK' /\ RevBounded' /\ AnswersCommitted'
  BY DEF TypeOK, RevBounded, AnswersCommitted
<1>2. FutureUnknown' /\ AnnouncedIsAcked' /\ ListingIsFresh' /\ CacheIsFresh' /\ SharedBootstrapIsFresh'
  BY DEF FutureUnknown, AnnouncedIsAcked, ListingIsFresh, CacheIsFresh, SharedBootstrapIsFresh, NoLateFill
<1> QED BY <1>1, <1>2

LEMMA MemoExpiresInv ==
  ASSUME DataInv, NEW r \in Revs, MemoExpires(r)
  PROVE  DataInv'
<1> USE DEF DataInv
<1>1. \A q \in Revs : memo'[q] = IF q = r THEN NoMemo ELSE memo[q]
  BY DEF TypeOK, MemoExpires
<1>2. TypeOK'
  <2>1. memo' \in [Revs -> [st : {"none", "running", "done"}, ver : Rows]]
    BY DEF TypeOK, MemoExpires, NoMemo, Rows
  <2>2. \A q \in Revs : memo'[q].st = "running" <=> read'[q].pc # "idle"
    BY <1>1 DEF TypeOK, MemoExpires, NoMemo
  <2>3. \A t \in Tabs : tab'[t].req # None => memo'[tab'[t].req].st # "none"
    BY <1>1 DEF TypeOK, MemoExpires, Tab
  <2> QED BY <2>1, <2>2, <2>3 DEF TypeOK, MemoExpires
<1>3. RevBounded' /\ AnswersCommitted' /\ AnnouncedIsAcked' /\ ListingIsFresh'
  BY DEF RevBounded, AnswersCommitted, AnnouncedIsAcked, ListingIsFresh, MemoExpires
<1>4. FutureUnknown' /\ CacheIsFresh' /\ SharedBootstrapIsFresh'
  BY <1>1 DEF FutureUnknown, CacheIsFresh, SharedBootstrapIsFresh, NoLateFill, MemoExpires, NoMemo
<1> QED BY <1>2, <1>3, <1>4

-----------------------------------------------------------------------------
(* Tabs.                                                                   *)

(* What only changes a tab's stream, timers and counters keeps the rest:   *)
(* who waited for a bootstrap waits for the same one.                      *)
LEMMA TabOnly ==
  ASSUME DataInv, UNCHANGED <<rows, acked, ackedAt, write, cache, read, rev, memo>>,
         tab' \in [Tabs -> Tab], \A t \in Tabs : tab'[t].req \in {tab[t].req, None},
         missed' \in [Tabs -> SUBSET Reasons], NoLateFill' => NoLateFill,
         UNCHANGED count \/ \E kind \in {"faults", "drops", "busy"} : Spend(kind)
  PROVE  DataInv'
<1> USE DEF DataInv
<1>1. RevBounded' /\ count' \in Counts
  BY RevBoundedKept DEF TypeOK
<1>2. \A t \in Tabs : tab'[t].req # None => memo'[tab'[t].req].st # "none"
  BY DEF TypeOK
<1>3. TypeOK'
  BY <1>1, <1>2 DEF TypeOK
<1>4. AnswersCommitted' /\ FutureUnknown' /\ AnnouncedIsAcked' /\ ListingIsFresh'
  BY DEF AnswersCommitted, FutureUnknown, AnnouncedIsAcked, ListingIsFresh
<1>5. CacheIsFresh' /\ SharedBootstrapIsFresh'
  BY DEF CacheIsFresh, SharedBootstrapIsFresh
<1> QED BY <1>1, <1>3, <1>4, <1>5

LEMMA NothingMissed ==
  ASSUME TypeOK, UNCHANGED missed
  PROVE  missed' \in [Tabs -> SUBSET Reasons] /\ (NoLateFill' => NoLateFill)
BY DEF TypeOK, NoLateFill

LEMMA OneTab ==
  ASSUME TypeOK, NEW t \in Tabs, NEW x \in Tab, tab' = [tab EXCEPT ![t] = x]
  PROVE  /\ tab' \in [Tabs -> Tab]
         /\ \A u \in Tabs : tab'[u] = IF u = t THEN x ELSE tab[u]
BY DEF TypeOK

(* A tab that has asked for a bootstrap.                                   *)
AskedTab(x) == [x EXCEPT !.req = rev, !.due = acked]

LEMMA AskedTabType ==
  ASSUME TypeOK, NEW x \in Tab
  PROVE  /\ AskedTab(x) \in Tab /\ AskedTab(x).req = rev /\ AskedTab(x).due = acked
         /\ acked \in Nat
<1>1. acked \in Nat /\ rev \in Revs
  BY DEF TypeOK, Rows
<1> QED BY <1>1 DEF AskedTab, Tab, Rows

(* A bootstrap that is asked for: it is under way, or the cache answers.   *)
LEMMA BootstrapInv ==
  ASSUME DataInv, NEW t \in Tabs, NEW x \in Tab, Bootstrap(t, x),
         UNCHANGED <<rows, acked, ackedAt, write, cache, rev, missed, count>>
  PROVE  DataInv'
<1> USE DEF DataInv
<1>1. rev \in Revs /\ rev \in Listings
  BY DEF TypeOK, Listings
<1>2. AskedTab(x) \in Tab /\ AskedTab(x).req = rev
  BY AskedTabType
<1>3. /\ tab' \in [Tabs -> Tab]
      /\ \A u \in Tabs : tab'[u].req = IF u = t THEN rev ELSE tab[u].req
  <2>1. tab' = [tab EXCEPT ![t] = AskedTab(x)]
    BY DEF Bootstrap, Key, AskedTab
  <2> QED BY <1>2, <2>1, OneTab
<1>4. RevBounded' /\ AnswersCommitted' /\ AnnouncedIsAcked'
  BY DEF RevBounded, AnswersCommitted, AnnouncedIsAcked
<1>5. CacheIsFresh' /\ (NoLateFill' <=> NoLateFill)
  BY DEF CacheIsFresh, NoLateFill
<1>9. ASSUME memo'[rev].st # "none", \A r \in Revs : r # rev => memo'[r] = memo[r]
      PROVE  \A u \in Tabs : tab'[u].req # None => memo'[tab'[u].req].st # "none"
  <2> TAKE u \in Tabs
  <2>1. tab[u].req \in Revs \cup {None} /\ (tab[u].req # None => memo[tab[u].req].st # "none")
    BY DEF TypeOK, Tab
  <2>2. CASE u = t \/ tab[u].req = rev
    BY <1>3, <1>9, <2>2
  <2>3. CASE u # t /\ tab[u].req # rev
    BY <1>3, <1>9, <2>1, <2>3
  <2> QED BY <2>2, <2>3
<1>6. CASE memo[rev].st # "none"
  <2>1. UNCHANGED <<memo, read>>
    BY <1>6 DEF Bootstrap, Key
  <2>2. TypeOK'
    BY <1>3, <1>6, <2>1 DEF TypeOK
  <2>3. FutureUnknown' /\ ListingIsFresh' /\ SharedBootstrapIsFresh'
    BY <1>5, <2>1 DEF FutureUnknown, ListingIsFresh, SharedBootstrapIsFresh
  <2> QED BY <1>4, <1>5, <2>2, <2>3
<1>7. CASE memo[rev].st = "none" /\ cache # None
  <2>1. memo' = [memo EXCEPT ![rev] = [st |-> "done", ver |-> cache]] /\ read' = read
    BY <1>7 DEF Bootstrap, Key
  <2>2. \A r \in Revs : memo'[r] = IF r = rev THEN [st |-> "done", ver |-> cache] ELSE memo[r]
    BY <2>1 DEF TypeOK
  <2>3. cache \in Rows
    BY <1>7 DEF TypeOK
  <2>4. TypeOK'
    <3>1. memo' \in [Revs -> [st : {"none", "running", "done"}, ver : Rows]]
      BY <2>1, <2>3 DEF TypeOK
    <3>2. \A r \in Revs : memo'[r].st = "running" <=> read'[r].pc # "idle"
      BY <1>7, <2>1, <2>2 DEF TypeOK
    <3>3. \A u \in Tabs : tab'[u].req # None => memo'[tab'[u].req].st # "none"
      <4>1. memo'[rev].st # "none" /\ \A r \in Revs : r # rev => memo'[r] = memo[r]
        BY <1>1, <2>2
      <4> QED BY <1>9, <4>1
    <3> QED BY <1>3, <2>1, <3>1, <3>2, <3>3 DEF TypeOK
  <2>5. FutureUnknown' /\ ListingIsFresh'
    BY <2>1, <2>2, <1>1, BoundsType DEF FutureUnknown, ListingIsFresh
  <2>6. SharedBootstrapIsFresh'
    <3>1. NoLateFill => cache >= ackedAt[rev]
      <4>1. ackedAt[rev] \in Nat /\ ackedAt[rev] <= acked /\ acked \in Nat /\ cache \in Nat
        BY <1>1, <2>3 DEF AnnouncedIsAcked, TypeOK, Rows
      <4>2. NoLateFill => cache >= acked
        BY <1>7 DEF CacheIsFresh
      <4> QED BY <4>1, <4>2
    <3> QED BY <1>5, <2>2, <3>1 DEF SharedBootstrapIsFresh
  <2> QED BY <1>4, <1>5, <2>4, <2>5, <2>6
<1>8. CASE memo[rev].st = "none" /\ cache = None
  <2>1. memo' = [memo EXCEPT ![rev].st = "running"] /\ read' = [read EXCEPT ![rev].pc = "query"]
    BY <1>8 DEF Bootstrap, Key
  <2>2. /\ \A r \in Revs : r # rev => memo'[r] = memo[r] /\ read'[r] = read[r]
        /\ memo'[rev].st = "running" /\ read'[rev].pc = "query"
    BY <2>1, <1>1 DEF TypeOK, Listings, Call
  <2>3. TypeOK'
    <3>1. memo' \in [Revs -> [st : {"none", "running", "done"}, ver : Rows]] /\ read' \in [Listings -> Call]
      BY <1>1, <2>1 DEF TypeOK, Call
    <3>2. \A r \in Revs : memo'[r].st = "running" <=> read'[r].pc # "idle"
      <4> TAKE r \in Revs
      <4>1. memo[r].st = "running" <=> read[r].pc # "idle"
        BY DEF TypeOK
      <4>2. r # rev => memo'[r] = memo[r] /\ read'[r] = read[r]
        BY <2>2
      <4>3. memo'[rev].st = "running" /\ read'[rev].pc = "query"
        BY <2>2
      <4> QED BY <4>1, <4>2, <4>3
    <3>3. \A u \in Tabs : tab'[u].req # None => memo'[tab'[u].req].st # "none"
      <4>1. memo'[rev].st # "none" /\ \A r \in Revs : r # rev => memo'[r] = memo[r]
        BY <1>1, <2>2
      <4> QED BY <1>9, <4>1
    <3> QED BY <1>3, <3>1, <3>2, <3>3 DEF TypeOK
  <2>4. FutureUnknown'
    <3> SUFFICES ASSUME NEW r \in Revs, r > rev PROVE memo'[r].st = "none"
      BY DEF FutureUnknown
    <3>1. r # rev
      BY <1>1, BoundsType
    <3> QED BY <2>2, <3>1 DEF FutureUnknown
  <2>5. ListingIsFresh'
    <3> SUFFICES ASSUME NEW r \in Revs, read'[r].pc = "answer" PROVE read'[r].ver >= ackedAt'[r]
      BY DEF ListingIsFresh
    <3>1. r # rev
      BY <2>2
    <3> QED BY <2>2, <3>1 DEF ListingIsFresh
  <2>6. SharedBootstrapIsFresh'
    <3> SUFFICES ASSUME NoLateFill', NEW r \in Revs, memo'[r].st = "done"
                 PROVE  memo'[r].ver >= ackedAt'[r]
      BY DEF SharedBootstrapIsFresh
    <3>1. r # rev
      BY <2>2
    <3> QED BY <1>5, <2>2, <3>1 DEF SharedBootstrapIsFresh
  <2> QED BY <1>4, <1>5, <2>3, <2>4, <2>5, <2>6
<1> QED BY <1>6, <1>7, <1>8

LEMMA BootInv ==
  ASSUME DataInv, NEW t \in Tabs, Boot(t)
  PROVE  DataInv'
BY BootstrapInv DEF Boot, DataInv, TypeOK

LEMMA TryRunInv ==
  ASSUME DataInv, NEW t \in Tabs, TryRun(t)
  PROVE  DataInv'
<1> DEFINE x == tab[t]
<1>1. x \in Tab
  BY DEF DataInv, TypeOK
<1>2. CASE x.busy
  <2>1. UNCHANGED <<memo, read>> /\ tab' = [tab EXCEPT ![t].timer = FALSE, ![t].dirty = TRUE]
    BY <1>2 DEF TryRun
  <2> DEFINE y == [x EXCEPT !.timer = FALSE, !.dirty = TRUE]
  <2>2. tab' \in [Tabs -> Tab] /\ \A u \in Tabs : tab'[u].req \in {tab[u].req, None}
    <3>1. tab' = [tab EXCEPT ![t] = y]
      BY <2>1 DEF DataInv, TypeOK
    <3>2. y \in Tab /\ y.req = x.req
      BY <1>1 DEF Tab
    <3> HIDE DEF y
    <3> QED BY <3>1, <3>2, OneTab DEF DataInv
  <2> QED BY <2>1, <2>2, TabOnly, NothingMissed DEF TryRun, DataInv
<1>3. CASE ~x.busy
  <2>1. Bootstrap(t, [x EXCEPT !.timer = FALSE, !.dirty = FALSE])
    BY <1>3 DEF TryRun
  <2>2. [x EXCEPT !.timer = FALSE, !.dirty = FALSE] \in Tab
    BY <1>1 DEF Tab
  <2> QED BY <2>1, <2>2, BootstrapInv DEF TryRun
<1> QED BY <1>2, <1>3

LEMMA ShownInv ==
  ASSUME DataInv, NEW t \in Tabs, Shown(t)
  PROVE  DataInv'
<1>1. tab' \in [Tabs -> Tab] /\ \A u \in Tabs : tab'[u].req \in {tab[u].req, None}
  <2>1. tab[t] \in Tab /\ tab[t].req \in Revs /\ memo[tab[t].req].ver \in Rows
    BY DEF Shown, DataInv, TypeOK, Tab
  <2> DEFINE v == memo[tab[t].req].ver
             x == [tab[t] EXCEPT !.req = None, !.shown = v]
  <2>2. tab' = [tab EXCEPT ![t] = x]
    BY DEF Shown, DataInv, TypeOK
  <2>3. v \in Rows
    BY <2>1
  <2>4. x \in Tab /\ x.req = None
    <3> HIDE DEF v
    <3> QED BY <2>1, <2>3 DEF Tab
  <2> HIDE DEF x
  <2> QED BY <2>2, <2>4, OneTab DEF DataInv
<1> QED BY <1>1, TabOnly, NothingMissed DEF Shown, DataInv

LEMMA ConnectInv ==
  ASSUME DataInv, NEW t \in Tabs, Connect(t)
  PROVE  DataInv'
<1> DEFINE in == <<[rev |-> rev, quiet |-> FALSE]>>
<1>1. in \in Seq(Event)
  <2>1. [rev |-> rev, quiet |-> FALSE] \in Event
    BY DEF Event, DataInv, TypeOK
  <2> QED BY <2>1
<1> DEFINE x == [tab[t] EXCEPT !.open = TRUE, !.inbox = in]
<1>2. tab' = [tab EXCEPT ![t] = x]
  BY DEF Connect, DataInv, TypeOK
<1>3. tab' \in [Tabs -> Tab] /\ \A u \in Tabs : tab'[u].req \in {tab[u].req, None}
  <2>1. tab[t] \in Tab
    BY DEF DataInv, TypeOK
  <2>2. x \in Tab /\ x.req = tab[t].req
    <3> HIDE DEF in
    <3> QED BY <1>1, <2>1 DEF Tab
  <2> HIDE DEF x
  <2> QED BY <1>2, <2>2, OneTab DEF DataInv
<1>4. missed' \in [Tabs -> SUBSET Reasons] /\ (NoLateFill' => NoLateFill)
  <2>1. UNCHANGED missed \/ Missed({t}, {"boot"}) \/ Missed({t}, {"rev"})
    BY DEF Connect
  <2>2. {t} \in SUBSET Tabs /\ {"boot"} \in SUBSET Reasons /\ {"rev"} \in SUBSET Reasons
    BY DEF Reasons
  <2> QED BY <2>1, <2>2, MissedGrows, NothingMissed DEF DataInv
<1> QED BY <1>3, <1>4, TabOnly DEF Connect

LEMMA ReceiveInv ==
  ASSUME DataInv, NEW t \in Tabs, Receive(t)
  PROVE  DataInv'
<1>1. /\ tab[t].inbox \in Seq(Event) /\ tab[t].inbox # <<>> /\ tab[t].timer \in BOOLEAN
      /\ tab[t] \in Tab
  BY DEF DataInv, TypeOK, Tab, Receive
<1>2. /\ Head(tab[t].inbox) \in Event /\ Tail(tab[t].inbox) \in Seq(Event)
  BY <1>1
<1> DEFINE e == Head(tab[t].inbox)
           rest == Tail(tab[t].inbox)
           due == tab[t].timer \/ News(tab[t], e)
           x == [tab[t] EXCEPT !.inbox = rest, !.last = e.rev, !.timer = due]
<1>3. tab' = [tab EXCEPT ![t] = x]
  BY <1>1 DEF Receive, DataInv, TypeOK
<1>4. e.rev \in Revs /\ rest \in Seq(Event) /\ due \in BOOLEAN
  BY <1>1, <1>2 DEF Event
<1>5. x \in Tab /\ x.req = tab[t].req
  <2> HIDE DEF e, rest, due
  <2> QED BY <1>1, <1>4 DEF Tab
<1>6. tab' \in [Tabs -> Tab] /\ \A u \in Tabs : tab'[u].req \in {tab[u].req, None}
  <2> HIDE DEF x
  <2> QED BY <1>3, <1>5, OneTab DEF DataInv
<1> QED BY <1>6, TabOnly, NothingMissed DEF Receive, DataInv

LEMMA DropInv ==
  ASSUME DataInv, NEW t \in Tabs, Drop(t)
  PROVE  DataInv'
<1> DEFINE none == <<>>
           x == [tab[t] EXCEPT !.open = FALSE, !.inbox = none]
<1>1. tab' \in [Tabs -> Tab] /\ \A u \in Tabs : tab'[u].req \in {tab[u].req, None}
  <2>1. none \in Seq(Event) /\ tab[t] \in Tab
    BY DEF DataInv, TypeOK
  <2>2. x \in Tab /\ x.req = tab[t].req
    <3> HIDE DEF none
    <3> QED BY <2>1 DEF Tab
  <2>3. tab' = [tab EXCEPT ![t] = x]
    BY DEF Drop, DataInv, TypeOK
  <2> HIDE DEF x
  <2> QED BY <2>2, <2>3, OneTab DEF DataInv
<1> QED BY <1>1, TabOnly, NothingMissed DEF Drop, DataInv

LEMMA BusyInv ==
  ASSUME DataInv, NEW t \in Tabs, Busy(t)
  PROVE  DataInv'
<1>1. tab' \in [Tabs -> Tab] /\ \A u \in Tabs : tab'[u].req = tab[u].req
  BY ZenonT(30) DEF Busy, DataInv, TypeOK, Tab
<1> QED BY <1>1, TabOnly, NothingMissed DEF Busy, DataInv

LEMMA OnIdleInv ==
  ASSUME DataInv, NEW t \in Tabs, OnIdle(t)
  PROVE  DataInv'
<1> DEFINE due == tab[t].timer \/ tab[t].dirty
           x == [tab[t] EXCEPT !.busy = FALSE, !.timer = due]
<1>1. tab[t] \in Tab /\ due \in BOOLEAN
  BY DEF DataInv, TypeOK, Tab
<1>2. tab' = [tab EXCEPT ![t] = x]
  BY <1>1 DEF OnIdle, DataInv, TypeOK
<1>3. x \in Tab /\ x.req = tab[t].req
  <2> HIDE DEF due
  <2> QED BY <1>1 DEF Tab
<1>4. tab' \in [Tabs -> Tab] /\ \A u \in Tabs : tab'[u].req \in {tab[u].req, None}
  <2> HIDE DEF x
  <2> QED BY <1>2, <1>3, OneTab DEF DataInv
<1> QED BY <1>4, TabOnly, NothingMissed DEF OnIdle, DataInv

LEMMA RequestFailsInv ==
  ASSUME DataInv, NEW t \in Tabs, RequestFails(t)
  PROVE  DataInv'
<1>1. tab' \in [Tabs -> Tab] /\ \A u \in Tabs : tab'[u].req \in {tab[u].req, None}
  BY ZenonT(30) DEF RequestFails, DataInv, TypeOK, Tab
<1>2. missed' \in [Tabs -> SUBSET Reasons] /\ (NoLateFill' => NoLateFill)
  <2>1. {t} \in SUBSET Tabs /\ {"request"} \in SUBSET Reasons
    BY DEF Reasons
  <2> QED BY <2>1, MissedGrows DEF RequestFails, DataInv
<1> QED BY <1>1, <1>2, TabOnly DEF RequestFails

LEMMA RestartInv ==
  ASSUME DataInv, Restart
  PROVE  DataInv'
<1> USE DEF DataInv
<1>1. /\ count' \in Counts /\ \A k \in Kinds : count'[k] <= Bounds[k]
      /\ count'["writes"] \in Nat /\ count'["quiet"] \in Nat
  <2>1. count' \in Counts /\ \A k \in Kinds : count'[k] <= Bounds[k]
    BY SpendCount DEF RevBounded, Kinds, Restart
  <2> QED BY <2>1 DEF Counts, Kinds
<1>2. tab' \in [Tabs -> Tab] /\ \A t \in Tabs : tab'[t].req = None
  <2> DEFINE none == <<>>
             x(t) == [tab[t] EXCEPT !.open = FALSE, !.inbox = none, !.req = None]
  <2>1. none \in Seq(Event)
    OBVIOUS
  <2>2. \A t \in Tabs : x(t) \in Tab /\ x(t).req = None
    <3> HIDE DEF none
    <3> TAKE t \in Tabs
    <3>1. tab[t] \in Tab
      BY DEF TypeOK
    <3> QED BY <2>1, <3>1 DEF Tab
  <2>3. tab' = [t \in Tabs |-> x(t)]
    BY DEF Restart
  <2> HIDE DEF x
  <2> QED BY <2>2, <2>3
<1>3. missed' \in [Tabs -> SUBSET Reasons] /\ (NoLateFill' => NoLateFill)
  BY DEF Restart, TypeOK, Reasons, NoLateFill
<1>4. /\ \A r \in Revs : memo'[r].st = "none" /\ read'[r].pc = "idle"
      /\ \A w \in Writers : write'[w].pc = "idle"
  BY DEF Restart, NoMemo, AtRest, Listings
<1>5. TypeOK'
  <2>1. /\ write' \in [Writers -> Call] /\ read' \in [Listings -> Call]
        /\ memo' \in [Revs -> [st : {"none", "running", "done"}, ver : Rows]]
    BY DEF Restart, AtRest, NoMemo, Call, Rows
  <2>2. ackedAt' \in [Revs -> Rows] /\ rev' \in Revs
    <3>1. acked \in Nat
      BY DEF TypeOK, Rows
    <3>2. ackedAt' = [r \in Revs |-> acked] /\ rev' = 0
      BY DEF Restart
    <3> QED BY <3>1, <3>2, BoundsType DEF Rows
  <2> QED BY <1>1, <1>2, <1>3, <1>4, <2>1, <2>2 DEF TypeOK, Restart
<1>6. RevBounded'
  <2>1. {w \in Writers : write'[w].pc # "idle"} = {} /\ rev' = 0
    BY <1>4 DEF Restart
  <2>2. Cardinality({w \in Writers : write'[w].pc # "idle"}) = 0
    BY <2>1, FS_EmptySet
  <2>3. rev' + 0 <= count'["writes"] + count'["quiet"]
    BY <1>1, <2>1
  <2> QED BY <1>1, <2>2, <2>3 DEF RevBounded
<1>7. AnswersCommitted' /\ FutureUnknown' /\ ListingIsFresh' /\ CacheIsFresh' /\ SharedBootstrapIsFresh'
  BY <1>4 DEF AnswersCommitted, FutureUnknown, ListingIsFresh, CacheIsFresh, SharedBootstrapIsFresh, Restart
<1>8. AnnouncedIsAcked'
  <2>0. acked' = acked /\ ackedAt' = [r \in Revs |-> acked]
    BY DEF Restart
  <2>1. acked \in Nat /\ acked' = acked /\ ackedAt' = [r \in Revs |-> acked]
    <3>1. acked \in Nat
      BY DEF TypeOK, Rows
    <3> QED BY <2>0, <3>1
  <2>2. \A r \in Revs : ackedAt'[r] = acked
    BY <2>1
  <2> QED BY <2>1, <2>2 DEF AnnouncedIsAcked
<1> QED BY <1>5, <1>6, <1>7, <1>8

-----------------------------------------------------------------------------
LEMMA StutterInv ==
  ASSUME DataInv, UNCHANGED vars
  PROVE  DataInv'
BY DEF DataInv, vars, TypeOK, RevBounded, AnswersCommitted, FutureUnknown, AnnouncedIsAcked,
       ListingIsFresh, CacheIsFresh, SharedBootstrapIsFresh, NoLateFill

LEMMA NextInv == DataInv /\ [Next]_vars => DataInv'
<1> SUFFICES ASSUME DataInv, [Next]_vars PROVE DataInv'
  OBVIOUS
<1>1. ASSUME NEW w \in Writers,
             Commit(w) \/ Returned(w) \/ Write(w) \/ WriteFails(w)
      PROVE  DataInv'
  BY <1>1, CommitInv, ReturnedInv, WriteInv, WriteFailsInv
<1>2. ASSUME NEW p \in Listings, ListRead(p) \/ ListFill(p) \/ ListFails(p)
      PROVE  DataInv'
  BY <1>2, ListReadInv, ListFillInv, ListFailsInv
<1>3. ASSUME NEW t \in Tabs,
             \/ Boot(t) \/ Shown(t) \/ Connect(t) \/ Receive(t) \/ TryRun(t) \/ OnIdle(t)
             \/ Drop(t) \/ Busy(t) \/ RequestFails(t)
      PROVE  DataInv'
  BY <1>3, BootInv, ShownInv, ConnectInv, ReceiveInv, TryRunInv, OnIdleInv, DropInv, BusyInv,
     RequestFailsInv
<1>4. ASSUME NEW p \in Pollers, Poll(p)
      PROVE  DataInv'
  BY <1>4, PollInv
<1>5. ASSUME NEW r \in Revs, MemoExpires(r)
      PROVE  DataInv'
  BY <1>5, MemoExpiresInv
<1> QED BY <1>1, <1>2, <1>3, <1>4, <1>5, QuietWriteInv, CacheExpiresInv, RestartInv, StutterInv
        DEF Next, Progress

(* Who asks for a bootstrap asks for the latest revision.                  *)
LEMMA BootstrapCovered ==
  ASSUME DataInv, RequestsAreCovered, NEW t \in Tabs, NEW x \in Tab, Bootstrap(t, x),
         UNCHANGED <<acked, ackedAt, rev>>
  PROVE  RequestsAreCovered'
<1>1. /\ AskedTab(x) \in Tab /\ AskedTab(x).req = rev /\ AskedTab(x).due = acked
      /\ acked \in Nat
  BY AskedTabType DEF DataInv
<1>2. tab' = [tab EXCEPT ![t] = AskedTab(x)]
  BY DEF Bootstrap, Key, AskedTab
<1>3. \A u \in Tabs : tab'[u] = IF u = t THEN AskedTab(x) ELSE tab[u]
  BY <1>1, <1>2, OneTab DEF DataInv
<1> QED BY <1>1, <1>3 DEF RequestsAreCovered

(* A step that announces a revision leaves what was asked for before it.   *)
LEMMA BumpCovered ==
  ASSUME DataInv, RequestsAreCovered, NEW quiet \in BOOLEAN, Bump(quiet), rev + 1 \in Revs,
         ackedAt' = [ackedAt EXCEPT ![rev'] = acked']
  PROVE  RequestsAreCovered'
<1>1. rev' = rev + 1 /\ rev' \in Revs /\ rev \in Nat /\ acked' = ackedAt'[rev']
  BY BoundsType DEF Bump, DataInv, TypeOK
<1>2. \A t \in Tabs : tab'[t].req = tab[t].req /\ tab'[t].due = tab[t].due
  <2> TAKE t \in Tabs
  <2>1. tab[t] \in Tab
    BY DEF DataInv, TypeOK
  <2> QED BY <2>1 DEF Bump, Tab
<1>3. \A t \in Tabs : tab[t].req # None => tab[t].req \in Revs /\ tab[t].req # rev + 1
  <2> TAKE t \in Tabs
  <2>1. tab[t].req # None => tab[t].req \in Revs /\ memo[tab[t].req].st # "none"
    BY DEF DataInv, TypeOK, Tab
  <2>2. memo[rev + 1].st = "none"
    BY <1>1 DEF DataInv, FutureUnknown
  <2> QED BY <2>1, <2>2
<1> QED BY <1>1, <1>2, <1>3 DEF RequestsAreCovered, DataInv, TypeOK

LEMMA NextCovered ==
  ASSUME DataInv, RequestsAreCovered, [Next]_vars
  PROVE  RequestsAreCovered'
<1>0. \A t \in Tabs : tab[t] \in Tab
  BY DEF DataInv, TypeOK
<1>1. ASSUME UNCHANGED <<acked, ackedAt, rev>>,
             \A t \in Tabs : \/ tab'[t].req = None
                             \/ tab'[t].req = tab[t].req /\ tab'[t].due = tab[t].due
      PROVE  RequestsAreCovered'
  BY <1>1 DEF RequestsAreCovered
<1>2. ASSUME NEW w \in Writers, Returned(w)
      PROVE  RequestsAreCovered'
  <2>1. DataInv'
    BY <1>2, ReturnedInv
  <2>2. rev + 1 \in Revs
    BY <1>2, <2>1 DEF DataInv, TypeOK, Returned, Bump
  <2> QED BY <1>2, <2>2, BumpCovered DEF Returned
<1>3. ASSUME QuietWrite
      PROVE  RequestsAreCovered'
  <2>1. DataInv'
    BY <1>3, QuietWriteInv
  <2>2. rev + 1 \in Revs
    BY <1>3, <2>1 DEF DataInv, TypeOK, QuietWrite, Bump
  <2>3. ackedAt' = [ackedAt EXCEPT ![rev'] = acked']
    BY <1>3 DEF QuietWrite
  <2> QED BY <1>3, <2>2, <2>3, BumpCovered DEF QuietWrite
<1>4. ASSUME NEW w \in Writers, Commit(w) \/ Write(w) \/ WriteFails(w)
      PROVE  RequestsAreCovered'
  BY <1>1, <1>4 DEF Commit, Write, WriteFails
<1>5. ASSUME NEW p \in Listings, ListRead(p) \/ ListFill(p)
      PROVE  RequestsAreCovered'
  BY <1>1, <1>5 DEF ListRead, ListFill
<1>6. ASSUME NEW p \in Listings, ListFails(p)
      PROVE  RequestsAreCovered'
  <2>1. \A t \in Tabs : \/ tab'[t].req = None
                        \/ tab'[t].req = tab[t].req /\ tab'[t].due = tab[t].due
    BY <1>0, <1>6 DEF ListFails, Tab
  <2> QED BY <1>1, <1>6, <2>1 DEF ListFails
<1>7. ASSUME CacheExpires \/ (\E p \in Pollers : Poll(p)) \/ \E r \in Revs : MemoExpires(r)
      PROVE  RequestsAreCovered'
  BY <1>1, <1>7 DEF CacheExpires, Poll, MemoExpires
<1>8. ASSUME NEW t \in Tabs, Boot(t) \/ TryRun(t)
      PROVE  RequestsAreCovered'
  <2>1. CASE TryRun(t) /\ tab[t].busy
    <3>1. tab \in [Tabs -> Tab] /\ tab[t] \in Tab
      BY DEF DataInv, TypeOK
    <3>2. tab' = [tab EXCEPT ![t].timer = FALSE, ![t].dirty = TRUE]
      BY <2>1 DEF TryRun
    <3>3. \A u \in Tabs \ {t} : tab'[u] = tab[u]
      BY <3>1, <3>2
    <3>4. tab'[t].req = tab[t].req /\ tab'[t].due = tab[t].due
      BY <3>1, <3>2 DEF Tab
    <3> QED BY <1>1, <2>1, <3>3, <3>4 DEF TryRun
  <2>2. CASE TryRun(t) /\ ~tab[t].busy
    <3>1. [tab[t] EXCEPT !.timer = FALSE, !.dirty = FALSE] \in Tab
      BY <1>0 DEF Tab
    <3> QED BY <2>2, <3>1, BootstrapCovered DEF TryRun
  <2>3. CASE Boot(t)
    BY <1>0, <2>3, BootstrapCovered DEF Boot
  <2> QED BY <1>8, <2>1, <2>2, <2>3
<1>9. ASSUME NEW t \in Tabs,
             \/ Shown(t) \/ RequestFails(t) \/ Connect(t) \/ Receive(t) \/ OnIdle(t)
             \/ Drop(t) \/ Busy(t)
      PROVE  RequestsAreCovered'
  <2>1. \A u \in Tabs \ {t} : tab'[u] = tab[u]
    BY <1>9 DEF Shown, RequestFails, Connect, Receive, OnIdle, Drop, Busy, DataInv, TypeOK
  <2>2. \/ tab'[t].req = None
        \/ tab'[t].req = tab[t].req /\ tab'[t].due = tab[t].due
    <3>1. tab \in [Tabs -> Tab] /\ tab[t] \in Tab
      BY DEF DataInv, TypeOK
    <3>2. CASE Shown(t)
      BY <3>1, <3>2 DEF Shown, Tab
    <3>3. CASE RequestFails(t)
      BY <3>1, <3>3 DEF RequestFails, Tab
    <3>4. CASE Connect(t)
      BY <3>1, <3>4 DEF Connect, Tab
    <3>5. CASE Receive(t)
      BY <3>1, <3>5 DEF Receive, Tab
    <3>6. CASE OnIdle(t)
      BY <3>1, <3>6 DEF OnIdle, Tab
    <3>7. CASE Drop(t)
      BY <3>1, <3>7 DEF Drop, Tab
    <3>8. CASE Busy(t)
      BY <3>1, <3>8 DEF Busy, Tab
    <3> QED BY <1>9, <3>2, <3>3, <3>4, <3>5, <3>6, <3>7, <3>8
  <2>3. UNCHANGED <<acked, ackedAt, rev>>
    BY <1>9 DEF Shown, RequestFails, Connect, Receive, OnIdle, Drop, Busy
  <2> QED BY <1>1, <2>1, <2>2, <2>3
<1>10. ASSUME Restart
       PROVE  RequestsAreCovered'
  <2>1. \A t \in Tabs : tab'[t].req = None
    BY <1>0, <1>10 DEF Restart, Tab
  <2>2. ackedAt' = [r \in Revs |-> acked] /\ acked' = acked /\ rev' = 0
    BY <1>10 DEF Restart
  <2> QED BY <2>1, <2>2, BoundsType DEF RequestsAreCovered
<1>11. CASE UNCHANGED vars
  BY <1>1, <1>11 DEF vars
<1> QED BY <1>2, <1>3, <1>4, <1>5, <1>6, <1>7, <1>8, <1>9, <1>10, <1>11 DEF Next, Progress

(* The inductive invariant holds of the caches and the tabs in every state *)
(* of db.js, changes.js, routes.bootstrap.js and app.jsx.                  *)
THEOREM Invariance == Spec => []Inv
<1>1. Init => Inv
  <2>1. Init => RequestsAreCovered
    BY BoundsType DEF Init, RequestsAreCovered, NewTab
  <2> QED BY <2>1, InitInv DEF Inv
<1>2. Inv /\ [Next]_vars => Inv'
  BY NextInv, NextCovered DEF Inv
<1> QED BY <1>1, <1>2, PTL DEF Spec

(* Every variable keeps its type, every memoized bootstrap has its listing *)
(* and nobody waits for one that is not there (routes.bootstrap.js).       *)
THEOREM TypeCorrect == Spec => []TypeOK
<1>1. Inv => TypeOK
  BY DEF Inv, DataInv
<1> QED BY <1>1, Invariance, PTL

(* Requests that share a bootstrap each get every write that returned      *)
(* before they asked, unless a late list answer had filled the cache.      *)
THEOREM Sharing == Spec => []AnswersAreFresh
<1>1. Inv => AnswersAreFresh
  <2> SUFFICES ASSUME Inv, NoLateFill, NEW t \in Tabs,
                      tab[t].req # None, memo[tab[t].req].st = "done"
               PROVE  memo[tab[t].req].ver >= tab[t].due
    BY DEF AnswersAreFresh
  <2> DEFINE r == tab[t].req
  <2>1. r \in Revs /\ tab[t].due \in Nat /\ memo[r].ver \in Nat /\ ackedAt[r] \in Nat
    BY DEF Inv, DataInv, TypeOK, Tab, Rows
  <2>2. memo[r].ver >= ackedAt[r]
    BY <2>1 DEF Inv, DataInv, SharedBootstrapIsFresh
  <2>3. tab[t].due <= ackedAt[r]
    BY DEF Inv, RequestsAreCovered
  <2> QED BY <2>1, <2>2, <2>3
<1> QED BY <1>1, Invariance, PTL
=============================================================================
