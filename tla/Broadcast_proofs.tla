--------------------------- MODULE Broadcast_proofs ---------------------------
(***************************************************************************)
(* For any campaigns, leads and faults, and any calls that do not overlap: *)
(* who gets a message twice, which campaigns are done, and how many        *)
(* messages the number starts in a day.                                    *)
(***************************************************************************)
EXTENDS BroadcastProps, FiniteSetTheorems, TLAPS

PCs == {"idle", "close", "danger", "health", "pick", "send"}
SentMap == [Leads -> Entry]

Fields == {"pc", "docs", "todo", "c", "sent", "queue", "budget", "used", "tries", "fails"}

UpdateRecord ==
    [phase : {"get", "put"}, c : Campaigns, status : Status \cup {KeepStatus}, sent : SentMap \cup {Keep}]

(* What a cycle has in hand; its batch is within its budget.               *)
InHand(ch, r) ==
    /\ DOMAIN r = Fields /\ r.pc \in PCs
    /\ r.todo \subseteq Campaigns /\ r.queue \subseteq Leads
    /\ r.budget \in Nat /\ r.budget <= PER_TICK[ch]
    /\ r.used \in Nat /\ r.tries \in Nat /\ r.fails \in Nat
    /\ r.pc \in {"health", "pick", "send"} => r.docs \in [Campaigns -> Doc]
    /\ r.pc = "send" => /\ r.c \in Campaigns /\ r.sent \in SentMap
                        /\ Cardinality(r.queue) <= r.budget

Merging(u) ==
    \/ u = NoUpdate
    \/ u \in UpdateRecord /\ (u.phase = "put" => u.status \in Status /\ u.sent \in SentMap)

Types ==
    /\ camp \in [Campaigns -> Doc]
    /\ DOMAIN update = Processes /\ \A p \in Processes : Merging(update[p])
    /\ DOMAIN runner = Channels /\ \A ch \in Channels : InHand(ch, runner[ch])
    /\ update = [p \in Processes |-> update[p]] /\ runner = [ch \in Channels |-> runner[ch]]
    /\ today \in Days
    /\ messages \in [Channels -> [Campaigns -> [Leads -> Nat]]]
    /\ sentOn \in [Days -> Nat]
    /\ bounced \subseteq Campaigns \X Leads \X Nat
    /\ faults \in 0..MaxFaults /\ restarts \in 0..MaxRestarts

LEMMA TypesOK == Types => TypeOK
  <1> SUFFICES ASSUME Types PROVE TypeOK
    OBVIOUS
  <1>1. \A p \in Processes : update[p].phase \in {"none", "get", "put"}
    BY DEF Types, Merging, NoUpdate, UpdateRecord
  <1>2. ASSUME NEW ch \in Channels
        PROVE  /\ runner[ch].pc \in PCs
               /\ runner[ch].todo \subseteq Campaigns /\ runner[ch].queue \subseteq Leads
               /\ runner[ch].budget \in 0..PER_TICK[ch]
    BY BroadcastAssumption DEF Types, InHand, Fields, Channels
  <1> QED
    BY <1>1, <1>2 DEF Types, TypeOK, PCs

-----------------------------------------------------------------------------
(* Steps that move one cycle, or start or go on with one update.           *)
LEMMA MoveTypes ==
    ASSUME Types, NEW ch \in Channels, NEW r, Move(ch, r), InHand(ch, r),
           UNCHANGED <<camp, update, today, messages, sentOn, bounced>>,
           faults' \in 0..MaxFaults, UNCHANGED restarts
    PROVE  Types'
BY DEF Types, Move

LEMMA IdleInHand == \A ch \in Channels : InHand(ch, Idle)
BY BroadcastAssumption DEF InHand, Idle, Fields, PCs, Channels

LEMMA UpdateTypes ==
    ASSUME Types, NEW p \in Processes, NEW u, Merging(u), update' = [update EXCEPT ![p] = u],
           camp' \in [Campaigns -> Doc],
           UNCHANGED <<runner, today, messages, sentOn, bounced, faults, restarts>>
    PROVE  Types'
BY DEF Types

LEMMA StartTypes ==
    ASSUME NEW p \in Processes, NEW c \in Campaigns, NEW status \in Status \cup {KeepStatus},
           NEW sent \in SentMap \cup {Keep}, StartUpdate(p, c, status, sent)
    PROVE  \E u : Merging(u) /\ update' = [update EXCEPT ![p] = u]
BY DEF StartUpdate, Merging, UpdateRecord

LEMMA MoveAndStartTypes ==
    ASSUME Types, NEW ch \in Channels, NEW r, Move(ch, r), InHand(ch, r),
           NEW c \in Campaigns, NEW status \in Status \cup {KeepStatus},
           NEW sent \in SentMap \cup {Keep}, StartUpdate(ch, c, status, sent),
           UNCHANGED <<camp, today, messages, sentOn, bounced>>,
           faults' \in 0..MaxFaults, UNCHANGED restarts
    PROVE  Types'
  <1>1. PICK u : Merging(u) /\ update' = [update EXCEPT ![ch] = u]
    BY StartTypes DEF Processes
  <1> QED
    BY <1>1 DEF Types, Move, Processes

LEMMA UpdateGetTypes ==
    ASSUME Types, NEW p \in Processes, UpdateGet(p)
    PROVE  Types'
  <1> DEFINE u == update[p]
             d == camp[u.c]
             v == [u EXCEPT !.phase = "put",
                            !.status = IF u.status \in Status THEN u.status ELSE d.status,
                            !.sent = IF u.sent = Keep THEN d.sent ELSE u.sent]
  <1>1. u \in UpdateRecord
    BY DEF UpdateGet, Types, Merging, NoUpdate
  <1>2. d \in Doc
    BY <1>1 DEF Types, UpdateRecord
  <1>3. Merging(v)
    BY <1>1, <1>2 DEF Merging, UpdateRecord, Doc, SentMap
  <1>4. update' = [update EXCEPT ![p] = v] /\ UNCHANGED <<camp, runner>>
    BY DEF UpdateGet
  <1>5. /\ camp' \in [Campaigns -> Doc]
        /\ UNCHANGED <<runner, today, messages, sentOn, bounced, faults, restarts>>
    BY DEF UpdateGet, Types
  <1> HIDE DEF v
  <1> QED
    BY <1>3, <1>4, <1>5, UpdateTypes, Zenon

LEMMA UpdatePutTypes ==
    ASSUME Types, NEW p \in Processes, UpdatePut(p)
    PROVE  Types'
  <1> DEFINE u == update[p]
  <1>1. u \in UpdateRecord /\ u.status \in Status /\ u.sent \in SentMap
    BY DEF UpdatePut, Types, Merging, NoUpdate
  <1>2. camp' \in [Campaigns -> Doc]
    BY <1>1 DEF UpdatePut, Types, UpdateRecord, Doc, SentMap
  <1>3. Merging(NoUpdate)
    BY DEF Merging
  <1> QED
    BY <1>2, <1>3, UpdateTypes DEF UpdatePut

-----------------------------------------------------------------------------
(* Helpers.                                                                *)
LEMMA MinPair ==
    ASSUME NEW a \in Int, NEW b \in Int
    PROVE  Min({a, b}) \in {a, b} /\ Min({a, b}) <= a /\ Min({a, b}) <= b
BY DEF Min

LEMMA CountedFinite ==
    \A S \in SUBSET (Campaigns \X Leads) : IsFiniteSet(S) /\ Cardinality(S) \in Nat
BY BroadcastAssumption, FS_Product, FS_Subset, FS_CardinalityType

LEMMA LeadsFinite == \A S \in SUBSET Leads : IsFiniteSet(S) /\ Cardinality(S) \in Nat
BY BroadcastAssumption, FS_Subset, FS_CardinalityType

LEMMA CountsAreNat == Types => SentToday(camp) \in Nat
  <1> DEFINE S == {x \in Campaigns \X Leads :
                     LET e == camp[x[1]].sent[x[2]].wa
                     IN  Uses(x[1], "wa") /\ e.day = today /\ e.st \notin {"none", "queued"}}
  <1>1. S \in SUBSET (Campaigns \X Leads)
    OBVIOUS
  <1> QED
    BY <1>1, CountedFinite DEF SentToday

(* One lead's progress on one channel is replaced.                         *)
Progressed == [st : EntryStatus, day : 0..MaxDay, at : BOOLEAN, msg : Nat]

LEMMA Replaced ==
    ASSUME NEW s \in SentMap, NEW l \in Leads, NEW ch \in Channels, NEW e \in Progressed
    PROVE  [s EXCEPT ![l][ch] = e] \in SentMap
BY DEF SentMap, Entry, Progressed

PutAside(s, l, ch, st) == [s EXCEPT ![l][ch].st = st, ![l][ch].at = @ \/ ch = "wa"]

LEMMA SkippedMap ==
    ASSUME NEW s \in SentMap, NEW l \in Leads, NEW ch \in Channels, NEW st \in EntryStatus
    PROVE  PutAside(s, l, ch, st) \in SentMap
  <1> DEFINE e == [s[l][ch] EXCEPT !.st = st, !.at = @ \/ ch = "wa"]
             t == PutAside(s, l, ch, st)
  <1>1. s[l][ch] \in Progressed
    BY DEF SentMap, Entry, Progressed
  <1>2. e \in Progressed
    BY <1>1 DEF Progressed
  <1>3. t = [s EXCEPT ![l][ch] = e]
    BY DEF SentMap, Entry, PutAside
  <1> HIDE DEF e, t
  <1>4. t \in SentMap
    BY <1>2, <1>3, Replaced
  <1> QED
    BY <1>4 DEF t

PutSent(s, l, ch, day, m) ==
    [s EXCEPT ![l][ch].st = "sent", ![l][ch].day = day, ![l][ch].msg = m]

LEMMA AcceptedMap ==
    ASSUME NEW s \in SentMap, NEW l \in Leads, NEW ch \in Channels,
           NEW day \in 0..MaxDay, NEW m \in Nat
    PROVE  PutSent(s, l, ch, day, m) \in SentMap
  <1> DEFINE e == [s[l][ch] EXCEPT !.st = "sent", !.day = day, !.msg = m]
             t == PutSent(s, l, ch, day, m)
  <1>1. s[l][ch] \in Progressed
    BY DEF SentMap, Entry, Progressed
  <1>2. e \in Progressed
    BY <1>1 DEF Progressed, EntryStatus
  <1>3. t = [s EXCEPT ![l][ch] = e]
    BY DEF SentMap, Entry, PutSent
  <1> HIDE DEF e, t
  <1>4. t \in SentMap
    BY <1>2, <1>3, Replaced
  <1> QED
    BY <1>4 DEF t

-----------------------------------------------------------------------------
(* The steps of a cycle keep the types.                                    *)
LEMMA StartCycleTypes ==
    ASSUME Types, NEW ch \in Channels, StartCycle(ch)
    PROVE  Types'
  <1> DEFINE active == Active(ch)
             empty == {c \in Campaigns : /\ camp[c].status = "sending"
                                         /\ ~HasQueued(camp[c]) /\ Uses(c, ch)}
             r1 == [Idle EXCEPT !.pc = IF ch = "wa" THEN "health" ELSE "pick",
                                !.docs = camp, !.todo = active,
                                !.budget = PER_TICK[ch],
                                !.used = IF ch = "wa" THEN SentToday(camp) ELSE 0]
             r2 == [Idle EXCEPT !.pc = "close", !.todo = empty]
  <1>1. InHand(ch, r1)
    <2>1. SentToday(camp) \in Nat /\ camp \in [Campaigns -> Doc] /\ active \subseteq Campaigns
      BY CountsAreNat DEF Types, Active
    <2> HIDE DEF active
    <2> QED
      BY <2>1, BroadcastAssumption DEF InHand, Idle, Fields, PCs, Channels
  <1>2. InHand(ch, r2)
    <2>1. empty \subseteq Campaigns
      OBVIOUS
    <2> HIDE DEF empty
    <2> QED
      BY <2>1, BroadcastAssumption DEF InHand, Idle, Fields, PCs, Channels
  <1>3. Move(ch, r1) \/ Move(ch, r2)
    BY DEF StartCycle
  <1>4. UNCHANGED <<camp, update, today, messages, sentOn, bounced, faults, restarts>>
    BY DEF StartCycle
  <1>5. faults' \in 0..MaxFaults
    BY <1>4 DEF Types
  <1> HIDE DEF r1, r2
  <1> QED
    BY <1>1, <1>2, <1>3, <1>4, <1>5, MoveTypes

LEMMA SetAllTypes ==
    ASSUME Types, NEW ch \in Channels, NEW pc, NEW status \in Status, SetAll(ch, pc, status)
    PROVE  Types'
  <1>1. faults' \in 0..MaxFaults /\ UNCHANGED <<camp, today, messages, sentOn, bounced, faults, restarts>>
    BY DEF SetAll, Types
  <1>2. CASE Move(ch, Idle) /\ UNCHANGED update
    BY <1>1, <1>2, IdleInHand, MoveTypes
  <1>3. ASSUME NEW c \in runner[ch].todo,
               Move(ch, [runner[ch] EXCEPT !.todo = @ \ {c}]), StartUpdate(ch, c, status, Keep)
        PROVE  Types'
    <2>1. c \in Campaigns /\ InHand(ch, [runner[ch] EXCEPT !.todo = @ \ {c}])
      BY DEF Types, InHand, Fields
    <2> QED
      BY <1>1, <1>3, <2>1, MoveAndStartTypes DEF Keep
  <1> QED
    BY <1>2, <1>3 DEF SetAll

LEMMA HealthTypes ==
    ASSUME Types, Health
    PROVE  Types'
  <1>1. PICK pc \in {"danger", "pick"} : Move("wa", [runner["wa"] EXCEPT !.pc = pc])
    BY DEF Health
  <1>2. InHand("wa", [runner["wa"] EXCEPT !.pc = pc])
    BY DEF Types, InHand, Fields, PCs, Channels, Health, Ready
  <1>3. faults' \in 0..MaxFaults /\ UNCHANGED <<camp, update, today, messages, sentOn, bounced, restarts>>
    BY DEF Health, Types
  <1> QED
    BY <1>1, <1>2, <1>3, MoveTypes DEF Channels

LEMMA PickTypes ==
    ASSUME Types, NEW ch \in Channels, PickCampaign(ch)
    PROVE  Types'
  <1> DEFINE r == runner[ch]
  <1>0. /\ InHand(ch, r) /\ r.pc = "pick" /\ faults' \in 0..MaxFaults
        /\ UNCHANGED <<camp, update, today, messages, sentOn, bounced, restarts>>
    BY DEF PickCampaign, Types, Ready
  <1>1. CASE Move(ch, Idle)
    BY <1>0, <1>1, IdleInHand, MoveTypes
  <1>2. ASSUME NEW c \in r.todo, Move(ch, [r EXCEPT !.todo = @ \ {c}])
        PROVE  Types'
    <2>1. InHand(ch, [r EXCEPT !.todo = @ \ {c}])
      BY <1>0 DEF InHand, Fields
    <2> QED
      BY <1>0, <1>2, <2>1, MoveTypes
  <1>3. ASSUME NEW c \in r.todo,
               NEW q \in SUBSET Leads, Cardinality(q) <= r.budget,
               Move(ch, [r EXCEPT !.pc = "send", !.todo = @ \ {c}, !.c = c,
                                  !.sent = r.docs[c].sent, !.queue = q,
                                  !.tries = 0, !.fails = 0])
        PROVE  Types'
    <2>1. c \in Campaigns /\ r.docs[c].sent \in SentMap
      BY <1>0 DEF InHand, Fields, Doc, SentMap
    <2>2. InHand(ch, [r EXCEPT !.pc = "send", !.todo = @ \ {c}, !.c = c,
                               !.sent = r.docs[c].sent, !.queue = q, !.tries = 0, !.fails = 0])
      BY <1>0, <1>3, <2>1 DEF InHand, Fields, PCs
    <2> QED
      BY <1>0, <1>3, <2>2, MoveTypes
  <1>4. ASSUME NEW c \in r.todo
        PROVE  \A q : q \in kSubset(Min({Allowance(r, ch), Cardinality({l \in Leads : r.docs[c].sent[l][ch].st = "queued"})}),
                                     {l \in Leads : r.docs[c].sent[l][ch].st = "queued"})
                   => q \in SUBSET Leads /\ Cardinality(q) <= r.budget
    <2> DEFINE waiting == {l \in Leads : r.docs[c].sent[l][ch].st = "queued"}
    <2>1. Cardinality(waiting) \in Nat
      BY LeadsFinite
    <2>2. Allowance(r, ch) \in Int /\ Allowance(r, ch) <= r.budget
      BY <1>0, BroadcastAssumption DEF Allowance, InHand, Fields
    <2>3. Min({Allowance(r, ch), Cardinality(waiting)}) <= Allowance(r, ch)
          /\ Min({Allowance(r, ch), Cardinality(waiting)}) \in Int
      <3> HIDE DEF waiting
      <3>1. PICK a \in Int : a = Allowance(r, ch)
        BY <2>2, Zenon
      <3>2. PICK n \in Int : n = Cardinality(waiting)
        BY <2>1
      <3>3. Min({a, n}) <= a /\ Min({a, n}) \in Int
        <4>1. Min({a, n}) \in {a, n} /\ Min({a, n}) <= a
          BY <3>1, <3>2, MinPair, Zenon
        <4> QED BY <3>1, <3>2, <4>1, Zenon
      <3> QED BY <3>1, <3>2, <3>3, Zenon
    <2>4. \A n : \A q \in kSubset(n, waiting) : q \in SUBSET Leads /\ Cardinality(q) = n
      BY DEF kSubset
    <2>5. r.budget \in Int
      BY <1>0 DEF InHand
    <2> HIDE DEF r
    <2>6. \A q \in kSubset(Min({Allowance(r, ch), Cardinality(waiting)}), waiting) :
            q \in SUBSET Leads /\ Cardinality(q) <= r.budget
      <3> HIDE DEF waiting
      <3> QED
        BY <2>2, <2>3, <2>4, <2>5
    <2> QED
      BY <2>6
  <1> QED
    BY <1>1, <1>2, <1>3, <1>4 DEF PickCampaign

LEMMA NoPhotoTypes ==
    ASSUME Types, NEW c \in Campaigns, NoHeaderPhoto(c)
    PROVE  Types'
  <1> DEFINE r == [runner["wa"] EXCEPT !.todo = @ \ {c}]
  <1>1. InHand("wa", r) /\ Move("wa", r) /\ "wa" \in Channels
    BY DEF NoHeaderPhoto, Types, InHand, Fields, Channels
  <1>2. faults' \in 0..MaxFaults /\ UNCHANGED <<camp, today, messages, sentOn, bounced, restarts>>
    BY BroadcastAssumption DEF NoHeaderPhoto, Types
  <1>3. CASE StartUpdate("wa", c, "paused", Keep)
    BY <1>1, <1>2, <1>3, MoveAndStartTypes DEF Status
  <1>4. CASE UNCHANGED update
    BY <1>1, <1>2, <1>4, MoveTypes
  <1> QED
    BY <1>3, <1>4 DEF NoHeaderPhoto

(* What a batch does with one lead of its queue.                           *)
LEMMA LeadTypes ==
    ASSUME Types, NEW ch \in Channels, Ready(ch, "send"), NEW l \in runner[ch].queue,
           NEW sent \in SentMap, NEW r, Move(ch, r), DOMAIN r = Fields,
           r.pc = "send", r.c = runner[ch].c, r.todo = runner[ch].todo, r.docs = runner[ch].docs,
           r.sent = sent, r.queue = runner[ch].queue \ {l},
           r.budget \in {runner[ch].budget, runner[ch].budget - 1},
           r.used \in Nat, r.tries \in Nat, r.fails \in Nat,
           UNCHANGED <<camp, update, today, restarts>>, faults' \in 0..MaxFaults,
           messages' \in [Channels -> [Campaigns -> [Leads -> Nat]]],
           sentOn' \in [Days -> Nat], UNCHANGED bounced
    PROVE  Types'
  <1>1. InHand(ch, runner[ch]) /\ runner[ch].pc = "send"
    BY DEF Types, Ready
  <1>2. IsFiniteSet(runner[ch].queue) /\ Cardinality(runner[ch].queue) \in Nat
        /\ Cardinality(r.queue) \in Nat /\ Cardinality(r.queue) = Cardinality(runner[ch].queue) - 1
    <2> DEFINE q == runner[ch].queue
    <2>1. q \subseteq Leads /\ l \in q /\ r.queue = q \ {l}
      BY <1>1 DEF InHand
    <2> HIDE DEF q
    <2>2. IsFiniteSet(q) /\ Cardinality(q) \in Nat
      BY <2>1, LeadsFinite
    <2>3. Cardinality(q \ {l}) = Cardinality(q) - 1
      BY <2>1, <2>2, FS_RemoveElement
    <2>4. Cardinality(q \ {l}) \in Nat
      BY <2>1, LeadsFinite
    <2> QED
      BY <2>1, <2>2, <2>3, <2>4 DEF q
  <1>3. InHand(ch, r)
    <2>1. r.budget \in Nat /\ Cardinality(r.queue) <= r.budget /\ r.budget <= PER_TICK[ch]
      BY <1>1, <1>2, BroadcastAssumption DEF InHand, Channels
    <2> QED
      BY <1>1, <2>1 DEF InHand, PCs
  <1> QED
    BY <1>3 DEF Types, Move

LEMMA EntryOf ==
    ASSUME Types, NEW ch \in Channels, Ready(ch, "send"), NEW l \in runner[ch].queue
    PROVE  /\ l \in Leads /\ runner[ch].c \in Campaigns /\ runner[ch].sent \in SentMap
           /\ runner[ch].sent[l][ch] \in Progressed
BY DEF Progressed, Types, InHand, Ready, SentMap, Entry

LEMMA SkipTypes ==
    ASSUME Types, NEW ch \in Channels, NEW l \in Leads, Skip(ch, l)
    PROVE  Types'
  <1> DEFINE r == runner[ch]
             n == [r EXCEPT !.queue = @ \ {l}, !.sent[l][ch].st = "skipped",
                            !.sent[l][ch].at = @ \/ ch = "wa"]
  <1>1. Ready(ch, "send") /\ l \in r.queue /\ InHand(ch, r) /\ Move(ch, n) /\ r.pc = "send"
    BY DEF Skip, Types, Ready
  <1>2. n.sent \in SentMap
    <2>1. n.sent = PutAside(r.sent, l, ch, "skipped")
      BY <1>1 DEF InHand, Fields, PutAside
    <2>2. r.sent \in SentMap /\ "skipped" \in EntryStatus
      BY <1>1 DEF InHand, EntryStatus
    <2> HIDE DEF n, r
    <2> QED
      BY <2>1, <2>2, SkippedMap
  <1>3. /\ DOMAIN n = Fields /\ n.pc = "send" /\ n.c = r.c /\ n.todo = r.todo /\ n.docs = r.docs
        /\ n.queue = r.queue \ {l} /\ n.budget = r.budget /\ n.used = r.used
        /\ n.tries = r.tries /\ n.fails = r.fails
        /\ r.used \in Nat /\ r.tries \in Nat /\ r.fails \in Nat
    BY <1>1 DEF InHand, Fields
  <1>4. /\ faults' \in 0..MaxFaults
        /\ messages' \in [Channels -> [Campaigns -> [Leads -> Nat]]] /\ sentOn' \in [Days -> Nat]
        /\ UNCHANGED <<camp, update, today, bounced, restarts>>
    BY BroadcastAssumption DEF Skip, Types
  <1> HIDE DEF n
  <1> QED
    BY <1>1, <1>2, <1>3, <1>4, LeadTypes

LEMMA RefusedTypes ==
    ASSUME Types, NEW ch \in Channels, NEW l \in Leads, Refused(ch, l)
    PROVE  Types'
  <1> DEFINE r == runner[ch]
             n == [r EXCEPT !.queue = @ \ {l}, !.budget = @ - 1, !.tries = @ + 1,
                            !.fails = @ + 1, !.sent[l][ch].st = "failed",
                            !.sent[l][ch].at = @ \/ ch = "wa"]
  <1>1. Ready(ch, "send") /\ l \in r.queue /\ InHand(ch, r) /\ Move(ch, n) /\ r.pc = "send"
    BY DEF Refused, Types, Ready
  <1>2. n.sent \in SentMap
    <2>1. n.sent = PutAside(r.sent, l, ch, "failed")
      BY <1>1 DEF InHand, Fields, PutAside
    <2>2. r.sent \in SentMap /\ "failed" \in EntryStatus
      BY <1>1 DEF InHand, EntryStatus
    <2> HIDE DEF n, r
    <2> QED
      BY <2>1, <2>2, SkippedMap
  <1>3. /\ DOMAIN n = Fields /\ n.pc = "send" /\ n.c = r.c /\ n.todo = r.todo /\ n.docs = r.docs
        /\ n.queue = r.queue \ {l} /\ n.budget = r.budget - 1 /\ n.used = r.used
        /\ n.tries = r.tries + 1 /\ n.fails = r.fails + 1
        /\ n.used \in Nat /\ n.tries \in Nat /\ n.fails \in Nat
    BY <1>1 DEF InHand, Fields
  <1>4. /\ faults' \in 0..MaxFaults
        /\ messages' \in [Channels -> [Campaigns -> [Leads -> Nat]]] /\ sentOn' \in [Days -> Nat]
        /\ UNCHANGED <<camp, update, today, bounced, restarts>>
    BY BroadcastAssumption DEF Refused, Types
  <1> HIDE DEF n
  <1> QED
    BY <1>1, <1>2, <1>3, <1>4, LeadTypes

LEMMA AcceptedTypes ==
    ASSUME Types, NEW ch \in Channels, NEW l \in Leads, Accepted(ch, l)
    PROVE  Types'
  <1> DEFINE r == runner[ch]
             m == messages[ch][r.c][l] + 1
             n == [r EXCEPT !.queue = @ \ {l}, !.budget = @ - 1, !.used = @ + 1,
                            !.tries = @ + 1, !.sent[l][ch].st = "sent",
                            !.sent[l][ch].day = today, !.sent[l][ch].msg = m]
  <1>1. Ready(ch, "send") /\ l \in r.queue /\ InHand(ch, r) /\ Move(ch, n) /\ r.pc = "send"
    BY DEF Accepted, Types, Ready
  <1>2. m \in Nat /\ today \in 0..MaxDay /\ r.c \in Campaigns
    <2>1. r.c \in Campaigns
      BY <1>1 DEF InHand
    <2> HIDE DEF r
    <2>2. messages[ch][r.c][l] \in Nat
      BY <2>1 DEF Types
    <2> QED
      BY <2>1, <2>2, BroadcastAssumption, SMTT(20) DEF Types, Days
  <1>3. n.sent \in SentMap
    <2>1. n.sent = PutSent(r.sent, l, ch, today, m)
      BY <1>1 DEF InHand, Fields, PutSent
    <2>2. r.sent \in SentMap
      BY <1>1 DEF InHand
    <2> HIDE DEF n, r, m
    <2> QED
      BY <1>2, <2>1, <2>2, AcceptedMap
  <1>4. /\ DOMAIN n = Fields /\ n.pc = "send" /\ n.c = r.c /\ n.todo = r.todo /\ n.docs = r.docs
        /\ n.queue = r.queue \ {l} /\ n.budget = r.budget - 1 /\ n.used = r.used + 1
        /\ n.tries = r.tries + 1 /\ n.fails = r.fails
        /\ n.used \in Nat /\ n.tries \in Nat /\ n.fails \in Nat
    <2>1. DOMAIN r = Fields /\ r.used \in Nat /\ r.tries \in Nat /\ r.fails \in Nat
      BY <1>1 DEF InHand
    <2> HIDE DEF r, m
    <2>2. /\ DOMAIN n = Fields /\ n.pc = r.pc /\ n.c = r.c /\ n.todo = r.todo /\ n.docs = r.docs
          /\ n.queue = r.queue \ {l} /\ n.budget = r.budget - 1 /\ n.used = r.used + 1
          /\ n.tries = r.tries + 1 /\ n.fails = r.fails
      BY <2>1 DEF Fields
    <2> HIDE DEF n
    <2> QED
      BY <1>1, <2>1, <2>2
  <1>5. /\ messages' = [messages EXCEPT ![ch][r.c][l] = m]
        /\ sentOn' = IF ch = "wa" THEN [sentOn EXCEPT ![today] = @ + 1] ELSE sentOn
        /\ UNCHANGED <<camp, update, today, bounced, faults, restarts>>
    BY DEF Accepted
  <1>6. faults' \in 0..MaxFaults /\ sentOn' \in [Days -> Nat]
    BY <1>5 DEF Types
  <1>7. messages' \in [Channels -> [Campaigns -> [Leads -> Nat]]]
    <2> HIDE DEF m, r
    <2> QED
      BY <1>2, <1>5 DEF Types
  <1> HIDE DEF n, m
  <1> QED
    BY <1>1, <1>2, <1>3, <1>4, <1>5, <1>6, <1>7, LeadTypes

LEMMA EndBatchTypes ==
    ASSUME Types, NEW ch \in Channels, EndBatch(ch)
    PROVE  Types'
  <1> DEFINE r == runner[ch]
             n == [r EXCEPT !.pc = "pick", !.c = <<>>, !.sent = <<>>, !.tries = 0, !.fails = 0]
  <1>1. InHand(ch, r) /\ r.pc = "send" /\ Move(ch, n)
    BY DEF EndBatch, Types, Ready
  <1>2. InHand(ch, n) /\ r.c \in Campaigns /\ r.sent \in SentMap
    BY <1>1 DEF InHand, Fields, PCs
  <1>3. StatusAfter(ch, r) \in Status \cup {KeepStatus}
    BY DEF StatusAfter, Status
  <1>4. faults' \in 0..MaxFaults /\ UNCHANGED <<camp, today, messages, sentOn, bounced, restarts>>
    BY DEF EndBatch, Types
  <1> HIDE DEF n
  <1> QED
    BY <1>1, <1>2, <1>3, <1>4, MoveAndStartTypes DEF EndBatch

-----------------------------------------------------------------------------
(* The routes start an update of a well-formed map.                        *)
LEMMA StandsIn ==
    ASSUME NEW e \in Entry, NEW ch \in Channels, NEW st \in EntryStatus
    PROVE  [e EXCEPT ![ch].st = st] \in Entry
BY DEF Entry

LEMMA QueuedEntry ==
    \A e \in Entry, ch \in Channels : Queued(e, ch) \in Entry
BY StandsIn DEF Queued, EntryStatus

LEMMA RouteTypes ==
    ASSUME Types, NEW q \in Slots, NEW c \in Campaigns, NEW status \in Status \cup {KeepStatus},
           NEW sent \in SentMap \cup {Keep}, StartUpdate(q, c, status, sent), RouteUnchanged
    PROVE  Types'
  <1>1. q \in Processes /\ camp' \in [Campaigns -> Doc]
    BY DEF Processes, RouteUnchanged, Types
  <1>2. PICK u : Merging(u) /\ update' = [update EXCEPT ![q] = u]
    BY <1>1, StartTypes
  <1> QED
    BY <1>1, <1>2, UpdateTypes DEF RouteUnchanged

(* The map a route sends back, lead by lead.                               *)
EnqueueMap(s, ch, ls) ==
    [l \in Leads |-> IF l \in {k \in ls : ~Received(s[k], ch)} THEN Queued(s[l], ch) ELSE s[l]]
ResumeMap(s) == [l \in Leads |-> IF s[l].em.st = "failed" THEN Queued(s[l], "em") ELSE s[l]]
LeftQueues(e) ==
    [ch \in Channels |-> IF e[ch].st = "queued" THEN [e[ch] EXCEPT !.st = "none"] ELSE e[ch]]
UnqueueMap(s, keep) == [l \in Leads |-> IF l \in keep THEN s[l] ELSE LeftQueues(s[l])]
MarkMap(s, k, ch) == [s EXCEPT ![k][ch].day = today]
Lost(s, c) == {l \in Leads : s[l].wa.st = "sent" /\ <<c, l, s[l].wa.msg>> \in bounced}
ProgressMap(s, c) ==
    [l \in Leads |-> IF l \in Lost(s, c) THEN [s[l] EXCEPT !.wa.st = "failed"] ELSE s[l]]
FailedMap(s, k) == [s EXCEPT ![k].wa.st = "failed"]

LEMMA RouteMaps ==
    ASSUME NEW s \in SentMap, today \in Days
    PROVE  /\ \A ch \in Channels, ls \in SUBSET Leads : EnqueueMap(s, ch, ls) \in SentMap
           /\ ResumeMap(s) \in SentMap
           /\ \A keep \in SUBSET Leads : UnqueueMap(s, keep) \in SentMap
           /\ \A k \in Leads, ch \in Channels : MarkMap(s, k, ch) \in SentMap
           /\ \A c \in Campaigns : ProgressMap(s, c) \in SentMap
           /\ \A k \in Leads : FailedMap(s, k) \in SentMap
  <1>1. \A l \in Leads : s[l] \in Entry
    BY DEF SentMap
  <1>2. \A ch \in Channels, ls \in SUBSET Leads : EnqueueMap(s, ch, ls) \in SentMap
    BY <1>1, QueuedEntry DEF EnqueueMap, SentMap
  <1>3. ResumeMap(s) \in SentMap
    BY <1>1, QueuedEntry DEF ResumeMap, SentMap, Channels
  <1>4. \A e \in Entry : LeftQueues(e) \in Entry
    BY DEF LeftQueues, Entry, EntryStatus
  <1>5. \A keep \in SUBSET Leads : UnqueueMap(s, keep) \in SentMap
    BY <1>1, <1>4 DEF UnqueueMap, SentMap
  <1>6. \A k \in Leads, ch \in Channels : MarkMap(s, k, ch) \in SentMap
    BY <1>1, BroadcastAssumption, SMTT(20), ZenonT(40) DEF MarkMap, SentMap, Entry, Days
  <1>7. \A e \in Entry : [e EXCEPT !.wa.st = "failed"] \in Entry
    BY DEF Entry, EntryStatus, Channels
  <1>8. \A c \in Campaigns : ProgressMap(s, c) \in SentMap
    BY <1>1, <1>7 DEF ProgressMap, SentMap
  <1>9. \A k \in Leads : FailedMap(s, k) \in SentMap
    BY <1>1, <1>7 DEF FailedMap, SentMap
  <1> QED
    BY <1>2, <1>3, <1>5, <1>6, <1>8, <1>9

(* Every route starts one update, from the map as it is stored.            *)
RouteStart(q, c, status, sent) ==
    /\ c \in Campaigns /\ status \in Status \cup {KeepStatus} /\ sent \in SentMap \cup {Keep}
    /\ MayStart(q) /\ StartUpdate(q, c, status, sent) /\ RouteUnchanged

LEMMA RoutesStart ==
    ASSUME Types, NEW q \in Slots, NEW c \in Campaigns
    PROVE  /\ Pause(q, c) => RouteStart(q, c, "paused", Keep)
           /\ Resume(q, c) => RouteStart(q, c, "sending", ResumeMap(camp[c].sent))
           /\ Progress(q, c) => RouteStart(q, c, KeepStatus, ProgressMap(camp[c].sent, c))
           /\ \A ls \in SUBSET Leads :
                /\ \A ch \in Channels : Enqueue(q, c, ch, ls) =>
                     \/ RouteStart(q, c, "sending", EnqueueMap(camp[c].sent, ch, ls))
                     \/ /\ RouteStart(q, c, KeepStatus, EnqueueMap(camp[c].sent, ch, ls))
                        /\ \A l \in ls : Received(camp[c].sent[l], ch)
                /\ Unqueue(q, c, ls) => RouteStart(q, c, KeepStatus, UnqueueMap(camp[c].sent, ls))
           /\ \A l \in Leads, ch \in Channels : Mark(q, c, l, ch) =>
                \E status \in {"sending", KeepStatus} :
                  RouteStart(q, c, status, MarkMap(camp[c].sent, l, ch))
           /\ \A x \in bounced : x[1] = c /\ DeliveryFailed(q, c, x[2], x[3]) =>
                /\ RouteStart(q, c, KeepStatus, FailedMap(camp[c].sent, x[2])) /\ x[2] \in Leads
                /\ <<c, x[2], camp[c].sent[x[2]].wa.msg>> \in bounced
  <1> DEFINE s == camp[c].sent
  <1>1. s \in SentMap /\ today \in Days
    BY DEF Types, Doc, SentMap
  <1> HIDE DEF s
  <1>2. Keep \in SentMap \cup {Keep} /\ KeepStatus \in Status \cup {KeepStatus}
        /\ "paused" \in Status /\ "sending" \in Status
    BY DEF Status
  <1>3. Pause(q, c) => RouteStart(q, c, "paused", Keep)
    BY <1>2 DEF Pause, Route, RouteStart
  <1>4. Resume(q, c) => RouteStart(q, c, "sending", ResumeMap(s))
    BY <1>1, <1>2, RouteMaps DEF Resume, Route, RouteStart, ResumeMap, s
  <1>5. Progress(q, c) => RouteStart(q, c, KeepStatus, ProgressMap(s, c))
    BY <1>1, <1>2, RouteMaps DEF Progress, Route, RouteStart, ProgressMap, Lost, s
  <1>6. ASSUME NEW ls \in SUBSET Leads, NEW ch \in Channels, Enqueue(q, c, ch, ls)
        PROVE  \/ RouteStart(q, c, "sending", EnqueueMap(s, ch, ls))
               \/ /\ RouteStart(q, c, KeepStatus, EnqueueMap(s, ch, ls))
                  /\ \A l \in ls : Received(s[l], ch)
    <2> DEFINE fresh == {l \in ls : ~Received(s[l], ch)}
    <2>1. StartUpdate(q, c, IF fresh # {} THEN "sending" ELSE KeepStatus, EnqueueMap(s, ch, ls))
      BY <1>6 DEF Enqueue, EnqueueMap, s
    <2>2. EnqueueMap(s, ch, ls) \in SentMap
      BY <1>1, RouteMaps
    <2>3. MayStart(q) /\ RouteUnchanged
      BY <1>6 DEF Enqueue, Route
    <2>4. CASE fresh # {}
      BY <1>2, <2>1, <2>2, <2>3, <2>4 DEF RouteStart
    <2>5. CASE fresh = {}
      BY <1>2, <2>1, <2>2, <2>3, <2>5 DEF RouteStart
    <2> QED
      BY <2>4, <2>5
  <1>7. ASSUME NEW ls \in SUBSET Leads, Unqueue(q, c, ls)
        PROVE  RouteStart(q, c, KeepStatus, UnqueueMap(s, ls))
    BY <1>1, <1>2, <1>7, RouteMaps DEF Unqueue, Route, RouteStart, UnqueueMap, LeftQueues, s
  <1>8. ASSUME NEW l \in Leads, NEW ch \in Channels, Mark(q, c, l, ch)
        PROVE  \E status \in {"sending", KeepStatus} : RouteStart(q, c, status, MarkMap(s, l, ch))
    <2>1. StartUpdate(q, c, IF camp[c].status = "draft" THEN "sending" ELSE KeepStatus, MarkMap(s, l, ch))
          /\ MayStart(q) /\ RouteUnchanged
      BY <1>8 DEF Mark, Route, MarkMap, s
    <2>2. MarkMap(s, l, ch) \in SentMap
      BY <1>1, RouteMaps
    <2> QED
      BY <1>2, <2>1, <2>2 DEF RouteStart
  <1>9. ASSUME NEW x \in bounced, x[1] = c, DeliveryFailed(q, c, x[2], x[3])
        PROVE  /\ RouteStart(q, c, KeepStatus, FailedMap(s, x[2])) /\ x[2] \in Leads
               /\ <<c, x[2], s[x[2]].wa.msg>> \in bounced
    <2>1. x[2] \in Leads
      BY DEF Types
    <2>2. FailedMap(s, x[2]) \in SentMap
      BY <1>1, <2>1, RouteMaps
    <2> QED
      BY <1>2, <1>9, <2>1, <2>2 DEF DeliveryFailed, Route, RouteStart, FailedMap, s
  <1> QED
    BY <1>3, <1>4, <1>5, <1>6, <1>7, <1>8, <1>9 DEF s

LEMMA CallTypes ==
    ASSUME Types, NEW q \in Slots, Call(q)
    PROVE  Types'
  <1>1. ASSUME NEW c, NEW status, NEW sent, RouteStart(q, c, status, sent)
        PROVE  Types'
    BY <1>1, RouteTypes DEF RouteStart
  <1>2. CASE UpdateGet(q) \/ UpdatePut(q)
    BY <1>2, UpdateGetTypes, UpdatePutTypes DEF Processes
  <1>3. ASSUME NEW c \in Campaigns, Pause(q, c) \/ Resume(q, c) \/ Progress(q, c)
        PROVE  Types'
    BY <1>1, <1>3, RoutesStart
  <1>4. ASSUME NEW c \in Campaigns, NEW ls \in SUBSET Leads, NEW ch \in Channels,
               Enqueue(q, c, ch, ls) \/ Unqueue(q, c, ls)
        PROVE  Types'
    BY <1>1, <1>4, RoutesStart, SMTT(20), ZenonT(40)
  <1>5. ASSUME NEW c \in Campaigns, NEW l \in Leads, NEW ch \in Channels, Mark(q, c, l, ch)
        PROVE  Types'
    BY <1>1, <1>5, RoutesStart
  <1>6. ASSUME NEW c \in Campaigns, NEW x \in bounced, x[1] = c, DeliveryFailed(q, c, x[2], x[3])
        PROVE  Types'
    BY <1>1, <1>6, RoutesStart
  <1>7. "wa" \in Channels
    BY DEF Channels
  <1> QED
    BY <1>2, <1>3, <1>4, <1>5, <1>6, <1>7 DEF Call

LEMMA InitTypes == Init => Types
  <1> SUFFICES ASSUME Init PROVE Types
    OBVIOUS
  <1>1. \A c \in Campaigns, l \in Leads :
          [ch \in Channels |-> IF Uses(c, ch) THEN Queued(Blank, ch)[ch] ELSE Blank[ch]] \in Entry
    <2>1. 0 \in 0..MaxDay
      BY BroadcastAssumption
    <2>2. Blank \in Entry
      BY <2>1 DEF Entry, Blank, EntryStatus
    <2> QED
      BY <2>2, QueuedEntry DEF Entry
  <1>2. camp \in [Campaigns -> Doc]
    BY <1>1 DEF Init, Doc, Status
  <1>3. DOMAIN runner = Channels /\ \A ch \in Channels : InHand(ch, runner[ch])
    BY IdleInHand DEF Init
  <1>4. today \in Days /\ faults \in 0..MaxFaults /\ restarts \in 0..MaxRestarts
    BY BroadcastAssumption DEF Init, Days
  <1>5. \A p \in Processes : Merging(update[p])
    BY DEF Init, Merging
  <1>6. messages \in [Channels -> [Campaigns -> [Leads -> Nat]]] /\ sentOn \in [Days -> Nat]
    BY DEF Init
  <1> QED
    BY <1>2, <1>3, <1>4, <1>5, <1>6 DEF Init, Types

LEMMA TypesStep ==
    ASSUME Types, [Next]_vars
    PROVE  Types'
  <1>1. ASSUME NEW ch \in Channels, Cycle(ch)
        PROVE  Types'
    <2>1. ASSUME NEW l \in Leads, Skip(ch, l) \/ Accepted(ch, l) \/ Refused(ch, l)
          PROVE  Types'
      BY <2>1, SkipTypes, AcceptedTypes, RefusedTypes
    <2>2. CASE ch = "wa" /\ (CloseEmpty \/ PauseAll \/ Health)
      BY <2>2, SetAllTypes, HealthTypes DEF CloseEmpty, PauseAll, Status, Channels
    <2>3. CASE UpdateGet(ch) \/ UpdatePut(ch)
      BY <2>3, UpdateGetTypes, UpdatePutTypes DEF Processes
    <2> QED
      BY <1>1, <2>1, <2>2, <2>3, StartCycleTypes, PickTypes, EndBatchTypes DEF Cycle
  <1>2. ASSUME NEW c \in Campaigns, NEW l \in Leads, Bounce(c, l)
        PROVE  Types'
    <2>1. messages.wa[c][l] \in Nat
      BY DEF Types, Channels
    <2> QED
      BY <1>2, <2>1 DEF Bounce, Types, InHand, Merging
  <1>3. CASE NextDay
    <2>1. MaxDay \in Nat
      BY BroadcastAssumption
    <2>2. today' \in Days
      BY <1>3, <2>1 DEF NextDay, Types, Days
    <2>3. UNCHANGED <<camp, update, runner, messages, sentOn, bounced, faults, restarts>>
      BY <1>3 DEF NextDay
    <2> QED
      BY <2>2, <2>3 DEF Types
  <1>4. CASE Restart
    BY <1>4, IdleInHand, BroadcastAssumption DEF Restart, Types, Merging
  <1>5. CASE UNCHANGED vars
    BY <1>5 DEF vars, Types
  <1> QED
    BY <1>1, <1>2, <1>3, <1>4, <1>5, NoPhotoTypes, CallTypes DEF Next

(* Every variable keeps to its values.                                     *)
THEOREM TypeCorrect == Spec => []TypeOK
  <1>1. Spec => []Types
    BY InitTypes, TypesStep, PTL DEF Spec
  <1> QED
    BY <1>1, TypesOK, PTL

-----------------------------------------------------------------------------
(* Messages and entries.  Of the first k WhatsApp messages of a lead, the  *)
(* ones that were not reported undelivered.                                *)
ArrivedOf(c, l, k) == {n \in 1..k : <<c, l, n>> \notin bounced}
Arrived(c, l, k) == Cardinality(ArrivedOf(c, l, k))

(* An entry counts what was sent, up to k messages more.                   *)
EntryOK(e, c, l, k) ==
    /\ IF e.wa.st = "sent"
       THEN /\ e.wa.msg = messages.wa[c][l] /\ messages.wa[c][l] >= 1
            /\ Arrived(c, l, messages.wa[c][l] - 1) <= k
       ELSE Arrived(c, l, messages.wa[c][l]) <= k
    /\ messages.em[c][l] <= IF e.em.st = "sent" THEN k + 1 ELSE k

MapOK(s, c, k) == \A l \in Leads : EntryOK(s[l], c, l, k)

NothingQueued(s) == \A l \in Leads, ch \in Channels : s[l][ch].st # "queued"

(* What one entry may become while no message is sent.                     *)
Follows(e, f, c, l) ==
    /\ IF f.wa.st = "sent" THEN e.wa.st = "sent" /\ f.wa.msg = e.wa.msg
                           ELSE e.wa.st = "sent" => <<c, l, e.wa.msg>> \in bounced
    /\ e.em.st = "sent" => f.em.st = "sent"
    /\ f.wa.day = e.wa.day \/ f.wa.day = today

MapFollows(s, t, c) == \A l \in Leads : Follows(s[l], t[l], c, l)

LEMMA ArrivedBasics ==
    \A c, l : \A k \in Int : IsFiniteSet(ArrivedOf(c, l, k)) /\ Arrived(c, l, k) \in Nat
  <1> SUFFICES ASSUME NEW c, NEW l, NEW k \in Int
               PROVE  IsFiniteSet(ArrivedOf(c, l, k)) /\ Arrived(c, l, k) \in Nat
    OBVIOUS
  <1>1. IsFiniteSet(1..k) /\ ArrivedOf(c, l, k) \subseteq 1..k
    BY FS_Interval DEF ArrivedOf
  <1>2. IsFiniteSet(ArrivedOf(c, l, k))
    BY <1>1, FS_Subset
  <1> QED
    BY <1>2, FS_CardinalityType DEF Arrived

LEMMA ArrivedNext ==
    ASSUME NEW c, NEW l, NEW k \in Int, NEW j \in Nat, j = k + 1
    PROVE  /\ Arrived(c, l, k) <= Arrived(c, l, j)
           /\ Arrived(c, l, j) <= Arrived(c, l, k) + 1
           /\ j >= 1 /\ <<c, l, j>> \in bounced => Arrived(c, l, j) = Arrived(c, l, k)
  <1> DEFINE S == ArrivedOf(c, l, k)
             T == ArrivedOf(c, l, j)
  <1>1. IsFiniteSet(S) /\ Cardinality(S) \in Nat /\ Cardinality(T) \in Nat
    BY ArrivedBasics DEF Arrived
  <1>2. CASE <<c, l, j>> \in bounced \/ j = 0
    <2>1. S = T
      BY <1>2 DEF ArrivedOf
    <2> HIDE DEF S, T
    <2> QED
      BY <1>1, <2>1 DEF Arrived, S, T
  <1>3. CASE <<c, l, j>> \notin bounced /\ j # 0
    <2>1. T = S \cup {j} /\ j \notin S
      BY <1>3 DEF ArrivedOf
    <2> HIDE DEF S, T
    <2>2. Cardinality(T) = Cardinality(S) + 1
      BY <1>1, <2>1, FS_AddElement
    <2> QED
      BY <1>1, <1>3, <2>2 DEF Arrived, S, T
  <1> QED
    BY <1>2, <1>3

LEMMA ArrivedFewer ==
    ASSUME NEW c, NEW l, NEW k \in Int, bounced \subseteq bounced'
    PROVE  Arrived(c, l, k)' \in Nat /\ Arrived(c, l, k)' <= Arrived(c, l, k)
  <1>1. IsFiniteSet(ArrivedOf(c, l, k)) /\ ArrivedOf(c, l, k)' \subseteq ArrivedOf(c, l, k)
    BY ArrivedBasics DEF ArrivedOf
  <1>2. IsFiniteSet(ArrivedOf(c, l, k)')
        /\ Cardinality(ArrivedOf(c, l, k)') <= Cardinality(ArrivedOf(c, l, k))
    BY <1>1, FS_Subset
  <1>3. Cardinality(ArrivedOf(c, l, k)') \in Nat
    BY <1>2, FS_CardinalityType
  <1> QED
    BY <1>2, <1>3 DEF Arrived

LEMMA MessagesNat ==
    ASSUME Types, NEW c \in Campaigns, NEW l \in Leads
    PROVE  /\ messages.wa[c][l] \in Nat /\ messages.em[c][l] \in Nat
           /\ Arrived(c, l, messages.wa[c][l]) \in Nat /\ Arrived(c, l, messages.wa[c][l] - 1) \in Nat
  <1>1. messages.wa[c][l] \in Nat /\ messages.em[c][l] \in Nat
    BY DEF Types, Channels
  <1> DEFINE m == messages.wa[c][l]
  <1>2. m \in Int /\ m - 1 \in Int
    BY <1>1
  <1> HIDE DEF m
  <1>3. Arrived(c, l, m) \in Nat /\ Arrived(c, l, m - 1) \in Nat
    BY <1>2, ArrivedBasics
  <1> QED
    BY <1>1, <1>3 DEF m

LEMMA EntryLooser ==
    ASSUME Types, NEW c \in Campaigns, NEW l \in Leads, NEW k \in Nat, NEW e, EntryOK(e, c, l, k)
    PROVE  EntryOK(e, c, l, k + 1)
  <1> QED
    BY MessagesNat DEF EntryOK

LEMMA EntryFollows ==
    ASSUME Types, NEW c \in Campaigns, NEW l \in Leads, NEW k \in Nat,
           NEW e, NEW f, EntryOK(e, c, l, k), Follows(e, f, c, l)
    PROVE  EntryOK(f, c, l, k)
  <1> DEFINE m == messages.wa[c][l]
  <1>1. m \in Nat /\ messages.em[c][l] \in Nat
    BY MessagesNat
  <1>2. Arrived(c, l, m) \in Nat /\ Arrived(c, l, m - 1) \in Nat
    BY MessagesNat
  <1> HIDE DEF m
  <1>3. m >= 1 /\ <<c, l, m>> \in bounced => Arrived(c, l, m) = Arrived(c, l, m - 1)
    <2>1. m - 1 \in Int /\ m = (m - 1) + 1
      BY <1>1
    <2> QED
      BY <1>1, <2>1, ArrivedNext
  <1>4. m = messages.wa[c][l]
    BY DEF m
  <1>5. IF f.wa.st = "sent" THEN f.wa.msg = m /\ m >= 1 /\ Arrived(c, l, m - 1) <= k
                            ELSE Arrived(c, l, m) <= k
    BY <1>1, <1>2, <1>3, <1>4 DEF EntryOK, Follows
  <1>6. messages.em[c][l] <= IF f.em.st = "sent" THEN k + 1 ELSE k
    BY <1>1 DEF EntryOK, Follows
  <1> QED
    BY <1>4, <1>5, <1>6 DEF EntryOK

LEMMA EntryCounts ==
    ASSUME Types, NEW c \in Campaigns, NEW l \in Leads, NEW k \in Nat, NEW e, EntryOK(e, c, l, k)
    PROVE  messages.em[c][l] <= 1 + k /\ Arrived(c, l, messages.wa[c][l] - 1) <= k
  <1> DEFINE m == messages.wa[c][l]
  <1>1. m \in Nat /\ messages.em[c][l] \in Nat
    BY MessagesNat
  <1>2. Arrived(c, l, m) \in Nat /\ Arrived(c, l, m - 1) \in Nat
    BY MessagesNat
  <1> HIDE DEF m
  <1>3. Arrived(c, l, m - 1) <= Arrived(c, l, m)
    <2>1. m - 1 \in Int /\ m = (m - 1) + 1
      BY <1>1
    <2> QED
      BY <1>1, <2>1, ArrivedNext
  <1> QED
    BY <1>1, <1>2, <1>3 DEF EntryOK, m

LEMMA MapLooser ==
    ASSUME Types, NEW c \in Campaigns, NEW k \in Nat, NEW s, MapOK(s, c, k)
    PROVE  MapOK(s, c, k + 1)
BY EntryLooser DEF MapOK

LEMMA MapStays ==
    ASSUME UNCHANGED <<messages, bounced>>
    PROVE  \A s, c, k : MapOK(s, c, k) => MapOK(s, c, k)'
  <1>1. \A c, l, k : Arrived(c, l, k)' = Arrived(c, l, k)
    BY DEF Arrived, ArrivedOf
  <1>2. \A e, c, l, k : EntryOK(e, c, l, k) => EntryOK(e, c, l, k)'
    BY <1>1 DEF EntryOK
  <1> QED
    BY <1>2 DEF MapOK

LEMMA MapFollowed ==
    ASSUME Types, NEW c \in Campaigns, NEW k \in Nat,
           NEW s, NEW t, MapOK(s, c, k), MapFollows(s, t, c)
    PROVE  MapOK(t, c, k)
BY EntryFollows DEF MapOK, MapFollows

(* The maps the routes send follow the stored one; none but Enqueue and    *)
(* Resume, which set the status to sending, queues anything.               *)
LEMMA RoutesFollow ==
    ASSUME NEW s \in SentMap, NEW c \in Campaigns
    PROVE  /\ \A ch \in Channels, ls \in SUBSET Leads :
                /\ MapFollows(s, EnqueueMap(s, ch, ls), c)
                /\ (\A l \in ls : Received(s[l], ch)) /\ NothingQueued(s)
                     => NothingQueued(EnqueueMap(s, ch, ls))
           /\ MapFollows(s, ResumeMap(s), c)
           /\ \A keep \in SUBSET Leads :
                /\ MapFollows(s, UnqueueMap(s, keep), c)
                /\ NothingQueued(s) => NothingQueued(UnqueueMap(s, keep))
           /\ \A k \in Leads, ch \in Channels :
                /\ MapFollows(s, MarkMap(s, k, ch), c)
                /\ NothingQueued(s) => NothingQueued(MarkMap(s, k, ch))
           /\ MapFollows(s, ProgressMap(s, c), c)
           /\ NothingQueued(s) => NothingQueued(ProgressMap(s, c))
           /\ \A k \in Leads :
                <<c, k, s[k].wa.msg>> \in bounced =>
                  /\ MapFollows(s, FailedMap(s, k), c)
                  /\ NothingQueued(s) => NothingQueued(FailedMap(s, k))
  <1>1. \A l \in Leads : s[l] \in Entry
    BY DEF SentMap
  <1>2. \A e \in Entry : \A l : Follows(e, e, c, l)
    BY DEF Follows
  <1>3. ASSUME NEW e \in Entry, NEW ch \in Channels, NEW l,
               ~Received(e, ch) \/ (ch = "em" /\ e.em.st # "sent")
        PROVE  Follows(e, Queued(e, ch), c, l)
    BY <1>3 DEF Entry, Received, Queued, Follows, Channels
  <1>4. ASSUME NEW ch \in Channels, NEW ls \in SUBSET Leads
        PROVE  /\ MapFollows(s, EnqueueMap(s, ch, ls), c)
               /\ (\A l \in ls : Received(s[l], ch)) /\ NothingQueued(s)
                    => NothingQueued(EnqueueMap(s, ch, ls))
    <2>1. MapFollows(s, EnqueueMap(s, ch, ls), c)
      BY <1>1, <1>2, <1>3 DEF EnqueueMap, MapFollows
    <2>2. ASSUME \A l \in ls : Received(s[l], ch), NothingQueued(s)
          PROVE  NothingQueued(EnqueueMap(s, ch, ls))
      BY <2>2 DEF EnqueueMap, NothingQueued
    <2> QED
      BY <2>1, <2>2
  <1>5. MapFollows(s, ResumeMap(s), c)
    BY <1>1, <1>2, <1>3 DEF ResumeMap, MapFollows, Channels
  <1>6. ASSUME NEW keep \in SUBSET Leads
        PROVE  /\ MapFollows(s, UnqueueMap(s, keep), c)
               /\ NothingQueued(s) => NothingQueued(UnqueueMap(s, keep))
    <2>1. \A e \in Entry : \A l : Follows(e, LeftQueues(e), c, l)
      BY DEF Entry, Follows, LeftQueues, Channels
    <2>2. \A e \in Entry, ch \in Channels : e[ch].st # "queued" => LeftQueues(e)[ch].st # "queued"
      BY DEF LeftQueues
    <2> QED
      BY <1>1, <1>2, <2>1, <2>2 DEF UnqueueMap, MapFollows, NothingQueued
  <1>7. ASSUME NEW k \in Leads, NEW ch \in Channels
        PROVE  /\ MapFollows(s, MarkMap(s, k, ch), c)
               /\ NothingQueued(s) => NothingQueued(MarkMap(s, k, ch))
    <2> DEFINE f == [s[k] EXCEPT ![ch].day = today]
    <2>1. MarkMap(s, k, ch) = [s EXCEPT ![k] = f]
      BY DEF MarkMap
    <2>2. \A o \in Channels : f[o].st = s[k][o].st /\ f[o].msg = s[k][o].msg
                              /\ f[o].day \in {s[k][o].day, today}
      BY <1>1 DEF Entry
    <2> HIDE DEF f
    <2>3. \A l : Follows(s[k], f, c, l)
      BY <2>2 DEF Follows, Channels
    <2> QED
      BY <1>1, <1>2, <2>1, <2>2, <2>3 DEF MapFollows, NothingQueued, SentMap
  <1>8. ASSUME NEW e \in Entry, NEW l, <<c, l, e.wa.msg>> \in bounced
        PROVE  /\ Follows(e, [e EXCEPT !.wa.st = "failed"], c, l)
               /\ \A ch \in Channels : e[ch].st # "queued" =>
                    [e EXCEPT !.wa.st = "failed"][ch].st # "queued"
    BY <1>8 DEF Entry, Follows, Channels
  <1>9. MapFollows(s, ProgressMap(s, c), c) /\ (NothingQueued(s) => NothingQueued(ProgressMap(s, c)))
    <2>1. \A l \in Lost(s, c) : l \in Leads /\ <<c, l, s[l].wa.msg>> \in bounced
      BY DEF Lost
    <2> QED
      BY <1>1, <1>2, <1>8, <2>1 DEF ProgressMap, MapFollows, NothingQueued
  <1>10. ASSUME NEW k \in Leads, <<c, k, s[k].wa.msg>> \in bounced
         PROVE  /\ MapFollows(s, FailedMap(s, k), c)
                /\ NothingQueued(s) => NothingQueued(FailedMap(s, k))
    <2>1. FailedMap(s, k) = [s EXCEPT ![k] = [s[k] EXCEPT !.wa.st = "failed"]]
      BY DEF FailedMap
    <2> QED
      BY <1>1, <1>2, <1>8, <1>10, <2>1 DEF MapFollows, NothingQueued, SentMap
  <1> QED
    BY <1>4, <1>5, <1>6, <1>7, <1>9, <1>10

(* What any route does to one campaign.                                    *)
RouteOK(q, c, status, sent) ==
    /\ RouteStart(q, c, status, sent)
    /\ sent = Keep \/ (sent \in SentMap /\ MapFollows(camp[c].sent, sent, c))
    /\ \/ status \in {"sending", "paused"}
       \/ /\ status = KeepStatus /\ sent \in SentMap
          /\ NothingQueued(camp[c].sent) => NothingQueued(sent)

LEMMA RoutesOK ==
    ASSUME Types, NEW q \in Slots, Call(q)
    PROVE  \/ UpdateGet(q) \/ UpdatePut(q)
           \/ \E c, status, sent : RouteOK(q, c, status, sent)
  <1>1. \A c \in Campaigns : camp[c].sent \in SentMap
    BY DEF Types, Doc, SentMap
  <1>2. ASSUME NEW c \in Campaigns, Pause(q, c) \/ Resume(q, c) \/ Progress(q, c)
        PROVE  \E status, sent : RouteOK(q, c, status, sent)
    <2>1. CASE Pause(q, c)
      <3>1. RouteOK(q, c, "paused", Keep)
        BY <2>1, RoutesStart DEF RouteOK
      <3> QED
        BY <3>1
    <2>2. CASE Resume(q, c)
      <3>1. RouteOK(q, c, "sending", ResumeMap(camp[c].sent))
        BY <1>1, <2>2, RoutesStart, RoutesFollow, RouteMaps DEF RouteOK, Types
      <3> QED
        BY <3>1
    <2>3. CASE Progress(q, c)
      <3>1. RouteOK(q, c, KeepStatus, ProgressMap(camp[c].sent, c))
        BY <1>1, <2>3, RoutesStart, RoutesFollow, RouteMaps DEF RouteOK, Types
      <3> QED
        BY <3>1
    <2> QED
      BY <1>2, <2>1, <2>2, <2>3
  <1>3. ASSUME NEW c \in Campaigns, NEW ls \in SUBSET Leads, NEW ch \in Channels,
               Enqueue(q, c, ch, ls) \/ Unqueue(q, c, ls)
        PROVE  \E status, sent : RouteOK(q, c, status, sent)
    <2>1. CASE Enqueue(q, c, ch, ls)
      <3>1. \/ RouteStart(q, c, "sending", EnqueueMap(camp[c].sent, ch, ls))
            \/ /\ RouteStart(q, c, KeepStatus, EnqueueMap(camp[c].sent, ch, ls))
               /\ \A l \in ls : Received(camp[c].sent[l], ch)
        BY <2>1, RoutesStart
      <3>2. \E status \in {"sending", KeepStatus} :
              RouteOK(q, c, status, EnqueueMap(camp[c].sent, ch, ls))
        BY <1>1, <3>1, RoutesFollow, RouteMaps DEF RouteOK, Types
      <3> QED
        BY <3>2
    <2>2. CASE Unqueue(q, c, ls)
      <3>1. RouteOK(q, c, KeepStatus, UnqueueMap(camp[c].sent, ls))
        BY <1>1, <2>2, RoutesStart, RoutesFollow, RouteMaps DEF RouteOK, Types
      <3> QED
        BY <3>1
    <2> QED
      BY <1>3, <2>1, <2>2
  <1>4. ASSUME NEW c \in Campaigns, NEW l \in Leads, NEW ch \in Channels, Mark(q, c, l, ch)
        PROVE  \E status, sent : RouteOK(q, c, status, sent)
    <2>1. PICK status \in {"sending", KeepStatus} :
            RouteStart(q, c, status, MarkMap(camp[c].sent, l, ch))
      BY <1>4, RoutesStart
    <2>2. RouteOK(q, c, status, MarkMap(camp[c].sent, l, ch))
      BY <1>1, <2>1, RoutesFollow, RouteMaps DEF RouteOK, Types
    <2> QED
      BY <2>2
  <1>5. ASSUME NEW c \in Campaigns, NEW x \in bounced, x[1] = c, DeliveryFailed(q, c, x[2], x[3])
        PROVE  \E status, sent : RouteOK(q, c, status, sent)
    <2>1. /\ RouteStart(q, c, KeepStatus, FailedMap(camp[c].sent, x[2])) /\ x[2] \in Leads
          /\ <<c, x[2], camp[c].sent[x[2]].wa.msg>> \in bounced
      BY <1>5, RoutesStart
    <2>2. RouteOK(q, c, KeepStatus, FailedMap(camp[c].sent, x[2]))
      BY <1>1, <2>1, RoutesFollow, RouteMaps DEF RouteOK, Types
    <2> QED
      BY <2>2
  <1>6. "wa" \in Channels
    BY DEF Channels
  <1> QED
    BY <1>2, <1>3, <1>4, <1>5, <1>6 DEF Call

-----------------------------------------------------------------------------
(* With Serial, at most one process is in the middle of something, and     *)
(* what it holds is no older than the campaign it will write.              *)
Alone == \A p, o \in Processes : p = o \/ AtRest(p) \/ AtRest(o)

(* The campaign as an update under way leaves it.                          *)
MergedStatus(u) == IF u.status \in Status THEN u.status ELSE camp[u.c].status
MergedSent(u) == IF u.sent = Keep THEN camp[u.c].sent ELSE u.sent

UpdateOK(p) ==
    update[p].phase # "none" =>
      /\ update[p].sent # Keep => MapOK(update[p].sent, update[p].c, restarts)
      /\ MergedStatus(update[p]) = "done" => NothingQueued(MergedSent(update[p]))

RunnerOK(ch) ==
    LET r == runner[ch] IN
    /\ r.pc \in {"idle", "health", "send"} => update[ch].phase = "none"
    /\ update[ch].phase # "none" => update[ch].c \notin r.todo
    /\ r.pc \in {"health", "pick", "send"} =>
         \A c \in r.todo : r.docs[c] = camp[c] /\ camp[c].status = "sending"
    /\ r.pc = "close" => \A c \in r.todo : NothingQueued(camp[c].sent)
    /\ r.pc = "send" =>
         /\ r.c \notin r.todo /\ camp[r.c].status = "sending"
         /\ MapOK(r.sent, r.c, restarts)
         /\ \A l \in r.queue : r.sent[l][ch].st = "queued" /\ camp[r.c].sent[l][ch].st = "queued"

(* The process has a newer map of the campaign than the stored one.        *)
Holds(p, c) ==
    \/ p \in Channels /\ runner[p].pc = "send" /\ runner[p].c = c
    \/ update[p].phase # "none" /\ update[p].sent # Keep /\ update[p].c = c

CampOK(c) ==
    /\ MapOK(camp[c].sent, c, restarts + 1)
    /\ camp[c].status = "done" => NothingQueued(camp[c].sent)

Inv ==
    /\ Types /\ Alone
    /\ \A p \in Processes : UpdateOK(p)
    /\ \A ch \in Channels : RunnerOK(ch)
    /\ \A c \in Campaigns :
         CampOK(c) /\ (MapOK(camp[c].sent, c, restarts) \/ \E p \in Processes : Holds(p, c))

LEMMA RestsOK == \A p \in Processes : AtRest(p) =>
    /\ UpdateOK(p)
    /\ p \in Channels => RunnerOK(p)
    /\ \A c : ~Holds(p, c)
BY DEF AtRest, UpdateOK, RunnerOK, Holds

LEMMA Others ==
    ASSUME Serial, Inv, NEW p \in Processes, ~AtRest(p) \/ MayStart(p)
    PROVE  \A o \in Processes \ {p} : AtRest(o)
BY DEF Inv, Alone, MayStart

(* With the others at rest, what p does not hold is as it is stored.       *)
LEMMA Unheld ==
    ASSUME Inv, NEW p \in Processes, \A o \in Processes \ {p} : AtRest(o),
           NEW c \in Campaigns, ~Holds(p, c)
    PROVE  MapOK(camp[c].sent, c, restarts)
BY RestsOK DEF Inv

(* A step of p while the others are at rest.                               *)
LEMMA Stepped ==
    ASSUME Inv, Types', NEW p \in Processes,
           \A o \in Processes \ {p} : AtRest(o) /\ update'[o] = update[o],
           \A ch \in Channels \ {p} : runner'[ch] = runner[ch],
           UpdateOK(p)', p \in Channels => RunnerOK(p)',
           \A c \in Campaigns :
             CampOK(c)' /\ (Holds(p, c) \/ MapOK(camp[c].sent, c, restarts))'
    PROVE  Inv'
  <1>1. \A o \in Processes \ {p} : AtRest(o)'
    BY DEF AtRest
  <1>2. \A o \in Processes \ {p} : UpdateOK(o)' /\ (o \in Channels => RunnerOK(o))'
    BY <1>1 DEF AtRest, UpdateOK, RunnerOK
  <1>3. Alone'
    BY <1>1 DEF Alone
  <1>4. Channels \subseteq Processes
    BY DEF Processes
  <1> QED
    BY <1>2, <1>3, <1>4 DEF Inv

(* A step of p that writes no campaign and no message.                     *)
LEMMA Prepared ==
    ASSUME Inv, Types', NEW p \in Processes, \A o \in Processes \ {p} : AtRest(o),
           \A o \in Processes \ {p} : update'[o] = update[o],
           \A ch \in Channels \ {p} : runner'[ch] = runner[ch],
           UNCHANGED <<camp, messages, bounced, restarts>>,
           UpdateOK(p)', p \in Channels => RunnerOK(p)',
           \A c \in Campaigns : Holds(p, c) => Holds(p, c)' \/ MapOK(camp[c].sent, c, restarts)
    PROVE  Inv'
  <1>1. \A c, k : MapOK(camp[c].sent, c, k) => MapOK(camp[c].sent, c, k)'
    BY MapStays
  <1>2. restarts \in Nat /\ restarts + 1 \in Nat
    BY DEF Inv, Types
  <1>3. \A c \in Campaigns : CampOK(c)'
    BY <1>1, <1>2 DEF Inv, CampOK
  <1>4. \A c \in Campaigns : (Holds(p, c) \/ MapOK(camp[c].sent, c, restarts))'
    BY <1>1, <1>2, Unheld
  <1> QED
    BY <1>3, <1>4, Stepped

(* The map of a campaign without leads says nothing.                       *)
LEMMA NoLeads ==
    ASSUME Keep \in SentMap
    PROVE  \A s, c, k : MapOK(s, c, k) /\ NothingQueued(s)
  <1>1. Leads = {}
    BY DEF Keep, SentMap
  <1> QED
    BY <1>1 DEF MapOK, NothingQueued

LEMMA SerialGet ==
    ASSUME Serial, Inv, NEW p \in Processes, UpdateGet(p)
    PROVE  Inv'
  <1> DEFINE u == update[p]
             v == update'[p]
  <1>1. Types /\ Types' /\ u \in UpdateRecord /\ u.phase = "get"
    <2>1. Types /\ Merging(u) /\ u.phase = "get"
      BY DEF Inv, Types, UpdateGet
    <2> QED
      BY <2>1, UpdateGetTypes DEF Merging, NoUpdate
  <1>2. /\ v.phase = "put" /\ v.c = u.c /\ v.c \in Campaigns
        /\ v.status = MergedStatus(u) /\ v.sent = MergedSent(u)
    BY <1>1 DEF UpdateGet, UpdateRecord, MergedStatus, MergedSent, Types
  <1>3. /\ UNCHANGED <<camp, runner, messages, bounced, restarts>>
        /\ \A o \in Processes \ {p} : update'[o] = update[o]
    BY <1>1 DEF UpdateGet, Types
  <1>4. \A o \in Processes \ {p} : AtRest(o)
    BY <1>1, Others DEF AtRest
  <1>5. v.status \in Status /\ v.sent \in SentMap
    BY <1>1, <1>2 DEF MergedStatus, MergedSent, UpdateRecord, Types, Doc, SentMap
  <1>6. MapOK(v.sent, u.c, restarts)
    <2>1. CASE u.sent # Keep
      BY <1>1, <1>2, <2>1 DEF Inv, UpdateOK, MergedSent
    <2>2. CASE u.sent = Keep
      <3>1. ~Holds(p, u.c)
        BY <1>1, <2>2 DEF Holds, Inv, RunnerOK
      <3> QED
        BY <1>2, <1>4, <2>2, <3>1, Unheld DEF MergedSent
    <2> QED
      BY <2>1, <2>2
  <1>7. v.status = "done" => NothingQueued(v.sent)
    BY <1>1, <1>2 DEF Inv, UpdateOK
  <1>8. UpdateOK(p)'
    <2>1. MapOK(update[p].sent, update[p].c, restarts)'
      BY <1>2, <1>3, <1>6, MapStays
    <2>2. (MergedStatus(update[p]) = "done" => NothingQueued(MergedSent(update[p])))'
      <3>1. CASE v.sent = Keep
        BY <1>5, <3>1, NoLeads
      <3>2. CASE v.sent # Keep
        BY <1>5, <1>7, <3>2 DEF MergedStatus, MergedSent
      <3> QED
        BY <3>1, <3>2
    <2> QED
      BY <2>1, <2>2 DEF UpdateOK
  <1>9. p \in Channels => RunnerOK(p)'
    BY <1>1, <1>2, <1>3 DEF Inv, RunnerOK
  <1>10. ASSUME NEW c \in Campaigns, Holds(p, c)
         PROVE  Holds(p, c)' \/ MapOK(camp[c].sent, c, restarts)
    <2>1. u.sent # Keep /\ u.c = c
      BY <1>1, <1>10 DEF Holds, Inv, RunnerOK
    <2> QED
      BY <1>2, <2>1 DEF Holds, MergedSent
  <1> QED
    BY <1>1, <1>3, <1>4, <1>8, <1>9, <1>10, Prepared

LEMMA SerialPut ==
    ASSUME Serial, Inv, NEW p \in Processes, UpdatePut(p)
    PROVE  Inv'
  <1> DEFINE u == update[p]
  <1>1. Types /\ Types' /\ u \in UpdateRecord /\ u.phase = "put"
        /\ u.status \in Status /\ u.sent \in SentMap
    <2>1. Types /\ Merging(u) /\ u.phase = "put"
      BY DEF Inv, Types, UpdatePut
    <2> QED
      BY <2>1, UpdatePutTypes DEF Merging, NoUpdate
  <1>2. /\ camp' = [camp EXCEPT ![u.c] = [status |-> u.status, sent |-> u.sent]]
        /\ update'[p] = NoUpdate /\ u.c \in Campaigns
        /\ UNCHANGED <<runner, messages, bounced, restarts>>
        /\ \A o \in Processes \ {p} : update'[o] = update[o]
    BY <1>1 DEF UpdatePut, UpdateRecord, Types
  <1>3. \A o \in Processes \ {p} : AtRest(o)
    BY <1>1, Others DEF AtRest
  <1>4. /\ camp'[u.c].status = u.status /\ camp'[u.c].sent = u.sent
        /\ \A c \in Campaigns \ {u.c} : camp'[c] = camp[c]
    BY <1>1, <1>2 DEF Types
  <1>5. MapOK(u.sent, u.c, restarts) /\ (u.status = "done" => NothingQueued(u.sent))
    <2>1. CASE u.sent = Keep
      BY <1>1, <2>1, NoLeads
    <2>2. CASE u.sent # Keep
      BY <1>1, <2>2 DEF Inv, UpdateOK, MergedStatus, MergedSent
    <2> QED
      BY <2>1, <2>2
  <1>6. restarts \in Nat
    BY <1>1 DEF Types
  <1>7. \A s, c, k : MapOK(s, c, k) => MapOK(s, c, k)'
    BY <1>2, MapStays
  <1>8. ASSUME NEW c \in Campaigns
        PROVE  CampOK(c)' /\ MapOK(camp[c].sent, c, restarts)'
    <2>1. CASE c = u.c
      <3>1. MapOK(u.sent, c, restarts) /\ MapOK(u.sent, c, restarts + 1)
        BY <1>1, <1>5, <1>6, <2>1, MapLooser
      <3> QED
        BY <1>2, <1>4, <1>5, <1>7, <2>1, <3>1 DEF CampOK
    <2>2. CASE c # u.c
      <3>1. ~Holds(p, c)
        BY <1>1, <2>2 DEF Holds, Inv, RunnerOK
      <3>2. MapOK(camp[c].sent, c, restarts) /\ CampOK(c)
        BY <1>3, <3>1, Unheld DEF Inv
      <3> QED
        BY <1>2, <1>4, <1>7, <2>2, <3>2 DEF CampOK
    <2> QED
      BY <2>1, <2>2
  <1>9. UpdateOK(p)'
    BY <1>2 DEF UpdateOK, NoUpdate
  <1>10. p \in Channels => RunnerOK(p)'
    <2> SUFFICES ASSUME p \in Channels PROVE RunnerOK(p)'
      OBVIOUS
    <2>1. RunnerOK(p) /\ u.c \notin runner[p].todo /\ runner[p].pc \notin {"idle", "health", "send"}
          /\ runner[p].todo \subseteq Campaigns
      BY <1>1 DEF Inv, RunnerOK, Types, InHand
    <2>2. \A c \in runner[p].todo : camp'[c] = camp[c]
      BY <1>4, <2>1
    <2> QED
      BY <1>2, <2>1, <2>2 DEF RunnerOK, NoUpdate
  <1> QED
    BY <1>1, <1>2, <1>3, <1>8, <1>9, <1>10, Stepped

(* A cycle goes on; it may start an update that keeps the campaign's map.  *)
LEMMA SerialMove ==
    ASSUME Serial, Inv, Types', NEW ch \in Channels, ~AtRest(ch) \/ MayStart(ch),
           NEW r, Move(ch, r), UNCHANGED <<camp, messages, bounced, restarts>>,
           UNCHANGED update \/ \E u : update' = [update EXCEPT ![ch] = u],
           UpdateOK(ch)', RunnerOK(ch)',
           \A c \in Campaigns : Holds(ch, c) => Holds(ch, c)' \/ MapOK(camp[c].sent, c, restarts)
    PROVE  Inv'
  <1>1. ch \in Processes /\ Types
    BY DEF Processes, Inv
  <1>2. \A o \in Processes \ {ch} : AtRest(o) /\ update'[o] = update[o]
    BY <1>1, Others DEF Types
  <1>3. \A o \in Channels \ {ch} : runner'[o] = runner[o]
    BY <1>1 DEF Move, Types
  <1> QED
    BY <1>1, <1>2, <1>3, Prepared

LEMMA Moved ==
    ASSUME Types, NEW ch \in Channels, NEW r, Move(ch, r)
    PROVE  runner'[ch] = r
BY DEF Types, Move

LEMMA KeepingUpdate ==
    ASSUME Types, NEW ch \in Processes, NEW c, NEW status \in Status,
           StartUpdate(ch, c, status, Keep), UNCHANGED camp,
           status = "done" => NothingQueued(camp[c].sent)
    PROVE  /\ UpdateOK(ch)' /\ update'[ch].phase = "get" /\ update'[ch].c = c
           /\ \E u : update' = [update EXCEPT ![ch] = u]
  <1>1. update'[ch] = [phase |-> "get", c |-> c, status |-> status, sent |-> Keep]
        /\ \E u : update' = [update EXCEPT ![ch] = u]
    BY DEF StartUpdate, Types
  <1>2. MergedStatus(update[ch])' = status /\ MergedSent(update[ch])' = camp[c].sent
    BY <1>1 DEF MergedStatus, MergedSent
  <1>3. update'[ch].sent = Keep
    BY <1>1
  <1>4. UpdateOK(ch)'
    <2>1. NothingQueued(MergedSent(update[ch]))' \/ MergedStatus(update[ch])' # "done"
      BY <1>2 DEF NothingQueued
    <2> QED
      BY <1>3, <2>1 DEF UpdateOK
  <1>5. update'[ch].phase = "get" /\ update'[ch].c = c
    BY <1>1
  <1>6. \E u : update' = [update EXCEPT ![ch] = u]
    BY <1>1
  <1> QED
    BY <1>4, <1>5, <1>6

LEMMA SerialStart ==
    ASSUME Serial, Inv, NEW ch \in Channels, StartCycle(ch)
    PROVE  Inv'
  <1>1. Types /\ Types' /\ MayStart(ch) /\ UNCHANGED <<camp, update, messages, bounced, restarts>>
        /\ runner[ch].pc = "idle" /\ update[ch].phase = "none" /\ ch \in Processes
    BY StartCycleTypes DEF Inv, StartCycle, MayStart, AtRest, Processes
  <1>2. UpdateOK(ch)'
    BY <1>1 DEF UpdateOK
  <1>3. \A c \in Campaigns : ~Holds(ch, c)
    BY <1>1 DEF Holds
  <1>4. CASE /\ Active(ch) # {}
             /\ Move(ch, [Idle EXCEPT !.pc = IF ch = "wa" THEN "health" ELSE "pick",
                                      !.docs = camp, !.todo = Active(ch),
                                      !.budget = PER_TICK[ch],
                                      !.used = IF ch = "wa" THEN SentToday(camp) ELSE 0])
    <2> DEFINE r == [Idle EXCEPT !.pc = IF ch = "wa" THEN "health" ELSE "pick",
                                 !.docs = camp, !.todo = Active(ch),
                                 !.budget = PER_TICK[ch],
                                 !.used = IF ch = "wa" THEN SentToday(camp) ELSE 0]
    <2>1. r.pc \in {"health", "pick"} /\ r.docs = camp /\ r.todo = Active(ch)
      BY DEF Idle
    <2> HIDE DEF r
    <2>2. runner'[ch] = r
      BY <1>1, <1>4, Moved DEF r
    <2>3. RunnerOK(ch)'
      BY <1>1, <2>1, <2>2 DEF RunnerOK, Active
    <2> QED
      BY <1>1, <1>2, <1>3, <1>4, <2>3, SerialMove
  <1>5. CASE Move(ch, [Idle EXCEPT !.pc = "close",
                                   !.todo = {c \in Campaigns : /\ camp[c].status = "sending"
                                                               /\ ~HasQueued(camp[c]) /\ Uses(c, ch)}])
    <2> DEFINE empty == {c \in Campaigns : /\ camp[c].status = "sending"
                                           /\ ~HasQueued(camp[c]) /\ Uses(c, ch)}
               r == [Idle EXCEPT !.pc = "close", !.todo = empty]
    <2>1. \A c \in empty : NothingQueued(camp[c].sent)
      BY DEF HasQueued, HasQueuedOn, NothingQueued
    <2>2. r.pc = "close" /\ r.todo = empty
      BY DEF Idle
    <2>3. runner'[ch] = r
      BY <1>1, <1>5, Moved
    <2> HIDE DEF r, empty
    <2>4. RunnerOK(ch)'
      BY <1>1, <2>1, <2>2, <2>3 DEF RunnerOK
    <2> QED
      BY <1>1, <1>2, <1>3, <1>5, <2>4, SerialMove
  <1> QED
    BY <1>4, <1>5 DEF StartCycle

LEMMA SerialSetAll ==
    ASSUME Serial, Inv, NEW ch \in Channels, NEW pc \in {"close", "danger"},
           NEW status \in Status, SetAll(ch, pc, status), status = "done" => pc = "close"
    PROVE  Inv'
  <1> DEFINE r == runner[ch]
  <1>1. Types /\ Types' /\ UNCHANGED <<camp, messages, bounced, restarts>>
        /\ r.pc = pc /\ update[ch].phase = "none" /\ ~AtRest(ch) /\ ch \in Processes
        /\ RunnerOK(ch) /\ r.todo \subseteq Campaigns /\ DOMAIN r = Fields
    BY SetAllTypes DEF Inv, SetAll, Ready, AtRest, Processes, Types, InHand
  <1>2. \A c \in Campaigns : ~Holds(ch, c)
    BY <1>1 DEF Holds
  <1>3. CASE Move(ch, Idle) /\ UNCHANGED update
    <2>1. UpdateOK(ch)' /\ RunnerOK(ch)'
      BY <1>1, <1>3, Moved DEF UpdateOK, RunnerOK, Idle
    <2> QED
      BY <1>1, <1>2, <1>3, <2>1, SerialMove
  <1>4. ASSUME NEW c \in r.todo,
               Move(ch, [r EXCEPT !.todo = @ \ {c}]), StartUpdate(ch, c, status, Keep)
        PROVE  Inv'
    <2>1. status = "done" => NothingQueued(camp[c].sent)
      BY <1>1 DEF RunnerOK
    <2>2. /\ UpdateOK(ch)' /\ update'[ch].phase = "get" /\ update'[ch].c = c
          /\ \E u : update' = [update EXCEPT ![ch] = u]
      BY <1>1, <1>4, <2>1, KeepingUpdate
    <2>3. runner'[ch].pc = r.pc /\ runner'[ch].todo = r.todo \ {c}
      BY <1>1, <1>4, Moved DEF Fields
    <2>4. RunnerOK(ch)'
      BY <1>1, <2>2, <2>3 DEF RunnerOK
    <2> QED
      BY <1>1, <1>2, <1>4, <2>2, <2>4, SerialMove
  <1> QED
    BY <1>3, <1>4 DEF SetAll

LEMMA SerialHealth ==
    ASSUME Serial, Inv, Health
    PROVE  Inv'
  <1> DEFINE r == runner["wa"]
  <1>1. Types /\ Types' /\ UNCHANGED <<camp, update, messages, bounced, restarts>>
        /\ r.pc = "health" /\ update["wa"].phase = "none" /\ ~AtRest("wa")
        /\ "wa" \in Processes /\ "wa" \in Channels /\ RunnerOK("wa") /\ DOMAIN r = Fields
    BY HealthTypes DEF Inv, Health, Ready, AtRest, Processes, Channels, Types, InHand
  <1>2. PICK pc \in {"danger", "pick"} : Move("wa", [r EXCEPT !.pc = pc])
    BY DEF Health
  <1>3. runner'["wa"].pc = pc /\ runner'["wa"].todo = r.todo /\ runner'["wa"].docs = r.docs
    BY <1>1, <1>2, Moved DEF Fields
  <1>4. UpdateOK("wa")' /\ RunnerOK("wa")'
    BY <1>1, <1>2, <1>3 DEF UpdateOK, RunnerOK
  <1>5. \A c \in Campaigns : ~Holds("wa", c)
    BY <1>1 DEF Holds
  <1> QED
    BY <1>1, <1>2, <1>4, <1>5, SerialMove

LEMMA SerialPick ==
    ASSUME Serial, Inv, NEW ch \in Channels, PickCampaign(ch)
    PROVE  Inv'
  <1> DEFINE r == runner[ch]
  <1>1. Types /\ Types' /\ UNCHANGED <<camp, update, messages, bounced, restarts>>
        /\ r.pc = "pick" /\ update[ch].phase = "none" /\ ~AtRest(ch) /\ ch \in Processes
        /\ RunnerOK(ch) /\ r.todo \subseteq Campaigns /\ DOMAIN r = Fields
    BY PickTypes DEF Inv, PickCampaign, Ready, AtRest, Processes, Types, InHand
  <1>2. UpdateOK(ch)'
    BY <1>1 DEF UpdateOK
  <1>3. \A c \in Campaigns : ~Holds(ch, c)
    BY <1>1 DEF Holds
  <1>4. CASE Move(ch, Idle)
    <2>1. RunnerOK(ch)'
      BY <1>1, <1>4, Moved DEF RunnerOK, Idle
    <2> QED
      BY <1>1, <1>2, <1>3, <1>4, <2>1, SerialMove
  <1>5. ASSUME NEW c \in r.todo, Move(ch, [r EXCEPT !.todo = @ \ {c}])
        PROVE  Inv'
    <2>1. runner'[ch].pc = "pick" /\ runner'[ch].todo = r.todo \ {c} /\ runner'[ch].docs = r.docs
      BY <1>1, <1>5, Moved DEF Fields
    <2>2. RunnerOK(ch)'
      BY <1>1, <2>1 DEF RunnerOK
    <2> QED
      BY <1>1, <1>2, <1>3, <1>5, <2>2, SerialMove
  <1>6. ASSUME NEW c \in r.todo, NEW n,
               NEW q \in kSubset(n, {l \in Leads : r.docs[c].sent[l][ch].st = "queued"}),
               Move(ch, [r EXCEPT !.pc = "send", !.todo = @ \ {c}, !.c = c,
                                  !.sent = r.docs[c].sent, !.queue = q,
                                  !.tries = 0, !.fails = 0])
        PROVE  Inv'
    <2>1. /\ runner'[ch].pc = "send" /\ runner'[ch].todo = r.todo \ {c} /\ runner'[ch].docs = r.docs
          /\ runner'[ch].c = c /\ runner'[ch].queue = q /\ runner'[ch].sent = r.docs[c].sent
      <3> DEFINE t == [r EXCEPT !.pc = "send", !.todo = @ \ {c}, !.c = c,
                                !.sent = r.docs[c].sent, !.queue = q, !.tries = 0, !.fails = 0]
      <3>1. /\ t.pc = "send" /\ t.todo = r.todo \ {c} /\ t.docs = r.docs
            /\ t.c = c /\ t.queue = q /\ t.sent = r.docs[c].sent
        BY <1>1 DEF Fields
      <3>2. Move(ch, t)
        BY <1>6
      <3> HIDE DEF t
      <3>3. runner'[ch] = t
        BY <1>1, <3>2, Moved
      <3> QED
        BY <3>1, <3>3
    <2>6. \A l \in q : r.docs[c].sent[l][ch].st = "queued"
      BY <1>6 DEF kSubset
    <2>2. r.docs[c] = camp[c] /\ camp[c].status = "sending" /\ c \in Campaigns
      BY <1>1 DEF RunnerOK
    <2>3. MapOK(camp[c].sent, c, restarts)
      BY <1>1, <1>3, <2>2, Others, Unheld
    <2>4. MapOK(runner[ch].sent, runner[ch].c, restarts)'
      BY <1>1, <2>1, <2>2, <2>3, MapStays
    <2>5. RunnerOK(ch)'
      BY <1>1, <2>1, <2>2, <2>4, <2>6 DEF RunnerOK
    <2> QED
      BY <1>1, <1>2, <1>3, <1>6, <2>5, SerialMove
  <1> QED
    BY <1>4, <1>5, <1>6 DEF PickCampaign

LEMMA SerialNoPhoto ==
    ASSUME Serial, Inv, NEW c \in Campaigns, NoHeaderPhoto(c)
    PROVE  Inv'
  <1> DEFINE r == runner["wa"]
  <1>1. Types /\ Types' /\ UNCHANGED <<camp, messages, bounced, restarts>>
        /\ r.pc = "pick" /\ update["wa"].phase = "none" /\ ~AtRest("wa")
        /\ "wa" \in Processes /\ "wa" \in Channels /\ RunnerOK("wa") /\ DOMAIN r = Fields
        /\ Move("wa", [r EXCEPT !.todo = @ \ {c}])
    BY NoPhotoTypes DEF Inv, NoHeaderPhoto, Ready, AtRest, Processes, Channels, Types, InHand
  <1>2. runner'["wa"].pc = "pick" /\ runner'["wa"].todo = r.todo \ {c} /\ runner'["wa"].docs = r.docs
    BY <1>1, Moved DEF Fields
  <1>3. \A d \in Campaigns : ~Holds("wa", d)
    BY <1>1 DEF Holds
  <1>4. CASE StartUpdate("wa", c, "paused", Keep)
    <2>1. /\ UpdateOK("wa")' /\ update'["wa"].phase = "get" /\ update'["wa"].c = c
          /\ \E u : update' = [update EXCEPT !["wa"] = u]
      BY <1>1, <1>4, KeepingUpdate DEF Status
    <2>2. RunnerOK("wa")'
      BY <1>1, <1>2, <2>1 DEF RunnerOK
    <2> QED
      BY <1>1, <1>3, <2>1, <2>2, SerialMove
  <1>5. CASE UNCHANGED update
    <2>1. UpdateOK("wa")' /\ RunnerOK("wa")'
      BY <1>1, <1>2, <1>5 DEF RunnerOK, UpdateOK
    <2> QED
      BY <1>1, <1>3, <1>5, <2>1, SerialMove
  <1> QED
    BY <1>4, <1>5 DEF NoHeaderPhoto

(* A lead of the batch leaves its queue.                                   *)
LEMMA PutAsideFacts ==
    ASSUME NEW s \in SentMap, NEW l \in Leads, NEW ch \in Channels, NEW st \in EntryStatus
    PROVE  LET t == PutAside(s, l, ch, st) IN
           /\ \A k \in Leads \ {l} : t[k] = s[k]
           /\ \A o \in Channels \ {ch} : t[l][o] = s[l][o]
           /\ t[l][ch].st = st /\ t[l][ch].day = s[l][ch].day /\ t[l][ch].msg = s[l][ch].msg
BY DEF PutAside, SentMap, Entry

LEMMA PutSentFacts ==
    ASSUME NEW s \in SentMap, NEW l \in Leads, NEW ch \in Channels, NEW day, NEW m
    PROVE  LET t == PutSent(s, l, ch, day, m) IN
           /\ \A k \in Leads \ {l} : t[k] = s[k]
           /\ \A o \in Channels \ {ch} : t[l][o] = s[l][o]
           /\ t[l][ch].st = "sent" /\ t[l][ch].day = day /\ t[l][ch].msg = m
BY DEF PutSent, SentMap, Entry

LEMMA AsideFollows ==
    ASSUME NEW s \in SentMap, NEW l \in Leads, NEW ch \in Channels, NEW st \in EntryStatus,
           st # "sent", s[l][ch].st = "queued", NEW c
    PROVE  MapFollows(s, PutAside(s, l, ch, st), c)
  <1> DEFINE t == PutAside(s, l, ch, st)
  <1>1. /\ \A k \in Leads \ {l} : t[k] = s[k]
        /\ \A o \in Channels \ {ch} : t[l][o] = s[l][o]
        /\ t[l][ch].st = st /\ t[l][ch].day = s[l][ch].day /\ t[l][ch].msg = s[l][ch].msg
    BY PutAsideFacts
  <1> HIDE DEF t
  <1>2. \A k \in Leads \ {l} : Follows(s[k], t[k], c, k)
    BY <1>1 DEF Follows
  <1>3. Follows(s[l], t[l], c, l)
    BY <1>1 DEF Follows, Channels
  <1> QED
    BY <1>2, <1>3 DEF MapFollows, t

LEMMA SerialAside ==
    ASSUME Serial, Inv, Types', NEW ch \in Channels, Ready(ch, "send"),
           NEW l \in runner[ch].queue, NEW st \in EntryStatus, st # "sent", NEW r, Move(ch, r),
           r.pc = "send", r.c = runner[ch].c, r.todo = runner[ch].todo, r.docs = runner[ch].docs,
           r.queue = runner[ch].queue \ {l}, r.sent = PutAside(runner[ch].sent, l, ch, st),
           UNCHANGED <<camp, update, messages, bounced, restarts>>
    PROVE  Inv'
  <1> DEFINE q == runner[ch]
  <1>1. Types /\ RunnerOK(ch) /\ ~AtRest(ch) /\ q.pc = "send" /\ update[ch].phase = "none"
        /\ l \in Leads /\ q.c \in Campaigns /\ q.sent \in SentMap /\ restarts \in Nat
        /\ q.queue \subseteq Leads
    BY DEF Inv, Ready, AtRest, Types, InHand
  <1>2. runner'[ch] = r
    BY <1>1, Moved
  <1>3. MapOK(r.sent, q.c, restarts)
    <2>1. q.sent[l][ch].st = "queued" /\ MapOK(q.sent, q.c, restarts)
      BY <1>1 DEF RunnerOK
    <2> HIDE DEF q
    <2>2. MapFollows(q.sent, r.sent, q.c)
      BY <1>1, <2>1, AsideFollows DEF q
    <2> QED
      BY <1>1, <2>1, <2>2, MapFollowed
  <1>4. \A k \in r.queue : r.sent[k] = q.sent[k]
    BY <1>1, PutAsideFacts
  <1>5. MapOK(runner[ch].sent, runner[ch].c, restarts)'
    BY <1>2, <1>3, MapStays
  <1>6. RunnerOK(ch)'
    BY <1>1, <1>2, <1>4, <1>5 DEF RunnerOK
  <1>7. UpdateOK(ch)'
    BY <1>1 DEF UpdateOK
  <1>8. \A c \in Campaigns : Holds(ch, c) => Holds(ch, c)'
    BY <1>1, <1>2 DEF Holds
  <1> QED
    BY <1>1, <1>6, <1>7, <1>8, SerialMove

LEMMA SerialSkip ==
    ASSUME Serial, Inv, NEW ch \in Channels, NEW l \in Leads, Skip(ch, l)
    PROVE  Inv'
  <1> DEFINE q == runner[ch]
             r == [q EXCEPT !.queue = @ \ {l}, !.sent[l][ch].st = "skipped",
                            !.sent[l][ch].at = @ \/ ch = "wa"]
  <1>1. /\ Types' /\ Ready(ch, "send") /\ l \in q.queue /\ Move(ch, r) /\ DOMAIN q = Fields
        /\ q.pc = "send" /\ UNCHANGED <<camp, update, messages, bounced, restarts>>
    BY SkipTypes DEF Skip, Inv, Types, InHand, Ready
  <1>2. /\ r.pc = "send" /\ r.c = q.c /\ r.todo = q.todo /\ r.docs = q.docs
        /\ r.queue = q.queue \ {l} /\ r.sent = PutAside(q.sent, l, ch, "skipped")
    BY <1>1 DEF Fields, PutAside
  <1>3. "skipped" \in EntryStatus
    BY DEF EntryStatus
  <1> HIDE DEF r
  <1> QED
    BY <1>1, <1>2, <1>3, SerialAside

LEMMA SerialRefused ==
    ASSUME Serial, Inv, NEW ch \in Channels, NEW l \in Leads, Refused(ch, l)
    PROVE  Inv'
  <1> DEFINE q == runner[ch]
             r == [q EXCEPT !.queue = @ \ {l}, !.budget = @ - 1, !.tries = @ + 1,
                            !.fails = @ + 1, !.sent[l][ch].st = "failed",
                            !.sent[l][ch].at = @ \/ ch = "wa"]
  <1>1. /\ Types' /\ Ready(ch, "send") /\ l \in q.queue /\ Move(ch, r) /\ DOMAIN q = Fields
        /\ q.pc = "send" /\ UNCHANGED <<camp, update, messages, bounced, restarts>>
    BY RefusedTypes DEF Refused, Inv, Types, InHand, Ready
  <1>2. /\ r.pc = "send" /\ r.c = q.c /\ r.todo = q.todo /\ r.docs = q.docs
        /\ r.queue = q.queue \ {l} /\ r.sent = PutAside(q.sent, l, ch, "failed")
    BY <1>1 DEF Fields, PutAside
  <1>3. "failed" \in EntryStatus
    BY DEF EntryStatus
  <1> HIDE DEF r
  <1> QED
    BY <1>1, <1>2, <1>3, SerialAside

(* An accepted message is one more of its lead, in the copy and not yet in *)
(* the stored map.                                                         *)
LEMMA EntryUntouched ==
    ASSUME UNCHANGED bounced, NEW c, NEW l,
           messages'.wa[c][l] = messages.wa[c][l], messages'.em[c][l] = messages.em[c][l]
    PROVE  \A e, k : EntryOK(e, c, l, k) => EntryOK(e, c, l, k)'
  <1>1. \A k : Arrived(c, l, k)' = Arrived(c, l, k)
    BY DEF Arrived, ArrivedOf
  <1> QED
    BY <1>1 DEF EntryOK

OneMore(e, f, g, c, l, ch) ==
    /\ e[ch].st = "queued" /\ g[ch].st = "queued"
    /\ f[ch].st = "sent" /\ f[ch].msg = messages[ch][c][l] + 1
    /\ \A o \in Channels \ {ch} : f[o] = e[o] /\ messages'[o][c][l] = messages[o][c][l]
    /\ messages'[ch][c][l] = messages[ch][c][l] + 1

LEMMA EntryAccepted ==
    ASSUME Types, UNCHANGED bounced, NEW c \in Campaigns, NEW l \in Leads, NEW ch \in Channels,
           NEW e, NEW f, NEW g, NEW k \in Nat, NEW i, i = k + 1,
           EntryOK(e, c, l, k), EntryOK(g, c, l, i), OneMore(e, f, g, c, l, ch)
    PROVE  EntryOK(f, c, l, k)' /\ EntryOK(g, c, l, i)'
  <1>0. PICK m \in Nat : m = messages.wa[c][l] /\ messages.em[c][l] \in Nat
    BY MessagesNat
  <1>1. messages.em[c][l] \in Nat
    BY <1>0
  <1>2. Arrived(c, l, m) \in Nat /\ Arrived(c, l, m + 1) \in Nat
        /\ Arrived(c, l, m + 1) <= Arrived(c, l, m) + 1
    <2>1. m \in Int /\ m + 1 \in Nat /\ m + 1 \in Int
      BY <1>0
    <2> QED
      BY <2>1, ArrivedNext, ArrivedBasics
  <1>3. \A j : Arrived(c, l, j)' = Arrived(c, l, j)
    BY DEF Arrived, ArrivedOf
  <1>4. CASE ch = "wa"
    <2>1. messages'.wa[c][l] = m + 1 /\ messages'.em[c][l] = messages.em[c][l] /\ f.em = e.em
          /\ Arrived(c, l, m) <= k
      BY <1>0, <1>4 DEF Channels, EntryOK, OneMore
    <2>2. (m + 1) - 1 = m /\ m + 1 >= 1
      BY <1>0
    <2>3. f.wa.st = "sent" /\ f.wa.msg = m + 1 /\ g.wa.st # "sent"
      BY <1>0, <1>4 DEF OneMore
    <2>4. EntryOK(f, c, l, k)'
      BY <1>1, <1>3, <2>1, <2>2, <2>3 DEF EntryOK
    <2>5. EntryOK(g, c, l, i)'
      BY <1>0, <1>1, <1>2, <1>3, <2>1, <2>3 DEF EntryOK
    <2> QED
      BY <2>4, <2>5
  <1>5. CASE ch = "em"
    <2>1. messages'.wa[c][l] = m /\ messages'.em[c][l] = messages.em[c][l] + 1 /\ f.wa = e.wa
          /\ messages.em[c][l] <= k
      BY <1>0, <1>5 DEF Channels, EntryOK, OneMore
    <2> QED
      BY <1>0, <1>3, <1>5, <2>1 DEF EntryOK, OneMore
  <1> QED
    BY <1>4, <1>5 DEF Channels

LEMMA SerialAccepted ==
    ASSUME Serial, Inv, NEW ch \in Channels, NEW l \in Leads, Accepted(ch, l)
    PROVE  Inv'
  <1>01. PICK q : q = runner[ch]
    OBVIOUS
  <1>02. PICK c : c = q.c
    OBVIOUS
  <1>03. PICK m : m = messages[ch][c][l] + 1
    OBVIOUS
  <1>04. PICK k : k = restarts
    OBVIOUS
  <1>05. PICK docs : docs = camp
    OBVIOUS
  <1>1. /\ q = runner[ch] /\ c = q.c /\ m = messages[ch][c][l] + 1 /\ k = restarts /\ docs = camp
    BY <1>01, <1>02, <1>03, <1>04, <1>05
  <1> DEFINE r == [q EXCEPT !.queue = @ \ {l}, !.budget = @ - 1, !.used = @ + 1,
                            !.tries = @ + 1, !.sent[l][ch].st = "sent",
                            !.sent[l][ch].day = today, !.sent[l][ch].msg = m]
  <1>2. /\ Types /\ Types' /\ l \in q.queue /\ DOMAIN q = Fields /\ Move(ch, r)
        /\ q.pc = "send" /\ update[ch].phase = "none" /\ ~AtRest(ch)
        /\ c \in Campaigns /\ q.sent \in SentMap /\ q.queue \subseteq Leads
        /\ RunnerOK(ch) /\ ch \in Processes /\ k \in Nat
        /\ messages' = [messages EXCEPT ![ch][c][l] = m]
        /\ UNCHANGED <<camp, update, bounced, restarts>>
    <2>1. Types /\ Types' /\ RunnerOK(ch) /\ ch \in Processes /\ Ready(ch, "send") /\ l \in q.queue
      BY <1>1, AcceptedTypes DEF Accepted, Inv, Processes
    <2>2. InHand(ch, q) /\ q.pc = "send" /\ update[ch].phase = "none" /\ ~AtRest(ch) /\ k \in Nat
      BY <1>1, <2>1 DEF Ready, AtRest, Types
    <2>3. /\ Move(ch, r) /\ messages' = [messages EXCEPT ![ch][c][l] = m]
          /\ UNCHANGED <<camp, update, bounced, restarts>>
      BY <1>1 DEF Accepted
    <2> QED
      BY <1>1, <2>1, <2>2, <2>3 DEF InHand
  <1>3. /\ r.pc = "send" /\ r.c = c /\ r.todo = q.todo /\ r.docs = q.docs
        /\ r.queue = q.queue \ {l} /\ r.sent = PutSent(q.sent, l, ch, today, m)
    BY <1>1, <1>2 DEF Fields, PutSent
  <1>4. PICK n : n = r
    OBVIOUS
  <1> HIDE DEF r
  <1>5. runner'[ch] = n /\ \A o \in Channels \ {ch} : runner'[o] = runner[o]
    <2>1. runner'[ch] = r
      BY <1>2, Moved
    <2>2. \A o \in Channels \ {ch} : runner'[o] = runner[o]
      BY <1>2 DEF Move, Types
    <2> QED
      BY <1>4, <2>1, <2>2
  <1>6. \A o \in Processes \ {ch} : AtRest(o) /\ update'[o] = update[o]
    BY <1>2, Others
  <1>7. /\ messages'[ch][c][l] = m
        /\ \A o \in Channels, d \in Campaigns, j \in Leads :
             <<o, d, j>> # <<ch, c, l>> => messages'[o][d][j] = messages[o][d][j]
    BY <1>2 DEF Types
  <1>8. ASSUME NEW d \in Campaigns, NEW j \in Leads, <<d, j>> # <<c, l>>
        PROVE  \A e, i : EntryOK(e, d, j, i) => EntryOK(e, d, j, i)'
    <2>1. messages'.wa[d][j] = messages.wa[d][j] /\ messages'.em[d][j] = messages.em[d][j]
      BY <1>7, <1>8 DEF Channels
    <2> QED
      BY <1>2, <2>1, EntryUntouched
  <1>9. \A d \in Campaigns : CampOK(d)
    BY DEF Inv
  <1>10. /\ \A j \in Leads \ {l} : n.sent[j] = q.sent[j]
         /\ \A o \in Channels \ {ch} : n.sent[l][o] = q.sent[l][o]
         /\ n.sent[l][ch].st = "sent" /\ n.sent[l][ch].msg = m
    BY <1>2, <1>3, <1>4, PutSentFacts
  <1>11. /\ \A j \in Leads : EntryOK(q.sent[j], c, j, k)
         /\ \A j \in q.queue : q.sent[j][ch].st = "queued" /\ docs[c].sent[j][ch].st = "queued"
         /\ \A j \in Leads : EntryOK(docs[c].sent[j], c, j, k + 1)
    BY <1>1, <1>2, <1>9 DEF RunnerOK, CampOK, MapOK
  <1>12. EntryOK(n.sent[l], c, l, k)' /\ EntryOK(docs[c].sent[l], c, l, k + 1)'
    <2>1. \A o \in Channels \ {ch} :
            n.sent[l][o] = q.sent[l][o] /\ messages'[o][c][l] = messages[o][c][l]
      BY <1>2, <1>7, <1>10
    <2>2. /\ EntryOK(q.sent[l], c, l, k) /\ EntryOK(docs[c].sent[l], c, l, k + 1)
          /\ q.sent[l][ch].st = "queued" /\ docs[c].sent[l][ch].st = "queued"
      BY <1>2, <1>11
    <2>3. /\ n.sent[l][ch].st = "sent" /\ n.sent[l][ch].msg = messages[ch][c][l] + 1
          /\ messages'[ch][c][l] = messages[ch][c][l] + 1
      BY <1>1, <1>7, <1>10
    <2>01. PICK e : e = q.sent[l]
      OBVIOUS
    <2>02. PICK f : f = n.sent[l]
      OBVIOUS
    <2>03. PICK g : g = docs[c].sent[l]
      OBVIOUS
    <2>04. PICK i : i = k + 1
      OBVIOUS
    <2>4. EntryOK(e, c, l, k) /\ EntryOK(g, c, l, i) /\ OneMore(e, f, g, c, l, ch)
      BY <2>1, <2>2, <2>3, <2>01, <2>02, <2>03, <2>04 DEF OneMore
    <2>5. Types /\ UNCHANGED bounced /\ k \in Nat /\ c \in Campaigns
      BY <1>2
    <2>6. EntryOK(f, c, l, k)' /\ EntryOK(g, c, l, i)'
      BY <2>4, <2>5, <2>04, EntryAccepted
    <2> QED
      BY <2>6, <2>01, <2>02, <2>03, <2>04
  <1>13. \A j \in Leads : EntryOK(n.sent[j], c, j, k)' /\ EntryOK(docs[c].sent[j], c, j, k + 1)'
    BY <1>2, <1>8, <1>10, <1>11, <1>12
  <1>14. RunnerOK(ch)'
    <2>1. MapOK(runner[ch].sent, runner[ch].c, restarts)'
      BY <1>1, <1>2, <1>3, <1>4, <1>5, <1>13 DEF MapOK
    <2>2. \A j \in n.queue : n.sent[j] = q.sent[j]
      BY <1>2, <1>3, <1>4, <1>10
    <2>3. /\ \A d \in q.todo : q.docs[d] = docs[d] /\ docs[d].status = "sending"
          /\ c \notin q.todo /\ docs[c].status = "sending"
          /\ \A j \in q.queue : q.sent[j][ch].st = "queued" /\ docs[c].sent[j][ch].st = "queued"
      BY <1>1, <1>2 DEF RunnerOK
    <2>4. /\ runner'[ch] = n /\ n.pc = "send" /\ n.c = c /\ n.todo = q.todo /\ n.docs = q.docs
          /\ n.queue \subseteq q.queue
      BY <1>3, <1>4, <1>5
    <2>5. camp' = docs /\ update'[ch].phase = "none"
      BY <1>1, <1>2
    <2> QED
      BY <2>1, <2>2, <2>3, <2>4, <2>5 DEF RunnerOK
  <1>15. UpdateOK(ch)'
    BY <1>2 DEF UpdateOK
  <1>16. ASSUME NEW d \in Campaigns
         PROVE  CampOK(d)' /\ (Holds(ch, d) \/ MapOK(camp[d].sent, d, restarts))'
    <2>1. CASE d = c
      <3>1. MapOK(camp[d].sent, d, restarts + 1)'
        BY <1>1, <1>2, <1>13, <2>1 DEF MapOK
      <3>2. CampOK(d)'
        BY <1>2, <1>9, <3>1 DEF CampOK
      <3>3. Holds(ch, d)'
        BY <1>3, <1>4, <1>5, <2>1 DEF Holds
      <3> QED
        BY <3>2, <3>3
    <2>2. CASE d # c
      <3>1. ~Holds(ch, d)
        BY <1>1, <1>2, <2>2 DEF Holds
      <3>2. MapOK(camp[d].sent, d, restarts) /\ CampOK(d)
        BY <1>2, <1>6, <1>9, <3>1, Unheld
      <3>3. \A s, i : MapOK(s, d, i) => MapOK(s, d, i)'
        BY <1>8, <2>2 DEF MapOK
      <3> QED
        BY <1>2, <3>2, <3>3 DEF CampOK
    <2> QED
      BY <2>1, <2>2
  <1> QED
    BY <1>2, <1>5, <1>6, <1>14, <1>15, <1>16, Stepped

LEMMA SerialEnd ==
    ASSUME Serial, Inv, NEW ch \in Channels, EndBatch(ch)
    PROVE  Inv'
  <1> DEFINE q == runner[ch]
             r == [q EXCEPT !.pc = "pick", !.c = <<>>, !.sent = <<>>, !.tries = 0, !.fails = 0]
  <1>1. /\ Types /\ Types' /\ DOMAIN q = Fields /\ Move(ch, r)
        /\ q.pc = "send" /\ update[ch].phase = "none" /\ ~AtRest(ch)
        /\ q.c \in Campaigns /\ q.sent \in SentMap /\ RunnerOK(ch) /\ ch \in Processes
        /\ StartUpdate(ch, q.c, StatusAfter(ch, q), q.sent)
        /\ UNCHANGED <<camp, messages, bounced, restarts>>
    BY EndBatchTypes DEF EndBatch, Inv, Types, InHand, Ready, AtRest, Processes
  <1>2. runner'[ch].pc = "pick" /\ runner'[ch].todo = q.todo /\ runner'[ch].docs = q.docs
    <2>1. r.pc = "pick" /\ r.todo = q.todo /\ r.docs = q.docs
      BY <1>1 DEF Fields
    <2> HIDE DEF r
    <2> QED
      BY <1>1, <2>1, Moved
  <1>3. /\ update'[ch] = [phase |-> "get", c |-> q.c, status |-> StatusAfter(ch, q), sent |-> q.sent]
        /\ \E u : update' = [update EXCEPT ![ch] = u]
    BY <1>1 DEF StartUpdate, Types
  <1> PICK u : u = update'[ch]
    OBVIOUS
  <1>4. u.phase = "get" /\ u.c = q.c /\ u.status = StatusAfter(ch, q) /\ u.sent = q.sent
    BY <1>3
  <1>5. q.c \notin q.todo /\ camp[q.c].status = "sending" /\ MapOK(q.sent, q.c, restarts)
    BY <1>1 DEF RunnerOK
  <1>6. RunnerOK(ch)'
    BY <1>1, <1>2, <1>4, <1>5 DEF RunnerOK
  <1>7. UpdateOK(ch)'
    <2>1. MapOK(update[ch].sent, update[ch].c, restarts)'
      BY <1>1, <1>4, <1>5, MapStays
    <2>2. CASE u.sent = Keep
      BY <1>1, <1>4, <2>1, <2>2, NoLeads DEF UpdateOK
    <2>3. CASE u.sent # Keep
      <3>1. u.status = "done" => NothingQueued(q.sent)
        BY <1>4 DEF StatusAfter, HasQueued, HasQueuedOn, NothingQueued, KeepStatus
      <3>2. (MergedStatus(update[ch]) = "done" => NothingQueued(MergedSent(update[ch])))'
        BY <1>1, <1>4, <1>5, <2>3, <3>1 DEF MergedStatus, MergedSent
      <3> QED
        BY <2>1, <3>2 DEF UpdateOK
    <2> QED
      BY <2>2, <2>3
  <1>8. ASSUME NEW c \in Campaigns, Holds(ch, c)
        PROVE  Holds(ch, c)' \/ MapOK(camp[c].sent, c, restarts)
    <2>1. c = q.c
      BY <1>1, <1>8 DEF Holds
    <2>2. CASE u.sent = Keep
      BY <1>1, <1>4, <2>2, NoLeads
    <2>3. CASE u.sent # Keep
      BY <1>4, <2>1, <2>3 DEF Holds
    <2> QED
      BY <2>2, <2>3
  <1> QED
    BY <1>1, <1>3, <1>6, <1>7, <1>8, SerialMove

LEMMA SerialRoute ==
    ASSUME Serial, Inv, Types', NEW q \in Slots,
           NEW c, NEW status, NEW sent, RouteOK(q, c, status, sent)
    PROVE  Inv'
  <1>1. /\ Types /\ c \in Campaigns /\ MayStart(q) /\ StartUpdate(q, c, status, sent)
        /\ UNCHANGED <<camp, runner, messages, bounced, restarts>>
        /\ q \in Processes /\ q \notin Channels /\ restarts \in Nat
    <2>1. q \in Processes /\ q \notin Channels
      BY BroadcastAssumption DEF Processes, Channels
    <2>2. Types /\ restarts \in Nat
      BY DEF Inv, Types
    <2> QED
      BY <2>1, <2>2 DEF RouteOK, RouteStart, RouteUnchanged
  <1>2. \A o \in Processes \ {q} : AtRest(o) /\ update'[o] = update[o]
    BY <1>1, Others DEF StartUpdate, Types
  <1>3. update'[q] = [phase |-> "get", c |-> c, status |-> status, sent |-> sent]
    BY <1>1 DEF StartUpdate, Types
  <1>4. \A d : ~Holds(q, d)
    BY <1>1 DEF Holds, MayStart, AtRest
  <1>5. MapOK(camp[c].sent, c, restarts) /\ (camp[c].status = "done" => NothingQueued(camp[c].sent))
    BY <1>1, <1>2, <1>4, Unheld DEF Inv, CampOK
  <1>6. PICK u : u = update'[q]
    OBVIOUS
  <1>7. u.c = c /\ u.status = status /\ u.sent = sent
    BY <1>3, <1>6
  <1>8. UpdateOK(q)'
    <2>1. CASE sent = Keep
      <3>1. \/ status \in {"sending", "paused"}
            \/ status = KeepStatus /\ NothingQueued(sent) /\ NothingQueued(camp[c].sent)
        BY <2>1, NoLeads DEF RouteOK
      <3>2. (MergedStatus(update[q]) = "done" => NothingQueued(MergedSent(update[q])))'
        BY <1>1, <1>6, <1>7, <2>1, <3>1 DEF MergedStatus, MergedSent, Status, KeepStatus
      <3> QED
        BY <1>6, <1>7, <2>1, <3>2 DEF UpdateOK
    <2>2. CASE sent # Keep
      <3>1. MapOK(sent, c, restarts)
        BY <1>1, <1>5, <2>2, MapFollowed DEF RouteOK
      <3>2. \/ status \in {"sending", "paused"}
            \/ status = KeepStatus /\ (camp[c].status = "done" => NothingQueued(sent))
        BY <1>5 DEF RouteOK
      <3>3. MapOK(update[q].sent, update[q].c, restarts)'
        BY <1>1, <1>6, <1>7, <3>1, MapStays
      <3>4. (MergedStatus(update[q]) = "done" => NothingQueued(MergedSent(update[q])))'
        BY <1>1, <1>6, <1>7, <2>2, <3>2 DEF MergedStatus, MergedSent, Status, KeepStatus
      <3> QED
        BY <3>3, <3>4 DEF UpdateOK
    <2> QED
      BY <2>1, <2>2
  <1> QED
    BY <1>1, <1>2, <1>4, <1>8, Prepared

LEMMA SerialBounce ==
    ASSUME Inv, Types', NEW c \in Campaigns, NEW l \in Leads, Bounce(c, l)
    PROVE  Inv'
  <1>1. Types /\ bounced \subseteq bounced' /\ UNCHANGED <<camp, update, runner, messages, restarts>>
    BY DEF Bounce, Inv
  <1>2. \A d \in Campaigns, j \in Leads, k \in Nat :
          \A e : EntryOK(e, d, j, k) => EntryOK(e, d, j, k)'
    <2>1. SUFFICES ASSUME NEW d \in Campaigns, NEW j \in Leads, NEW e, NEW k \in Nat,
                          EntryOK(e, d, j, k)
                   PROVE  EntryOK(e, d, j, k)'
      OBVIOUS
    <2>2. PICK m \in Nat : m = messages.wa[d][j]
      BY <1>1, MessagesNat
    <2>3. m \in Int /\ m - 1 \in Int
      BY <2>2
    <2>4. /\ Arrived(d, j, m) \in Nat /\ Arrived(d, j, m - 1) \in Nat
          /\ Arrived(d, j, m)' \in Nat /\ Arrived(d, j, m - 1)' \in Nat
          /\ Arrived(d, j, m)' <= Arrived(d, j, m) /\ Arrived(d, j, m - 1)' <= Arrived(d, j, m - 1)
      BY <1>1, <2>3, ArrivedBasics, ArrivedFewer
    <2> QED
      BY <1>1, <2>1, <2>2, <2>4 DEF EntryOK
  <1>3. \A d \in Campaigns, k \in Nat : \A s : MapOK(s, d, k) => MapOK(s, d, k)'
    BY <1>2 DEF MapOK
  <1>4. /\ restarts \in Nat /\ restarts + 1 \in Nat
        /\ \A p \in Processes : update[p].phase # "none" => update[p].c \in Campaigns
        /\ \A ch \in Channels : runner[ch].pc = "send" => runner[ch].c \in Campaigns
    BY <1>1 DEF Types, Merging, NoUpdate, UpdateRecord, InHand
  <1>5. Alone'
    BY <1>1 DEF Inv, Alone, AtRest
  <1>6. \A p \in Processes : UpdateOK(p)'
    BY <1>1, <1>3, <1>4 DEF Inv, UpdateOK, MergedStatus, MergedSent
  <1>7. \A ch \in Channels : RunnerOK(ch)'
    BY <1>1, <1>3, <1>4 DEF Inv, RunnerOK
  <1>8. \A d \in Campaigns :
          (CampOK(d) /\ (MapOK(camp[d].sent, d, restarts) \/ \E p \in Processes : Holds(p, d)))'
    BY <1>1, <1>3, <1>4 DEF Inv, CampOK, Holds
  <1> QED
    BY <1>5, <1>6, <1>7, <1>8 DEF Inv

LEMMA SerialNextDay ==
    ASSUME Inv, Types', UNCHANGED <<camp, update, runner, messages, bounced, restarts>>
    PROVE  Inv'
  <1>1. \A s, c, k : MapOK(s, c, k) => MapOK(s, c, k)'
    BY MapStays
  <1>2. Alone'
    BY DEF Inv, Alone, AtRest
  <1>3. \A p \in Processes : UpdateOK(p)'
    BY <1>1 DEF Inv, UpdateOK, MergedStatus, MergedSent
  <1>4. \A ch \in Channels : RunnerOK(ch)'
    BY <1>1 DEF Inv, RunnerOK
  <1>5. \A d \in Campaigns :
          (CampOK(d) /\ (MapOK(camp[d].sent, d, restarts) \/ \E p \in Processes : Holds(p, d)))'
    BY <1>1 DEF Inv, CampOK, Holds
  <1> QED
    BY <1>2, <1>3, <1>4, <1>5 DEF Inv

LEMMA SerialRestart ==
    ASSUME Inv, Types', Restart
    PROVE  Inv'
  <1>1. Types /\ restarts \in Nat /\ restarts' = restarts + 1 /\ UNCHANGED <<camp, messages, bounced>>
        /\ \A p \in Processes : update'[p] = NoUpdate
        /\ \A ch \in Channels : runner'[ch] = Idle
    BY DEF Restart, Inv, Types
  <1>2. \A p \in Processes : AtRest(p)'
    BY <1>1 DEF AtRest, NoUpdate, Idle
  <1>3. \A p \in Processes : UpdateOK(p)' /\ (p \in Channels => RunnerOK(p)')
    BY <1>1 DEF UpdateOK, RunnerOK, NoUpdate, Idle
  <1>4. ASSUME NEW c \in Campaigns
        PROVE  CampOK(c)' /\ MapOK(camp[c].sent, c, restarts)'
    <2>1. PICK k \in Nat : k = restarts + 1
      BY <1>1
    <2>2. MapOK(camp[c].sent, c, k) /\ MapOK(camp[c].sent, c, k + 1)
      BY <1>1, <2>1, MapLooser DEF Inv, CampOK
    <2>3. \A s, i : MapOK(s, c, i) => MapOK(s, c, i)'
      BY <1>1, MapStays
    <2> QED
      BY <1>1, <2>1, <2>2, <2>3 DEF Inv, CampOK
  <1>5. Alone' /\ Channels \subseteq Processes
    BY <1>2 DEF Alone, Processes
  <1> QED
    BY <1>3, <1>4, <1>5 DEF Inv

LEMMA InitInv == Init => Inv
  <1> SUFFICES ASSUME Init PROVE Inv
    OBVIOUS
  <1>1. Types
    BY InitTypes
  <1>2. \A p \in Processes : AtRest(p)
    BY DEF Init, AtRest, NoUpdate, Idle, Processes
  <1>3. Alone /\ Channels \subseteq Processes
    BY <1>2 DEF Alone, Processes
  <1>4. \A c \in Campaigns : camp[c].status = "sending"
    BY DEF Init
  <1>5. ASSUME NEW c \in Campaigns, NEW l \in Leads
        PROVE  EntryOK(camp[c].sent[l], c, l, 0)
    <2>1. messages.wa[c][l] = 0 /\ messages.em[c][l] = 0
          /\ camp[c].sent[l].wa.st # "sent" /\ camp[c].sent[l].em.st # "sent"
      BY DEF Init, Channels, Queued, Blank
    <2>2. ArrivedOf(c, l, 0) = {}
      BY DEF ArrivedOf
    <2> QED
      BY <2>1, <2>2, FS_EmptySet DEF EntryOK, Arrived
  <1>6. \A c \in Campaigns : MapOK(camp[c].sent, c, 0) /\ MapOK(camp[c].sent, c, 0 + 1)
    <2>1. \A c \in Campaigns : MapOK(camp[c].sent, c, 0)
      BY <1>5 DEF MapOK
    <2> QED
      BY <1>1, <2>1, MapLooser
  <1>7. restarts = 0
    BY DEF Init
  <1>8. \A c \in Campaigns : CampOK(c) /\ MapOK(camp[c].sent, c, restarts)
    BY <1>4, <1>6, <1>7 DEF CampOK
  <1> QED
    BY <1>1, <1>2, <1>3, <1>8, RestsOK DEF Inv

LEMMA InvStep ==
    ASSUME Serial, Inv, [Next]_vars
    PROVE  Inv'
  <1>1. Types /\ Types'
    BY TypesStep DEF Inv
  <1>2. ASSUME NEW ch \in Channels, Cycle(ch)
        PROVE  Inv'
    <2>1. ASSUME NEW l \in Leads, Skip(ch, l) \/ Accepted(ch, l) \/ Refused(ch, l)
          PROVE  Inv'
      BY <2>1, SerialSkip, SerialAccepted, SerialRefused
    <2>2. CASE ch = "wa" /\ (CloseEmpty \/ PauseAll \/ Health)
      BY <2>2, SerialSetAll, SerialHealth DEF CloseEmpty, PauseAll, Status, Channels
    <2>3. CASE UpdateGet(ch) \/ UpdatePut(ch)
      BY <2>3, SerialGet, SerialPut DEF Processes
    <2> QED
      BY <1>2, <2>1, <2>2, <2>3, SerialStart, SerialPick, SerialEnd DEF Cycle
  <1>3. ASSUME NEW q \in Slots, Call(q)
        PROVE  Inv'
    <2>1. CASE UpdateGet(q) \/ UpdatePut(q)
      BY <2>1, SerialGet, SerialPut DEF Processes
    <2>2. CASE \E c, status, sent : RouteOK(q, c, status, sent)
      BY <1>1, <2>2, SerialRoute
    <2> QED
      BY <1>1, <1>3, <2>1, <2>2, RoutesOK
  <1>4. CASE NextDay
    BY <1>1, <1>4, SerialNextDay DEF NextDay
  <1>5. CASE UNCHANGED vars
    BY <1>1, <1>5, SerialNextDay DEF vars
  <1> QED
    BY <1>1, <1>2, <1>3, <1>4, <1>5, SerialNoPhoto, SerialBounce, SerialRestart DEF Next

LEMMA SerialInvariant == Serial => (Spec => []Inv)
  <1> SUFFICES ASSUME Serial PROVE Spec => []Inv
    OBVIOUS
  <1>1. Inv /\ [Next]_vars => Inv'
    BY InvStep
  <1> QED
    BY <1>1, InitInv, PTL DEF Spec

LEMMA InvCounts == Inv => NoDuplicate
  <1> SUFFICES ASSUME Inv, NEW c \in Campaigns, NEW l \in Leads
               PROVE  /\ messages.em[c][l] <= 1 + restarts
                      /\ Cardinality({n \in 1..(messages.wa[c][l] - 1) : <<c, l, n>> \notin bounced})
                           <= restarts
    BY DEF NoDuplicate
  <1>1. Types /\ restarts \in Nat
    BY DEF Inv, Types
  <1>2. \E s : MapOK(s, c, restarts)
    <2>1. CASE MapOK(camp[c].sent, c, restarts)
      BY <2>1
    <2>2. ASSUME NEW p \in Processes, Holds(p, c)
          PROVE  \E s : MapOK(s, c, restarts)
      <3>1. CASE p \in Channels /\ runner[p].pc = "send" /\ runner[p].c = c
        BY <3>1 DEF Inv, RunnerOK
      <3>2. CASE update[p].phase # "none" /\ update[p].sent # Keep /\ update[p].c = c
        BY <3>2 DEF Inv, UpdateOK
      <3> QED
        BY <2>2, <3>1, <3>2 DEF Holds
    <2> QED
      BY <2>1, <2>2 DEF Inv
  <1>3. PICK s : EntryOK(s[l], c, l, restarts)
    BY <1>2 DEF MapOK
  <1>4. messages.em[c][l] <= 1 + restarts /\ Arrived(c, l, messages.wa[c][l] - 1) <= restarts
    BY <1>1, <1>3, EntryCounts
  <1> QED
    BY <1>4 DEF Arrived, ArrivedOf

(* A lead gets a second message of a broadcast only when the one before    *)
(* was not delivered or a restart forgot it.                               *)
THEOREM NobodyTwice == Serial => (Spec => []NoDuplicate)
  <1> SUFFICES ASSUME Serial PROVE Spec => []NoDuplicate
    OBVIOUS
  <1> QED
    BY SerialInvariant, InvCounts, PTL

(* A campaign that is done has nothing left in a queue.                    *)
THEOREM DoneIsDone == Serial => (Spec => []DoneHasNoQueue)
  <1> SUFFICES ASSUME Serial PROVE Spec => []DoneHasNoQueue
    OBVIOUS
  <1>1. Inv => DoneHasNoQueue
    BY DEF Inv, CampOK, DoneHasNoQueue, HasQueued, HasQueuedOn, NothingQueued
  <1> QED
    BY <1>1, SerialInvariant, PTL

-----------------------------------------------------------------------------
(* The daily cap.  What was sent stays so, with a day that does not go     *)
(* back, in every map that will be written, unless it was not delivered.   *)
Covers(s, t, c) ==
    \A l \in Leads : s[l].wa.st = "sent" =>
        \/ t[l].wa.st = "sent" /\ t[l].wa.day >= s[l].wa.day /\ t[l].wa.msg = s[l].wa.msg
        \/ <<c, l, s[l].wa.msg>> \in bounced

Dated(s) == \A l \in Leads : s[l].wa.day <= today

UpdateCovers(p) ==
    update[p].phase # "none" =>
        /\ Covers(camp[update[p].c].sent, MergedSent(update[p]), update[p].c)
        /\ Dated(MergedSent(update[p]))

RunnerCovers(ch) ==
    LET r == runner[ch] IN
    /\ r.pc = "send" => Covers(camp[r.c].sent, r.sent, r.c) /\ Dated(r.sent)
    /\ ch = "wa" /\ r.pc # "idle" => \A c \in r.todo : Uses(c, "wa")
    /\ ch = "wa" /\ r.pc = "send" => Uses(r.c, "wa")

CoverInv ==
    /\ \A c \in Campaigns : Dated(camp[c].sent)
    /\ \A p \in Processes : UpdateCovers(p)
    /\ \A ch \in Channels : RunnerCovers(ch)

LEMMA MapDays == \A s \in SentMap, l \in Leads : s[l].wa.day \in Int
BY BroadcastAssumption DEF SentMap, Entry, Channels

LEMMA CoversItself ==
    ASSUME NEW s \in SentMap
    PROVE  \A c : Covers(s, s, c)
BY MapDays DEF Covers

LEMMA FollowsCovers ==
    ASSUME Types, NEW s \in SentMap, NEW t, NEW c, MapFollows(s, t, c), Dated(s)
    PROVE  Covers(s, t, c) /\ Dated(t)
  <1>1. today \in Int
    BY BroadcastAssumption DEF Types, Days
  <1>2. \A l \in Leads : s[l].wa.day \in Int /\ s[l].wa.day <= today
    BY MapDays DEF Dated
  <1>3. ASSUME NEW l \in Leads
        PROVE  /\ t[l].wa.day >= s[l].wa.day /\ t[l].wa.day <= today
               /\ s[l].wa.st = "sent" =>
                    \/ t[l].wa.st = "sent" /\ t[l].wa.msg = s[l].wa.msg
                    \/ <<c, l, s[l].wa.msg>> \in bounced
    <2>1. Follows(s[l], t[l], c, l)
      BY DEF MapFollows
    <2>2. t[l].wa.day >= s[l].wa.day /\ t[l].wa.day <= today
      BY <1>1, <1>2, <2>1 DEF Follows
    <2> QED
      BY <2>1, <2>2 DEF Follows
  <1> QED
    BY <1>3 DEF Covers, Dated

(* A step of p that writes no campaign, while the others are at rest.      *)
LEMMA CoverPrepared ==
    ASSUME Serial, Inv, CoverInv, Inv', NEW p \in Processes, ~AtRest(p) \/ MayStart(p),
           \A o \in Processes \ {p} : update'[o] = update[o],
           \A ch \in Channels \ {p} : runner'[ch] = runner[ch],
           UNCHANGED <<camp, today, bounced>>,
           UpdateCovers(p)', p \in Channels => RunnerCovers(p)'
    PROVE  CoverInv'
  <1>1. \A o \in Processes \ {p} : AtRest(o)
    BY Others
  <1>2. \A o \in Processes \ {p} : UpdateCovers(o)'
    BY <1>1 DEF AtRest, UpdateCovers
  <1>3. \A ch \in Channels \ {p} : RunnerCovers(ch)'
    BY <1>1 DEF AtRest, RunnerCovers, Processes
  <1>4. \A c \in Campaigns : Dated(camp[c].sent)'
    BY DEF CoverInv, Dated
  <1> QED
    BY <1>2, <1>3, <1>4 DEF CoverInv

(* Without leads nothing is said.                                          *)
LEMMA NoLeadsCovered ==
    ASSUME Keep \in SentMap
    PROVE  \A s, t, c : Covers(s, t, c) /\ Dated(s)
  <1>1. Leads = {}
    BY DEF Keep, SentMap
  <1> QED
    BY <1>1 DEF Covers, Dated

LEMMA CoverGet ==
    ASSUME Serial, Inv, CoverInv, Inv', NEW p \in Processes, UpdateGet(p)
    PROVE  CoverInv'
  <1> DEFINE u == update[p]
  <1>1. Types /\ u \in UpdateRecord /\ u.phase = "get" /\ ~AtRest(p)
    <2>1. Types /\ Merging(u) /\ u.phase = "get"
      BY DEF Inv, Types, UpdateGet
    <2> QED
      BY <2>1 DEF Merging, NoUpdate, AtRest
  <1>2. PICK v : v = update'[p]
    OBVIOUS
  <1>3. v.c = u.c /\ v.c \in Campaigns /\ v.sent = MergedSent(u) /\ v.sent \in SentMap
    BY <1>1, <1>2 DEF UpdateGet, UpdateRecord, MergedSent, Types, Doc, SentMap
  <1>4. UNCHANGED <<camp, runner, today, bounced>> /\ \A o \in Processes \ {p} : update'[o] = update[o]
    BY <1>1 DEF UpdateGet, Types
  <1>5. Covers(camp[v.c].sent, v.sent, v.c) /\ Dated(v.sent) /\ Dated(camp[v.c].sent)
    BY <1>1, <1>3 DEF CoverInv, UpdateCovers
  <1>6. UpdateCovers(p)'
    <2>1. CASE v.sent = Keep
      <3>1. Leads = {}
        BY <1>3, <2>1 DEF Keep, SentMap
      <3> QED
        BY <3>1 DEF UpdateCovers, Covers, Dated
    <2>2. CASE v.sent # Keep
      BY <1>2, <1>4, <1>5, <2>2 DEF UpdateCovers, MergedSent, Covers, Dated
    <2> QED
      BY <2>1, <2>2
  <1>7. p \in Channels => RunnerCovers(p)'
    BY <1>4 DEF CoverInv, RunnerCovers, Covers, Dated
  <1> QED
    BY <1>1, <1>4, <1>6, <1>7, CoverPrepared

LEMMA CoverPut ==
    ASSUME Serial, Inv, CoverInv, Inv', NEW p \in Processes, UpdatePut(p)
    PROVE  CoverInv'
  <1> DEFINE u == update[p]
  <1>1. Types /\ u \in UpdateRecord /\ u.phase = "put" /\ u.sent \in SentMap /\ ~AtRest(p)
    <2>1. Types /\ Merging(u) /\ u.phase = "put"
      BY DEF Inv, Types, UpdatePut
    <2> QED
      BY <2>1 DEF Merging, NoUpdate, AtRest
  <1>2. \A o \in Processes \ {p} : AtRest(o)
    BY <1>1, Others
  <1>3. /\ update'[p] = NoUpdate /\ u.c \in Campaigns
        /\ UNCHANGED <<runner, today, bounced>>
        /\ \A o \in Processes \ {p} : update'[o] = update[o]
        /\ camp'[u.c].sent = u.sent /\ \A c \in Campaigns \ {u.c} : camp'[c] = camp[c]
    BY <1>1 DEF UpdatePut, UpdateRecord, Types
  <1>4. Dated(u.sent)
    <2>1. CASE u.sent = Keep
      BY <1>1, <2>1, NoLeadsCovered
    <2>2. CASE u.sent # Keep
      BY <1>1, <2>2 DEF CoverInv, UpdateCovers, MergedSent
    <2> QED
      BY <2>1, <2>2
  <1>5. \A c \in Campaigns : Dated(camp[c].sent)'
    BY <1>3, <1>4 DEF CoverInv, Dated
  <1>6. \A o \in Processes : UpdateCovers(o)'
    BY <1>2, <1>3 DEF AtRest, UpdateCovers, NoUpdate
  <1>7. \A ch \in Channels : runner[ch].pc # "send"
    BY <1>1, <1>2 DEF Inv, RunnerOK, AtRest, Processes
  <1>8. \A ch \in Channels : RunnerCovers(ch)'
    BY <1>3, <1>7 DEF CoverInv, RunnerCovers
  <1> QED
    BY <1>5, <1>6, <1>8 DEF CoverInv

LEMMA CoverMove ==
    ASSUME Serial, Inv, CoverInv, Inv', NEW ch \in Channels, ~AtRest(ch) \/ MayStart(ch),
           NEW r, Move(ch, r), UNCHANGED <<camp, today, bounced>>,
           \/ UNCHANGED update /\ update[ch].phase = "none"
           \/ \E c, status : c \in Campaigns /\ StartUpdate(ch, c, status, Keep),
           r.pc = "send" => /\ Covers(camp[r.c].sent, r.sent, r.c) /\ Dated(r.sent)
                            /\ ch = "wa" => Uses(r.c, "wa"),
           ch = "wa" /\ r.pc # "idle" => \A c \in r.todo : Uses(c, "wa")
    PROVE  CoverInv'
  <1>1. Types /\ ch \in Processes
    BY DEF Inv, Processes
  <1>2. runner'[ch] = r /\ \A o \in Channels \ {ch} : runner'[o] = runner[o]
    BY <1>1 DEF Move, Types
  <1>3. RunnerCovers(ch)'
    BY <1>2 DEF RunnerCovers, Covers, Dated
  <1>4. CASE UNCHANGED update /\ update[ch].phase = "none"
    <2>1. UpdateCovers(ch)'
      BY <1>4 DEF UpdateCovers
    <2> QED
      BY <1>1, <1>2, <1>3, <1>4, <2>1, CoverPrepared
  <1>5. ASSUME NEW c \in Campaigns, NEW status, StartUpdate(ch, c, status, Keep)
        PROVE  CoverInv'
    <2>1. PICK u : u = update'[ch]
      OBVIOUS
    <2>2. u.c = c /\ u.sent = Keep /\ \A o \in Processes \ {ch} : update'[o] = update[o]
      BY <1>1, <1>5, <2>1 DEF StartUpdate, Types
    <2>3. Covers(camp[c].sent, camp[c].sent, c) /\ Dated(camp[c].sent)
      BY <1>1, CoversItself DEF CoverInv, Types, Doc, SentMap
    <2>4. UpdateCovers(ch)'
      BY <2>1, <2>2, <2>3 DEF UpdateCovers, MergedSent, Covers, Dated
    <2> QED
      BY <1>1, <1>2, <1>3, <2>2, <2>4, CoverPrepared
  <1> QED
    BY <1>4, <1>5

LEMMA CoverStart ==
    ASSUME Serial, Inv, CoverInv, Inv', NEW ch \in Channels, StartCycle(ch)
    PROVE  CoverInv'
  <1>1. MayStart(ch) /\ UNCHANGED <<camp, update, today, bounced>> /\ update[ch].phase = "none"
    BY DEF StartCycle, MayStart, AtRest
  <1>2. PICK r : /\ Move(ch, r) /\ r.pc # "send"
                 /\ ch = "wa" => \A c \in r.todo : Uses(c, "wa")
    <2> DEFINE empty == {c \in Campaigns : /\ camp[c].status = "sending"
                                           /\ ~HasQueued(camp[c]) /\ Uses(c, ch)}
               r1 == [Idle EXCEPT !.pc = IF ch = "wa" THEN "health" ELSE "pick",
                                  !.docs = camp, !.todo = Active(ch),
                                  !.budget = PER_TICK[ch],
                                  !.used = IF ch = "wa" THEN SentToday(camp) ELSE 0]
               r2 == [Idle EXCEPT !.pc = "close", !.todo = empty]
    <2>1. r1.pc # "send" /\ r1.todo = Active(ch) /\ r2.pc # "send" /\ r2.todo = empty
      BY DEF Idle
    <2>2. ch = "wa" => \A c \in Active(ch) \cup empty : Uses(c, "wa")
      BY DEF Active
    <2>3. Move(ch, r1) \/ Move(ch, r2)
      BY DEF StartCycle
    <2> HIDE DEF r1, r2, empty
    <2> QED
      BY <2>1, <2>2, <2>3
  <1> QED
    BY <1>1, <1>2, CoverMove

LEMMA CoverSetAll ==
    ASSUME Serial, Inv, CoverInv, Inv', NEW ch \in Channels, NEW pc \in {"close", "danger"},
           NEW status \in Status, SetAll(ch, pc, status)
    PROVE  CoverInv'
  <1> DEFINE q == runner[ch]
  <1>1. /\ UNCHANGED <<camp, today, bounced>> /\ q.pc = pc /\ update[ch].phase = "none"
        /\ ~AtRest(ch) /\ DOMAIN q = Fields /\ q.todo \subseteq Campaigns
    BY DEF SetAll, Ready, AtRest, Inv, Types, InHand
  <1>2. CASE Move(ch, Idle) /\ UNCHANGED update
    BY <1>1, <1>2, CoverMove DEF Idle
  <1>3. ASSUME NEW c \in q.todo, Move(ch, [q EXCEPT !.todo = @ \ {c}]),
               StartUpdate(ch, c, status, Keep)
        PROVE  CoverInv'
    <2>1. PICK r : r = [q EXCEPT !.todo = @ \ {c}]
      OBVIOUS
    <2>2. r.pc = pc /\ r.todo = q.todo \ {c}
      BY <1>1, <2>1 DEF Fields
    <2>3. ch = "wa" => \A d \in r.todo : Uses(d, "wa")
      BY <1>1, <2>2 DEF CoverInv, RunnerCovers
    <2> QED
      BY <1>1, <1>3, <2>1, <2>2, <2>3, CoverMove
  <1> QED
    BY <1>2, <1>3 DEF SetAll

LEMMA CoverHealth ==
    ASSUME Serial, Inv, CoverInv, Inv', Health
    PROVE  CoverInv'
  <1> DEFINE q == runner["wa"]
  <1>1. /\ UNCHANGED <<camp, update, today, bounced>> /\ q.pc = "health"
        /\ update["wa"].phase = "none" /\ ~AtRest("wa") /\ DOMAIN q = Fields /\ "wa" \in Channels
    BY DEF Health, Ready, AtRest, Inv, Types, InHand, Channels
  <1>2. PICK r : Move("wa", r) /\ r.pc # "send" /\ r.todo = q.todo
    BY <1>1 DEF Health, Fields
  <1>3. \A c \in r.todo : Uses(c, "wa")
    BY <1>1, <1>2 DEF CoverInv, RunnerCovers
  <1> QED
    BY <1>1, <1>2, <1>3, CoverMove

LEMMA CoverPick ==
    ASSUME Serial, Inv, CoverInv, Inv', NEW ch \in Channels, PickCampaign(ch)
    PROVE  CoverInv'
  <1> DEFINE q == runner[ch]
  <1>1. /\ UNCHANGED <<camp, update, today, bounced>> /\ q.pc = "pick" /\ update[ch].phase = "none"
        /\ ~AtRest(ch) /\ DOMAIN q = Fields /\ q.todo \subseteq Campaigns /\ Types
    BY DEF PickCampaign, Ready, AtRest, Inv, Types, InHand
  <1>2. CASE Move(ch, Idle)
    BY <1>1, <1>2, CoverMove DEF Idle
  <1>3. ch = "wa" => \A d \in q.todo : Uses(d, "wa")
    BY <1>1 DEF CoverInv, RunnerCovers
  <1>4. ASSUME NEW c \in q.todo, Move(ch, [q EXCEPT !.todo = @ \ {c}])
        PROVE  CoverInv'
    <2>1. PICK r : r = [q EXCEPT !.todo = @ \ {c}]
      OBVIOUS
    <2>2. r.pc = "pick" /\ r.todo = q.todo \ {c}
      BY <1>1, <2>1 DEF Fields
    <2> QED
      BY <1>1, <1>3, <1>4, <2>1, <2>2, CoverMove
  <1>5. ASSUME NEW c \in q.todo, NEW w,
               Move(ch, [q EXCEPT !.pc = "send", !.todo = @ \ {c}, !.c = c,
                                  !.sent = q.docs[c].sent, !.queue = w,
                                  !.tries = 0, !.fails = 0])
        PROVE  CoverInv'
    <2>1. PICK r : r = [q EXCEPT !.pc = "send", !.todo = @ \ {c}, !.c = c,
                                 !.sent = q.docs[c].sent, !.queue = w, !.tries = 0, !.fails = 0]
      OBVIOUS
    <2>2. r.pc = "send" /\ r.todo = q.todo \ {c} /\ r.c = c /\ r.sent = q.docs[c].sent
      BY <1>1, <2>1 DEF Fields
    <2>3. q.docs[c] = camp[c] /\ c \in Campaigns
      BY <1>1 DEF Inv, RunnerOK
    <2>4. Covers(camp[c].sent, r.sent, c) /\ Dated(r.sent)
      BY <1>1, <2>2, <2>3, CoversItself DEF CoverInv, Types, Doc, SentMap
    <2> QED
      BY <1>1, <1>3, <1>5, <2>1, <2>2, <2>4, CoverMove
  <1> QED
    BY <1>2, <1>4, <1>5 DEF PickCampaign

LEMMA CoverNoPhoto ==
    ASSUME Serial, Inv, CoverInv, Inv', NEW c \in Campaigns, NoHeaderPhoto(c)
    PROVE  CoverInv'
  <1> DEFINE q == runner["wa"]
  <1>1. /\ UNCHANGED <<camp, today, bounced>> /\ q.pc = "pick" /\ "wa" \in Channels
        /\ update["wa"].phase = "none" /\ ~AtRest("wa") /\ DOMAIN q = Fields
        /\ Move("wa", [q EXCEPT !.todo = @ \ {c}])
        /\ UNCHANGED update \/ StartUpdate("wa", c, "paused", Keep)
    BY DEF NoHeaderPhoto, Ready, AtRest, Inv, Types, InHand, Channels
  <1>2. PICK r : r = [q EXCEPT !.todo = @ \ {c}]
    OBVIOUS
  <1>3. r.pc = "pick" /\ r.todo = q.todo \ {c}
    BY <1>1, <1>2 DEF Fields
  <1>4. \A d \in r.todo : Uses(d, "wa")
    BY <1>1, <1>3 DEF CoverInv, RunnerCovers
  <1> QED
    BY <1>1, <1>2, <1>3, <1>4, CoverMove

(* A batch goes on with a map that covers the one it had.                  *)
LEMMA CoversOn ==
    ASSUME NEW s \in SentMap, NEW t \in SentMap, NEW v \in SentMap, NEW c,
           Covers(s, t, c), Covers(t, v, c)
    PROVE  Covers(s, v, c)
BY MapDays DEF Covers

LEMMA CoverBatch ==
    ASSUME Serial, Inv, CoverInv, Inv', NEW ch \in Channels, Ready(ch, "send"),
           NEW r, Move(ch, r), UNCHANGED <<camp, update, today, bounced>>,
           r.pc = "send", r.c = runner[ch].c, r.todo = runner[ch].todo,
           r.sent \in SentMap, Covers(runner[ch].sent, r.sent, r.c), Dated(r.sent)
    PROVE  CoverInv'
  <1>1. PICK q : q = runner[ch]
    OBVIOUS
  <1>2. q.pc = "send" /\ update[ch].phase = "none" /\ ~AtRest(ch)
        /\ q.c \in Campaigns /\ q.sent \in SentMap /\ camp[q.c].sent \in SentMap
    BY <1>1 DEF Ready, AtRest, Inv, Types, InHand, Doc, SentMap
  <1>3. /\ Covers(camp[q.c].sent, q.sent, q.c)
        /\ ch = "wa" => Uses(q.c, "wa") /\ \A d \in q.todo : Uses(d, "wa")
    BY <1>1, <1>2 DEF CoverInv, RunnerCovers
  <1>4. Covers(camp[r.c].sent, r.sent, r.c)
    BY <1>1, <1>2, <1>3, CoversOn
  <1> QED
    BY <1>1, <1>2, <1>3, <1>4, CoverMove

LEMMA AsideCovers ==
    ASSUME Serial, Inv, CoverInv, NEW ch \in Channels, Ready(ch, "send"),
           NEW l \in runner[ch].queue, NEW st \in EntryStatus, st # "sent"
    PROVE  LET q == runner[ch]
               t == PutAside(q.sent, l, ch, st)
           IN  t \in SentMap /\ Covers(q.sent, t, q.c) /\ Dated(t)
  <1>1. PICK q : q = runner[ch]
    OBVIOUS
  <1>2. q.pc = "send" /\ q.sent \in SentMap /\ l \in Leads /\ Types
        /\ q.sent[l][ch].st = "queued" /\ Dated(q.sent)
    BY <1>1 DEF Ready, Inv, Types, InHand, RunnerOK, CoverInv, RunnerCovers
  <1>3. PICK t : t = PutAside(q.sent, l, ch, st)
    OBVIOUS
  <1>4. t \in SentMap /\ MapFollows(q.sent, t, q.c)
    BY <1>2, <1>3, SkippedMap, AsideFollows
  <1>5. Covers(q.sent, t, q.c) /\ Dated(t)
    BY <1>2, <1>4, FollowsCovers
  <1> QED
    BY <1>1, <1>3, <1>4, <1>5

LEMMA CoverSkip ==
    ASSUME Serial, Inv, CoverInv, Inv', NEW ch \in Channels, NEW l \in Leads, Skip(ch, l)
    PROVE  CoverInv'
  <1> DEFINE q == runner[ch]
             r == [q EXCEPT !.queue = @ \ {l}, !.sent[l][ch].st = "skipped",
                            !.sent[l][ch].at = @ \/ ch = "wa"]
  <1>1. /\ Ready(ch, "send") /\ l \in q.queue /\ Move(ch, r) /\ DOMAIN q = Fields
        /\ q.pc = "send" /\ UNCHANGED <<camp, update, today, bounced>>
    BY DEF Skip, Inv, Types, InHand, Ready
  <1>2. /\ r.pc = "send" /\ r.c = q.c /\ r.todo = q.todo
        /\ r.sent = PutAside(q.sent, l, ch, "skipped")
    BY <1>1 DEF Fields, PutAside
  <1>3. "skipped" \in EntryStatus
    BY DEF EntryStatus
  <1> HIDE DEF r
  <1>4. r.sent \in SentMap /\ Covers(q.sent, r.sent, r.c) /\ Dated(r.sent)
    BY <1>1, <1>2, <1>3, AsideCovers
  <1> QED
    BY <1>1, <1>2, <1>4, CoverBatch

LEMMA CoverRefused ==
    ASSUME Serial, Inv, CoverInv, Inv', NEW ch \in Channels, NEW l \in Leads, Refused(ch, l)
    PROVE  CoverInv'
  <1> DEFINE q == runner[ch]
             r == [q EXCEPT !.queue = @ \ {l}, !.budget = @ - 1, !.tries = @ + 1,
                            !.fails = @ + 1, !.sent[l][ch].st = "failed",
                            !.sent[l][ch].at = @ \/ ch = "wa"]
  <1>1. /\ Ready(ch, "send") /\ l \in q.queue /\ Move(ch, r) /\ DOMAIN q = Fields
        /\ q.pc = "send" /\ UNCHANGED <<camp, update, today, bounced>>
    BY DEF Refused, Inv, Types, InHand, Ready
  <1>2. /\ r.pc = "send" /\ r.c = q.c /\ r.todo = q.todo
        /\ r.sent = PutAside(q.sent, l, ch, "failed")
    BY <1>1 DEF Fields, PutAside
  <1>3. "failed" \in EntryStatus
    BY DEF EntryStatus
  <1> HIDE DEF r
  <1>4. r.sent \in SentMap /\ Covers(q.sent, r.sent, r.c) /\ Dated(r.sent)
    BY <1>1, <1>2, <1>3, AsideCovers
  <1> QED
    BY <1>1, <1>2, <1>4, CoverBatch

LEMMA SentCovers ==
    ASSUME Serial, Inv, CoverInv, NEW ch \in Channels, Ready(ch, "send"),
           NEW l \in runner[ch].queue, NEW m \in Nat
    PROVE  LET q == runner[ch]
               t == PutSent(q.sent, l, ch, today, m)
           IN  t \in SentMap /\ Covers(q.sent, t, q.c) /\ Dated(t)
  <1>1. PICK q : q = runner[ch]
    OBVIOUS
  <1>2. q.pc = "send" /\ q.sent \in SentMap /\ l \in Leads /\ Types /\ today \in 0..MaxDay
        /\ q.sent[l][ch].st = "queued" /\ Dated(q.sent)
    <2>1. q.pc = "send" /\ Types /\ RunnerOK(ch) /\ RunnerCovers(ch)
      BY <1>1 DEF Ready, Inv, CoverInv
    <2>2. today \in 0..MaxDay /\ InHand(ch, q)
      BY <1>1, <2>1, BroadcastAssumption DEF Types, Days
    <2> QED
      BY <1>1, <2>1, <2>2 DEF InHand, RunnerOK, RunnerCovers
  <1>3. PICK t : t = PutSent(q.sent, l, ch, today, m)
    OBVIOUS
  <1>4. t \in SentMap
    BY <1>2, <1>3, AcceptedMap
  <1>5. /\ \A k \in Leads \ {l} : t[k] = q.sent[k]
        /\ \A o \in Channels \ {ch} : t[l][o] = q.sent[l][o]
        /\ t[l][ch].st = "sent" /\ t[l][ch].day = today
    BY <1>2, <1>3, PutSentFacts
  <1>6. ch \in {"wa", "em"} /\ "wa" \in Channels /\ today \in Int
    BY <1>2 DEF Channels
  <1>7. Covers(q.sent, t, q.c)
    BY <1>2, <1>5, <1>6, MapDays DEF Covers
  <1>8. Dated(t)
    BY <1>2, <1>5, <1>6 DEF Dated
  <1> QED
    BY <1>1, <1>3, <1>4, <1>7, <1>8

LEMMA CoverAccepted ==
    ASSUME Serial, Inv, CoverInv, Inv', NEW ch \in Channels, NEW l \in Leads, Accepted(ch, l)
    PROVE  CoverInv'
  <1>1. PICK q : q = runner[ch]
    OBVIOUS
  <1>2. PICK m : m = messages[ch][q.c][l] + 1
    OBVIOUS
  <1> DEFINE r == [q EXCEPT !.queue = @ \ {l}, !.budget = @ - 1, !.used = @ + 1,
                            !.tries = @ + 1, !.sent[l][ch].st = "sent",
                            !.sent[l][ch].day = today, !.sent[l][ch].msg = m]
  <1>3. /\ Ready(ch, "send") /\ l \in q.queue /\ Move(ch, r)
        /\ UNCHANGED <<camp, update, today, bounced>>
    BY <1>1, <1>2 DEF Accepted
  <1>4. DOMAIN q = Fields /\ q.pc = "send" /\ q.c \in Campaigns
    BY <1>1, <1>3 DEF Ready, Inv, Types, InHand
  <1>5. m \in Nat
    BY <1>2, <1>4 DEF Inv, Types
  <1>6. r.pc = "send" /\ r.c = q.c /\ r.todo = q.todo /\ r.sent = PutSent(q.sent, l, ch, today, m)
    BY <1>4 DEF Fields, PutSent
  <1> HIDE DEF r
  <1>7. r.sent \in SentMap /\ Covers(q.sent, r.sent, r.c) /\ Dated(r.sent)
    BY <1>1, <1>3, <1>5, <1>6, SentCovers
  <1> QED
    BY <1>1, <1>3, <1>4, <1>6, <1>7, CoverBatch

(* An update that starts from a map that covers the stored one.            *)
LEMMA StartCovers ==
    ASSUME Types, NEW p \in Processes, NEW c \in Campaigns, NEW status, NEW sent,
           StartUpdate(p, c, status, sent), UNCHANGED <<camp, today, bounced>>,
           Dated(camp[c].sent),
           sent = Keep \/ (Covers(camp[c].sent, sent, c) /\ Dated(sent))
    PROVE  UpdateCovers(p)' /\ \A o \in Processes \ {p} : update'[o] = update[o]
  <1>1. PICK u : u = update'[p]
    OBVIOUS
  <1>2. u.c = c /\ u.sent = sent /\ \A o \in Processes \ {p} : update'[o] = update[o]
    BY <1>1 DEF StartUpdate, Types
  <1>3. PICK s : s = camp[c].sent
    OBVIOUS
  <1>4. Covers(s, s, c) /\ Dated(s)
    BY <1>3, CoversItself DEF Types, Doc, SentMap
  <1>5. PICK t : t = IF sent = Keep THEN s ELSE sent
    OBVIOUS
  <1>6. Covers(s, t, c) /\ Dated(t)
    BY <1>3, <1>4, <1>5
  <1>7. MergedSent(update[p])' = t /\ camp'[update'[p].c].sent = s /\ update'[p].c = c
    BY <1>1, <1>2, <1>3, <1>5 DEF MergedSent
  <1>8. UpdateCovers(p)'
    BY <1>6, <1>7 DEF UpdateCovers, Covers, Dated
  <1> QED
    BY <1>2, <1>8

LEMMA CoverEnd ==
    ASSUME Serial, Inv, CoverInv, Inv', NEW ch \in Channels, EndBatch(ch)
    PROVE  CoverInv'
  <1>1. PICK q : q = runner[ch]
    OBVIOUS
  <1> DEFINE r == [q EXCEPT !.pc = "pick", !.c = <<>>, !.sent = <<>>, !.tries = 0, !.fails = 0]
  <1>2. /\ Ready(ch, "send") /\ Move(ch, r) /\ StartUpdate(ch, q.c, StatusAfter(ch, q), q.sent)
        /\ UNCHANGED <<camp, today, bounced>>
    BY <1>1 DEF EndBatch
  <1>3. /\ DOMAIN q = Fields /\ q.pc = "send" /\ q.c \in Campaigns /\ ~AtRest(ch) /\ Types
        /\ ch \in Processes
    BY <1>1, <1>2 DEF Ready, Inv, Types, InHand, AtRest, Processes
  <1>4. r.pc = "pick" /\ r.todo = q.todo
    BY <1>3 DEF Fields
  <1> HIDE DEF r
  <1>5. runner'[ch] = r /\ \A o \in Channels \ {ch} : runner'[o] = runner[o]
    BY <1>2, <1>3 DEF Move, Types
  <1>6. RunnerCovers(ch)
    BY DEF CoverInv
  <1>7. RunnerCovers(ch)'
    BY <1>1, <1>3, <1>4, <1>5, <1>6 DEF RunnerCovers
  <1>8. Covers(camp[q.c].sent, q.sent, q.c) /\ Dated(q.sent) /\ Dated(camp[q.c].sent)
    BY <1>1, <1>3, <1>6 DEF RunnerCovers, CoverInv
  <1>9. UpdateCovers(ch)' /\ \A o \in Processes \ {ch} : update'[o] = update[o]
    BY <1>2, <1>3, <1>8, StartCovers
  <1> QED
    BY <1>2, <1>3, <1>5, <1>7, <1>9, CoverPrepared

LEMMA CoverRoute ==
    ASSUME Serial, Inv, CoverInv, Inv', NEW q \in Slots,
           NEW c, NEW status, NEW sent, RouteOK(q, c, status, sent)
    PROVE  CoverInv'
  <1>1. /\ Types /\ c \in Campaigns /\ MayStart(q) /\ StartUpdate(q, c, status, sent)
        /\ UNCHANGED <<camp, runner, today, bounced>> /\ q \in Processes /\ q \notin Channels
    <2>1. q \in Processes /\ q \notin Channels
      BY BroadcastAssumption DEF Processes, Channels
    <2> QED
      BY <2>1 DEF Inv, RouteOK, RouteStart, RouteUnchanged
  <1>2. camp[c].sent \in SentMap /\ Dated(camp[c].sent)
    BY <1>1 DEF CoverInv, Types, Doc, SentMap
  <1>3. sent = Keep \/ (Covers(camp[c].sent, sent, c) /\ Dated(sent))
    BY <1>1, <1>2, FollowsCovers DEF RouteOK
  <1>4. UpdateCovers(q)' /\ \A o \in Processes \ {q} : update'[o] = update[o]
    BY <1>1, <1>2, <1>3, StartCovers
  <1> QED
    BY <1>1, <1>4, CoverPrepared

(* What happens outside: a message bounces, a day passes.                  *)
LEMMA CoverLater ==
    ASSUME Inv, CoverInv, bounced \subseteq bounced', today \in Int, today' \in Int, today' >= today,
           UNCHANGED <<camp, update, runner>>
    PROVE  CoverInv'
  <1>1. \A s, t, c : Covers(s, t, c) => Covers(s, t, c)'
    BY DEF Covers
  <1>2. \A s \in SentMap : Dated(s) => Dated(s)'
    BY MapDays DEF Dated
  <1>3. Types
    BY DEF Inv
  <1>4. \A c \in Campaigns : camp[c].sent \in SentMap
    BY <1>3 DEF Types, Doc, SentMap
  <1>5. \A p \in Processes : update[p].phase # "none" => MergedSent(update[p]) \in SentMap
    <2>1. SUFFICES ASSUME NEW p \in Processes, update[p].phase # "none"
                   PROVE  MergedSent(update[p]) \in SentMap
      OBVIOUS
    <2>2. update[p] \in UpdateRecord
      BY <1>3, <2>1 DEF Types, Merging, NoUpdate
    <2> QED
      BY <1>4, <2>2 DEF MergedSent, UpdateRecord
  <1>6. \A ch \in Channels : runner[ch].pc = "send" => runner[ch].sent \in SentMap
    BY <1>3 DEF Types, InHand
  <1>7. \A c \in Campaigns : Dated(camp[c].sent)'
    BY <1>2, <1>4 DEF CoverInv
  <1>8. ASSUME NEW p \in Processes
        PROVE  UpdateCovers(p)'
    <2>1. MergedSent(update[p])' = MergedSent(update[p])
      BY DEF MergedSent
    <2> QED
      BY <1>1, <1>2, <1>5, <2>1 DEF CoverInv, UpdateCovers
  <1>9. \A ch \in Channels : RunnerCovers(ch)'
    BY <1>1, <1>2, <1>6 DEF CoverInv, RunnerCovers
  <1> QED
    BY <1>7, <1>8, <1>9 DEF CoverInv

LEMMA CoverRestart ==
    ASSUME CoverInv, Restart
    PROVE  CoverInv'
  <1>1. \A p \in Processes : UpdateCovers(p)'
    BY DEF Restart, UpdateCovers, NoUpdate
  <1>2. \A ch \in Channels : RunnerCovers(ch)'
    BY DEF Restart, RunnerCovers, Idle
  <1>3. \A c \in Campaigns : Dated(camp[c].sent)'
    BY DEF CoverInv, Dated, Restart
  <1> QED
    BY <1>1, <1>2, <1>3 DEF CoverInv

LEMMA InitCovers == Init => CoverInv
  <1> SUFFICES ASSUME Init PROVE CoverInv
    OBVIOUS
  <1>1. \A p \in Processes : UpdateCovers(p)
    BY DEF Init, UpdateCovers, NoUpdate
  <1>2. \A ch \in Channels : RunnerCovers(ch)
    BY DEF Init, RunnerCovers, Idle
  <1>3. \A c \in Campaigns, l \in Leads : camp[c].sent[l].wa.day = 0
    BY DEF Init, Channels, Queued, Blank
  <1>4. \A c \in Campaigns : Dated(camp[c].sent)
    BY <1>3, SMTT(20) DEF Dated, Init
  <1> QED
    BY <1>1, <1>2, <1>4 DEF CoverInv

LEMMA CoverStep ==
    ASSUME Serial, Inv, CoverInv, Inv', [Next]_vars
    PROVE  CoverInv'
  <1>1. Types /\ Types' /\ today \in Int /\ today' \in Int
    <2>1. Types /\ Types'
      BY DEF Inv
    <2>2. today \in Days /\ today' \in Days
      BY <2>1 DEF Types
    <2> QED
      BY <2>1, <2>2, BroadcastAssumption DEF Days
  <1>2. ASSUME NEW ch \in Channels, Cycle(ch)
        PROVE  CoverInv'
    <2>1. ASSUME NEW l \in Leads, Skip(ch, l) \/ Accepted(ch, l) \/ Refused(ch, l)
          PROVE  CoverInv'
      BY <2>1, CoverSkip, CoverAccepted, CoverRefused
    <2>2. CASE ch = "wa" /\ (CloseEmpty \/ PauseAll \/ Health)
      BY <2>2, CoverSetAll, CoverHealth DEF CloseEmpty, PauseAll, Status, Channels
    <2>3. CASE UpdateGet(ch) \/ UpdatePut(ch)
      BY <2>3, CoverGet, CoverPut DEF Processes
    <2> QED
      BY <1>2, <2>1, <2>2, <2>3, CoverStart, CoverPick, CoverEnd DEF Cycle
  <1>3. ASSUME NEW q \in Slots, Call(q)
        PROVE  CoverInv'
    <2>1. CASE UpdateGet(q) \/ UpdatePut(q)
      BY <2>1, CoverGet, CoverPut DEF Processes
    <2>2. CASE \E c, status, sent : RouteOK(q, c, status, sent)
      BY <2>2, CoverRoute
    <2> QED
      BY <1>1, <1>3, <2>1, <2>2, RoutesOK
  <1>4. ASSUME NEW c \in Campaigns, NEW l \in Leads, Bounce(c, l)
        PROVE  CoverInv'
    <2>1. bounced \subseteq bounced' /\ today' = today /\ UNCHANGED <<camp, update, runner>>
      BY <1>4 DEF Bounce
    <2> QED
      BY <1>1, <2>1, CoverLater
  <1>5. CASE NextDay
    <2>1. bounced' = bounced /\ today' = today + 1 /\ UNCHANGED <<camp, update, runner>>
      BY <1>5 DEF NextDay
    <2> QED
      BY <1>1, <2>1, CoverLater
  <1>6. CASE UNCHANGED vars
    BY <1>1, <1>6, CoverLater DEF vars
  <1> QED
    BY <1>2, <1>3, <1>4, <1>5, <1>6, CoverNoPhoto, CoverRestart DEF Next

LEMMA CoverInvariant == Serial => (Spec => [](Inv /\ CoverInv))
  <1> SUFFICES ASSUME Serial PROVE Spec => [](Inv /\ CoverInv)
    OBVIOUS
  <1>1. Inv /\ CoverInv /\ [Next]_vars => (Inv /\ CoverInv)'
    BY InvStep, CoverStep
  <1>2. Init => Inv /\ CoverInv
    BY InitInv, InitCovers
  <1> QED
    BY <1>1, <1>2, PTL DEF Spec

-----------------------------------------------------------------------------
(* The messages of today that the maps know, each as <<campaign, lead,     *)
(* number>>.                                                               *)
Counts(s, l, n) == s[l].wa.st = "sent" /\ s[l].wa.day = today /\ s[l].wa.msg = n

Counted(f) ==
    {x \in Campaigns \X Leads \X Nat : Uses(x[1], "wa") /\ Counts(f[x[1]], x[2], x[3])}

Stored == [c \in Campaigns |-> camp[c].sent]

(* The newest map of a campaign: the one of the batch, the one on its way  *)
(* to the campaign, or the stored one.                                     *)
Latest(c) ==
    IF runner["wa"].pc = "send" /\ runner["wa"].c = c THEN runner["wa"].sent
    ELSE IF update["wa"].phase # "none" /\ update["wa"].c = c THEN MergedSent(update["wa"])
    ELSE camp[c].sent

Newest == [c \in Campaigns |-> Latest(c)]

(* The messages of today known or known to have bounced.                   *)
Size(S) == Cardinality(S \cup bounced)

(* The cap's own count of a list of maps is no smaller.                    *)
Listed(f) ==
    {x \in Campaigns \X Leads :
        LET e == f[x[1]][x[2]].wa
        IN  Uses(x[1], "wa") /\ e.day = today /\ e.st \notin {"none", "queued"}}

LEMMA CountedListed ==
    ASSUME NEW f
    PROVE  /\ IsFiniteSet(Counted(f)) /\ Cardinality(Counted(f)) \in Nat
           /\ Cardinality(Counted(f)) <= Cardinality(Listed(f)) /\ Cardinality(Listed(f)) \in Nat
  <1>1. PICK S : S = Counted(f)
    OBVIOUS
  <1>2. PICK T : T = Listed(f)
    OBVIOUS
  <1>3. IsFiniteSet(T) /\ Cardinality(T) \in Nat
    BY <1>2, CountedFinite DEF Listed
  <1> DEFINE g == [x \in S |-> <<x[1], x[2]>>]
  <1>4. \A x \in S : <<x[1], x[2]>> \in T
    BY <1>1, <1>2 DEF Counted, Counts, Listed
  <1>5. \A x, y \in S : <<x[1], x[2]>> = <<y[1], y[2]>> => x = y
    BY <1>1 DEF Counted, Counts
  <1>6. g \in Injection(S, T)
    BY <1>4, <1>5 DEF Injection, IsInjective
  <1> HIDE DEF g
  <1>7. IsFiniteSet(S) /\ Cardinality(S) <= Cardinality(T)
    BY <1>3, <1>6, FS_Injection
  <1>8. Cardinality(S) \in Nat
    BY <1>7, FS_CardinalityType
  <1> QED
    BY <1>1, <1>2, <1>3, <1>7, <1>8

LEMMA SizeFacts ==
    ASSUME IsFiniteSet(bounced), NEW f
    PROVE  /\ Cardinality(bounced) \in Nat /\ Size(Counted(f)) \in Nat
           /\ IsFiniteSet(Counted(f) \cup bounced)
           /\ Size(Counted(f)) <= Cardinality(Counted(f)) + Cardinality(bounced)
           /\ Cardinality(Counted(f)) \in Nat
  <1>1. PICK S : S = Counted(f)
    OBVIOUS
  <1>2. IsFiniteSet(S) /\ Cardinality(S) \in Nat /\ Cardinality(bounced) \in Nat
    BY <1>1, CountedListed, FS_CardinalityType
  <1>3. IsFiniteSet(S \cap bounced)
    BY <1>2, FS_Subset
  <1>4. Cardinality(S \cap bounced) \in Nat
    BY <1>3, FS_CardinalityType
  <1>5. /\ IsFiniteSet(S \cup bounced)
        /\ Cardinality(S \cup bounced) = Cardinality(S) + Cardinality(bounced) - Cardinality(S \cap bounced)
    BY <1>2, FS_Union
  <1>6. Cardinality(S \cup bounced) \in Nat
    BY <1>5, FS_CardinalityType
  <1> QED
    BY <1>1, <1>2, <1>4, <1>5, <1>6 DEF Size

LatestOK == \A c \in Campaigns : Latest(c) \in SentMap /\ Dated(Latest(c))

SizesOK == IsFiniteSet(bounced) =>
    Size(Counted(Newest)) \in Nat /\ Size(Counted(Stored)) \in Nat

Known == Inv /\ CoverInv /\ LatestOK /\ SizesOK

LEMMA LatestKnown == Inv /\ CoverInv => Known
  <1> SUFFICES ASSUME Inv, CoverInv, NEW c \in Campaigns
               PROVE  Latest(c) \in SentMap /\ Dated(Latest(c))
    BY SizeFacts DEF Known, LatestOK, SizesOK
  <1>1. "wa" \in Channels /\ "wa" \in Processes /\ Types
    BY DEF Channels, Processes, Inv
  <1>2. camp[c].sent \in SentMap /\ Dated(camp[c].sent)
    BY <1>1 DEF CoverInv, Types, Doc, SentMap
  <1>3. CASE runner["wa"].pc = "send" /\ runner["wa"].c = c
    BY <1>1, <1>3 DEF Latest, CoverInv, RunnerCovers, Types, InHand
  <1>4. ASSUME update["wa"].phase # "none", update["wa"].c = c
        PROVE  MergedSent(update["wa"]) \in SentMap /\ Dated(MergedSent(update["wa"]))
    <2>1. update["wa"] \in UpdateRecord
      BY <1>1, <1>4 DEF Types, Merging, NoUpdate
    <2>2. MergedSent(update["wa"]) \in SentMap
      BY <1>2, <1>4, <2>1 DEF MergedSent, UpdateRecord
    <2> QED
      BY <1>1, <1>4, <2>2 DEF CoverInv, UpdateCovers
  <1> QED
    BY <1>2, <1>3, <1>4 DEF Latest

LEMMA KnownInvariant == Serial => (Spec => []Known)
  <1> SUFFICES ASSUME Serial PROVE Spec => []Known
    OBVIOUS
  <1> QED
    BY CoverInvariant, LatestKnown, PTL

LEMMA SentTodayCounts ==
    ASSUME Types
    PROVE  SentToday(camp) \in Nat /\ Cardinality(Counted(Stored)) <= SentToday(camp)
  <1>1. SentToday(camp) = Cardinality(Listed(Stored))
    BY DEF SentToday, Listed, Stored
  <1> QED
    BY <1>1, CountedListed

(* Nothing counted is lost by a list that covers another.                  *)
LEMMA CountedCovered ==
    ASSUME today \in Int, NEW f, NEW g \in [Campaigns -> SentMap],
           \A c \in Campaigns : Covers(f[c], g[c], c) /\ Dated(g[c])
    PROVE  Counted(f) \subseteq Counted(g) \cup bounced
  <1> SUFFICES ASSUME NEW x \in Counted(f), x \notin bounced
               PROVE  x \in Counted(g)
    OBVIOUS
  <1>1. /\ x \in Campaigns \X Leads \X Nat /\ Uses(x[1], "wa")
        /\ f[x[1]][x[2]].wa.st = "sent" /\ f[x[1]][x[2]].wa.day = today
        /\ f[x[1]][x[2]].wa.msg = x[3]
    BY DEF Counted, Counts
  <1>2. PICK c \in Campaigns : c = x[1]
    BY <1>1
  <1>3. PICK l \in Leads : l = x[2]
    BY <1>1
  <1>4. <<c, l, x[3]>> = x
    BY <1>1, <1>2, <1>3
  <1>5. g[c][l].wa.st = "sent" /\ g[c][l].wa.day >= today /\ g[c][l].wa.msg = x[3]
    BY <1>1, <1>2, <1>3, <1>4 DEF Covers
  <1>6. g[c][l].wa.day <= today /\ g[c][l].wa.day \in Int
    BY MapDays DEF Dated
  <1>7. g[c][l].wa.day = today
    BY <1>5, <1>6
  <1> QED
    BY <1>1, <1>2, <1>3, <1>5, <1>7 DEF Counted, Counts

-----------------------------------------------------------------------------
(* The cap.  A restart forgets at most a batch.                            *)
Forgotten == restarts * PER_TICK["wa"]
Sending == {"health", "pick", "send"}

BouncedOK == IsFiniteSet(bounced) /\ \A x \in bounced : x[3] <= messages.wa[x[1]][x[2]]

CapInv ==
    LET r == runner["wa"] IN
    /\ BouncedOK
    /\ sentOn[today] <= Size(Counted(Newest)) + Forgotten
    /\ r.pc # "idle" =>
         sentOn[today] <= Size(Counted(Stored)) + Forgotten + PER_TICK["wa"] - r.budget
    /\ r.pc \in Sending => sentOn[today] <= r.used + Forgotten + Cardinality(bounced)
    /\ r.pc = "send" /\ r.queue # {} => r.used + Cardinality(r.queue) <= CAP
    /\ \A d \in Days : /\ sentOn[d] <= CAP + Forgotten + Cardinality(bounced)
                       /\ d > today => sentOn[d] = 0

LEMMA CapNumbers ==
    ASSUME Types
    PROVE  /\ PER_TICK["wa"] \in Nat /\ restarts \in Nat /\ Forgotten \in Nat /\ CAP \in Nat
           /\ today \in Days /\ today \in Int /\ \A d \in Days : sentOn[d] \in Nat /\ d \in Int
           /\ runner["wa"].budget \in Nat /\ runner["wa"].budget <= PER_TICK["wa"]
           /\ runner["wa"].used \in Nat
           /\ Cardinality(runner["wa"].queue) \in Nat /\ IsFiniteSet(runner["wa"].queue)
  <1>1. PER_TICK["wa"] \in Nat /\ CAP \in Nat /\ MaxDay \in Nat /\ restarts \in Nat
    BY BroadcastAssumption DEF Types
  <1>2. \A a, b \in Nat : a * b \in Nat
    OBVIOUS
  <1>3. Forgotten \in Nat
    BY <1>1, <1>2 DEF Forgotten
  <1>4. today \in Days /\ today \in Int /\ \A d \in Days : sentOn[d] \in Nat /\ d \in Int
    BY <1>1 DEF Types, Days
  <1>5. InHand("wa", runner["wa"])
    BY DEF Types, Channels
  <1>6. Cardinality(runner["wa"].queue) \in Nat /\ IsFiniteSet(runner["wa"].queue)
    BY <1>5, LeadsFinite DEF InHand
  <1> QED
    BY <1>1, <1>3, <1>4, <1>5, <1>6 DEF InHand

(* A step after which every map covers what it was.                        *)
Carried == \A c \in Campaigns : /\ Covers(Latest(c), Latest(c)', c)
                                /\ Covers(camp[c].sent, camp'[c].sent, c)

LEMMA CarriedSets ==
    ASSUME Known, Known', today' = today, Carried
    PROVE  /\ Counted(Newest) \subseteq Counted(Newest)' \cup bounced
           /\ Counted(Stored) \subseteq Counted(Stored)' \cup bounced
  <1>1. today \in Int /\ Types /\ Types'
    BY CapNumbers DEF Known, Inv
  <1>2. Counted(Newest) \subseteq Counted(Newest') \cup bounced
    <2>1. PICK g : g = Newest'
      OBVIOUS
    <2>2. g \in [Campaigns -> SentMap] /\ \A c \in Campaigns : g[c] = Latest(c)' /\ Dated(g[c])
      BY <2>1 DEF Newest, Known, LatestOK, Dated
    <2>3. \A c \in Campaigns : Covers(Newest[c], g[c], c) /\ Dated(g[c])
      BY <2>2 DEF Newest, Carried
    <2> QED
      BY <1>1, <2>1, <2>2, <2>3, CountedCovered
  <1>3. Counted(Stored) \subseteq Counted(Stored') \cup bounced
    <2>1. PICK g : g = Stored'
      OBVIOUS
    <2>2. \A c \in Campaigns : g[c] = camp'[c].sent /\ g[c] \in SentMap /\ Dated(g[c])
      BY <1>1, <2>1 DEF Stored, Known, CoverInv, Dated, Types, Doc, SentMap
    <2>3. g \in [Campaigns -> SentMap]
      BY <2>1, <2>2 DEF Stored
    <2>4. \A c \in Campaigns : Covers(Stored[c], g[c], c) /\ Dated(g[c])
      BY <2>2 DEF Stored, Carried
    <2> QED
      BY <1>1, <2>1, <2>3, <2>4, CountedCovered
  <1>4. Counted(Newest)' = Counted(Newest') /\ Counted(Stored)' = Counted(Stored')
    BY DEF Counted, Counts
  <1> QED
    BY <1>2, <1>3, <1>4

LEMMA NothingLost ==
    ASSUME Known, Known', today' = today, bounced \subseteq bounced', BouncedOK', Carried
    PROVE  /\ Size(Counted(Newest)) <= Size(Counted(Newest))'
           /\ Size(Counted(Stored)) <= Size(Counted(Stored))'
  <1>1. PICK b : b = bounced'
    OBVIOUS
  <1>2. IsFiniteSet(b) /\ bounced \subseteq b
    BY <1>1 DEF BouncedOK
  <1>3. ASSUME NEW f, NEW g, Counted(f) \subseteq Counted(g) \cup bounced
        PROVE  Cardinality(Counted(f) \cup bounced) <= Cardinality(Counted(g) \cup b)
    <2>1. IsFiniteSet(Counted(g) \cup b)
      BY <1>2, CountedListed, FS_Union
    <2>2. Counted(f) \cup bounced \subseteq Counted(g) \cup b
      BY <1>2, <1>3
    <2> QED
      BY <2>1, <2>2, FS_Subset
  <1>4. /\ Counted(Newest) \subseteq Counted(Newest') \cup bounced
        /\ Counted(Stored) \subseteq Counted(Stored') \cup bounced
        /\ Counted(Newest)' = Counted(Newest') /\ Counted(Stored)' = Counted(Stored')
    BY CarriedSets DEF Counted, Counts
  <1> QED
    BY <1>1, <1>3, <1>4 DEF Size

(* What the cycle makes of its allowance.                                  *)
GoesOn(q, r) ==
    /\ r.pc # "idle" => Newest = Stored \/ (q.pc # "idle" /\ r.budget <= q.budget)
    /\ r.pc \in Sending => \/ Newest = Stored /\ r.used = SentToday(camp)
                           \/ q.pc \in Sending /\ r.used = q.used
    /\ r.pc = "send" /\ r.queue # {} => r.used + Cardinality(r.queue) <= CAP

LEMMA CapKept ==
    ASSUME Known, Known', CapInv, UNCHANGED <<today, sentOn, restarts>>,
           bounced \subseteq bounced', BouncedOK', Carried, GoesOn(runner["wa"], runner'["wa"])
    PROVE  CapInv'
  <1>1. Types /\ Types'
    BY DEF Known, Inv
  <1>2. PICK q : q = runner["wa"]
    OBVIOUS
  <1>3. PICK r : r = runner'["wa"]
    OBVIOUS
  <1>4. PICK n : n = sentOn[today]
    OBVIOUS
  <1>5. PICK k : k = Forgotten
    OBVIOUS
  <1>6. PICK t : t = PER_TICK["wa"]
    OBVIOUS
  <1>7. /\ n \in Nat /\ k \in Nat /\ t \in Nat /\ CAP \in Nat
        /\ q.budget \in Nat /\ q.budget <= t /\ q.used \in Nat
        /\ \A d \in Days : sentOn[d] \in Nat
    BY <1>1, <1>2, <1>4, <1>5, <1>6, CapNumbers
  <1>8. r.budget \in Nat /\ r.budget <= t /\ r.used \in Nat
    <2>1. InHand("wa", r)
      BY <1>1, <1>3 DEF Types, Channels
    <2> QED
      BY <2>1, <1>6 DEF InHand
  <1>9. PICK b : b = Cardinality(bounced)
    OBVIOUS
  <1>10. PICK bb : bb = Cardinality(bounced')
    OBVIOUS
  <1>11. b \in Nat /\ bb \in Nat /\ b <= bb /\ IsFiniteSet(bounced)
    <2>1. IsFiniteSet(bounced) /\ IsFiniteSet(bounced')
      BY DEF CapInv, BouncedOK
    <2> QED
      BY <2>1, <1>9, <1>10, FS_Subset, FS_CardinalityType
  <1>12. PICK new : new = Size(Counted(Newest))
    OBVIOUS
  <1>13. PICK old : old = Size(Counted(Stored))
    OBVIOUS
  <1>14. PICK anew : anew = Size(Counted(Newest))'
    OBVIOUS
  <1>15. PICK aold : aold = Size(Counted(Stored))'
    OBVIOUS
  <1>16. new \in Nat /\ old \in Nat /\ new <= anew /\ old <= aold
    BY <1>11, <1>12, <1>13, <1>14, <1>15, SizeFacts, NothingLost
  <1>17. anew \in Nat /\ aold \in Nat
    BY <1>14, <1>15 DEF Known, SizesOK, BouncedOK
  <1>18. SentToday(camp) \in Nat /\ old <= SentToday(camp) + b
    <2>1. PICK z : z = Cardinality(Counted(Stored))
      OBVIOUS
    <2>2. z \in Nat /\ old <= z + b
      BY <1>9, <1>11, <1>13, <2>1, SizeFacts
    <2>3. SentToday(camp) \in Nat /\ z <= SentToday(camp)
      BY <1>1, <2>1, SentTodayCounts
    <2> QED
      BY <1>11, <1>16, <2>2, <2>3
  <1>19. n <= new + k
    BY <1>4, <1>5, <1>12 DEF CapInv
  <1>20. n <= anew + k
    BY <1>7, <1>16, <1>17, <1>19
  <1>21. r.pc # "idle" => n <= aold + k + t - r.budget
    <2>1. CASE Newest = Stored
      BY <1>7, <1>8, <1>12, <1>13, <1>16, <1>17, <1>19, <2>1
    <2>2. CASE q.pc # "idle" /\ r.budget <= q.budget
      <3>1. n <= old + k + t - q.budget
        BY <1>2, <1>4, <1>5, <1>6, <1>13, <2>2 DEF CapInv
      <3> QED
        BY <1>7, <1>8, <1>16, <1>17, <2>2, <3>1
    <2> QED
      BY <1>2, <1>3, <2>1, <2>2 DEF GoesOn
  <1>22. r.pc \in Sending => n <= r.used + k + bb
    <2>1. CASE Newest = Stored /\ r.used = SentToday(camp)
      BY <1>7, <1>8, <1>11, <1>12, <1>13, <1>16, <1>18, <1>19, <2>1
    <2>2. CASE q.pc \in Sending /\ r.used = q.used
      <3>1. n <= q.used + k + b
        BY <1>2, <1>4, <1>5, <1>9, <2>2 DEF CapInv
      <3> QED
        BY <1>7, <1>8, <1>11, <2>2, <3>1
    <2> QED
      BY <1>2, <1>3, <2>1, <2>2 DEF GoesOn
  <1>23. r.pc = "send" /\ r.queue # {} => r.used + Cardinality(r.queue) <= CAP
    BY <1>3 DEF GoesOn
  <1>24. \A d \in Days : sentOn[d] <= CAP + k + bb /\ (d > today => sentOn[d] = 0)
    <2>1. \A d \in Days : sentOn[d] <= CAP + k + b /\ (d > today => sentOn[d] = 0)
      BY <1>5, <1>9 DEF CapInv
    <2> QED
      BY <1>7, <1>11, <2>1
  <1>25. Forgotten' = k /\ sentOn'[today'] = n /\ sentOn' = sentOn /\ today' = today
    BY <1>4, <1>5 DEF Forgotten
  <1> QED
    BY <1>3, <1>6, <1>10, <1>14, <1>15, <1>20, <1>21, <1>22, <1>23, <1>24, <1>25 DEF CapInv

LEMMA BouncedStays ==
    ASSUME BouncedOK, bounced' = bounced, messages'.wa = messages.wa
    PROVE  BouncedOK'
BY DEF BouncedOK

LEMMA KnownMaps ==
    ASSUME Known
    PROVE  /\ Types /\ \A c \in Campaigns :
                /\ Latest(c) \in SentMap /\ Covers(Latest(c), Latest(c), c)
                /\ camp[c].sent \in SentMap /\ Covers(camp[c].sent, camp[c].sent, c)
  <1>1. Types
    BY DEF Known, Inv
  <1>2. \A c \in Campaigns : Latest(c) \in SentMap /\ camp[c].sent \in SentMap
    BY <1>1 DEF Known, LatestOK, Types, Doc, SentMap
  <1> QED
    BY <1>1, <1>2, CoversItself

LEMMA SameCycle ==
    ASSUME Known, CapInv
    PROVE  GoesOn(runner["wa"], runner["wa"])
  <1>1. runner["wa"].budget \in Nat
    BY CapNumbers DEF Known, Inv
  <1> QED
    BY <1>1 DEF GoesOn, CapInv

(* A step that is not the WhatsApp runner's and writes no campaign.        *)
LEMMA CapAside ==
    ASSUME Known, Known', CapInv, UNCHANGED <<camp, today, sentOn, restarts>>,
           update'["wa"] = update["wa"], runner'["wa"] = runner["wa"],
           bounced \subseteq bounced', BouncedOK'
    PROVE  CapInv'
  <1>1. \A c : Latest(c)' = Latest(c)
    BY DEF Latest, MergedSent
  <1>2. Carried
    BY <1>1, KnownMaps DEF Carried
  <1>3. GoesOn(runner["wa"], runner'["wa"])
    BY SameCycle
  <1> QED
    BY <1>2, <1>3, CapKept

LEMMA CapGet ==
    ASSUME Serial, Known, Known', CapInv, NEW p \in Processes, UpdateGet(p)
    PROVE  CapInv'
  <1>1. PICK u : u = update[p]
    OBVIOUS
  <1>2. Types /\ Types' /\ u \in UpdateRecord /\ u.phase = "get" /\ CapInv /\ BouncedOK
    <2>1. Types /\ Types' /\ Merging(u) /\ u.phase = "get"
      BY <1>1 DEF Known, Inv, Types, UpdateGet
    <2> QED
      BY <2>1 DEF Merging, NoUpdate, CapInv
  <1>3. UNCHANGED <<camp, runner, today, messages, sentOn, bounced, restarts>>
        /\ \A o \in Processes \ {p} : update'[o] = update[o]
    BY <1>2 DEF UpdateGet, Types
  <1>4. BouncedOK'
    BY <1>2, <1>3, BouncedStays
  <1>5. CASE p # "wa"
    <2>1. update'["wa"] = update["wa"]
      BY <1>3, <1>5 DEF Processes, Channels
    <2> QED
      BY <1>3, <1>4, <2>1, CapAside
  <1>6. CASE p = "wa"
    <2>1. PICK v : v = update'["wa"]
      OBVIOUS
    <2>2. v.phase = "put" /\ v.c = u.c /\ v.sent = MergedSent(u) /\ u.c \in Campaigns
      BY <1>1, <1>2, <1>6, <2>1 DEF UpdateGet, UpdateRecord, MergedSent, Types
    <2>3. v.sent \in SentMap
      <3>1. Merging(v)
        BY <1>2, <1>6, <2>1 DEF Types
      <3> QED
        BY <2>2, <3>1 DEF Merging, NoUpdate
    <2>4. CASE v.sent = Keep
      <3>1. \A s, t, c : Covers(s, t, c)
        BY <2>3, <2>4, NoLeadsCovered
      <3>2. Carried
        BY <3>1 DEF Carried
      <3>3. GoesOn(runner["wa"], runner'["wa"])
        BY <1>3, SameCycle
      <3> QED
        BY <1>3, <1>4, <3>2, <3>3, CapKept
    <2>5. CASE v.sent # Keep
      <3>1. MergedSent(v)' = MergedSent(u)
        BY <2>2, <2>5 DEF MergedSent
      <3>2. \A c : Latest(c)' = Latest(c)
        BY <1>1, <1>2, <1>3, <1>6, <2>1, <2>2, <3>1 DEF Latest
      <3>3. Carried
        BY <1>3, <3>2, KnownMaps DEF Carried
      <3>4. GoesOn(runner["wa"], runner'["wa"])
        BY <1>3, SameCycle
      <3> QED
        BY <1>3, <1>4, <3>3, <3>4, CapKept
    <2> QED
      BY <2>4, <2>5
  <1> QED
    BY <1>5, <1>6

LEMMA CapPut ==
    ASSUME Serial, Known, Known', CapInv, NEW p \in Processes, UpdatePut(p)
    PROVE  CapInv'
  <1>1. PICK u : u = update[p]
    OBVIOUS
  <1>2. Types /\ Inv /\ u \in UpdateRecord /\ u.phase = "put" /\ u.sent \in SentMap /\ ~AtRest(p)
    <2>1. Types /\ Inv /\ Merging(u) /\ u.phase = "put"
      BY <1>1 DEF Known, Inv, Types, UpdatePut
    <2> QED
      BY <1>1, <2>1 DEF Merging, NoUpdate, AtRest
  <1>3. \A o \in Processes \ {p} : AtRest(o)
    BY <1>2, Others
  <1>4. /\ update'[p] = NoUpdate /\ u.c \in Campaigns
        /\ UNCHANGED <<runner, today, messages, sentOn, bounced, restarts>>
        /\ \A o \in Processes \ {p} : update'[o] = update[o]
        /\ camp'[u.c].sent = u.sent /\ \A c \in Campaigns \ {u.c} : camp'[c] = camp[c]
    BY <1>1, <1>2 DEF UpdatePut, UpdateRecord, Types
  <1>5. BouncedOK /\ "wa" \in Channels /\ "wa" \in Processes
    BY DEF CapInv, Channels, Processes
  <1>6. runner["wa"].pc # "send"
    BY <1>1, <1>2, <1>3, <1>5 DEF Inv, RunnerOK, AtRest
  <1>7. update'["wa"].phase = "none"
    BY <1>3, <1>4, <1>5 DEF AtRest, NoUpdate
  <1>8. \A c \in Campaigns : Latest(c)' = camp'[c].sent
    BY <1>4, <1>6, <1>7 DEF Latest
  <1>9. u.sent = Keep \/ MergedSent(u) = u.sent
    BY DEF MergedSent
  <1>10. Covers(camp[u.c].sent, u.sent, u.c)
    <2>1. CASE u.sent = Keep
      BY <1>2, <2>1, NoLeadsCovered
    <2>2. CASE u.sent # Keep
      BY <1>1, <1>2, <1>9, <2>2 DEF Known, CoverInv, UpdateCovers
    <2> QED
      BY <2>1, <2>2
  <1>11. ASSUME NEW c \in Campaigns
         PROVE  Covers(Latest(c), Latest(c)', c) /\ Covers(camp[c].sent, camp'[c].sent, c)
    <2>1. CASE c # u.c
      <3>1. Latest(c) = camp[c].sent
        <4>1. p = "wa" \/ update["wa"].phase = "none"
          BY <1>3, <1>5 DEF AtRest
        <4> QED
          BY <1>1, <1>6, <2>1, <4>1 DEF Latest
      <3> QED
        BY <1>4, <1>8, <2>1, <3>1, KnownMaps
    <2>2. CASE c = u.c
      <3>1. Latest(c) = camp[c].sent \/ Latest(c) = MergedSent(u)
        <4>1. p = "wa" \/ update["wa"].phase = "none"
          BY <1>3, <1>5 DEF AtRest
        <4> QED
          BY <1>1, <1>6, <4>1 DEF Latest
      <3>2. Covers(u.sent, u.sent, c)
        BY <1>2, CoversItself
      <3>3. Covers(MergedSent(u), u.sent, c)
        <4>1. CASE u.sent = Keep
          BY <1>2, <4>1, NoLeadsCovered
        <4>2. CASE u.sent # Keep
          BY <1>9, <3>2, <4>2
        <4> QED
          BY <4>1, <4>2
      <3> QED
        BY <1>4, <1>8, <1>10, <2>2, <3>1, <3>3
    <2> QED
      BY <2>1, <2>2
  <1>12. Carried
    BY <1>11 DEF Carried
  <1>13. BouncedOK' /\ GoesOn(runner["wa"], runner'["wa"])
    BY <1>4, <1>5, SameCycle, BouncedStays
  <1> QED
    BY <1>4, <1>12, <1>13, CapKept

(* The WhatsApp runner goes on with the maps as they are stored.           *)
LEMMA CapMove ==
    ASSUME Serial, Known, Known', CapInv, NEW r, Move("wa", r),
           runner["wa"].pc # "send", update["wa"].phase = "none",
           UNCHANGED <<camp, today, messages, sentOn, bounced, restarts>>,
           UNCHANGED update \/ \E c, status : StartUpdate("wa", c, status, Keep),
           r.pc = "send" => r.sent = camp[r.c].sent,
           GoesOn(runner["wa"], r)
    PROVE  CapInv'
  <1>1. Types /\ "wa" \in Channels /\ "wa" \in Processes /\ BouncedOK
    BY DEF Known, Inv, Channels, Processes, CapInv
  <1>2. runner'["wa"] = r
    BY <1>1, Moved
  <1>3. MergedSent(update["wa"])' = camp[update'["wa"].c].sent \/ update'["wa"].phase = "none"
    <2>1. ASSUME NEW c, NEW status, StartUpdate("wa", c, status, Keep)
          PROVE  update'["wa"].sent = Keep
      BY <1>1, <2>1 DEF StartUpdate, Types
    <2> QED
      BY <2>1 DEF MergedSent
  <1>4. \A c : Latest(c) = camp[c].sent
    BY DEF Latest
  <1>5. \A c : Latest(c)' = camp[c].sent
    BY <1>2, <1>3 DEF Latest
  <1>6. Carried
    BY <1>4, <1>5, KnownMaps DEF Carried
  <1>7. BouncedOK'
    BY <1>1, BouncedStays
  <1> QED
    BY <1>2, <1>6, <1>7, CapKept

LEMMA CapStart ==
    ASSUME Serial, Known, Known', CapInv, StartCycle("wa")
    PROVE  CapInv'
  <1> DEFINE empty == {c \in Campaigns : /\ camp[c].status = "sending"
                                         /\ ~HasQueued(camp[c]) /\ Uses(c, "wa")}
             r1 == [Idle EXCEPT !.pc = "health", !.docs = camp, !.todo = Active("wa"),
                                !.budget = PER_TICK["wa"], !.used = SentToday(camp)]
             r2 == [Idle EXCEPT !.pc = "close", !.todo = empty]
  <1>1. /\ Move("wa", r1) \/ Move("wa", r2)
        /\ UNCHANGED <<camp, update, today, messages, sentOn, bounced, restarts>>
        /\ runner["wa"].pc = "idle" /\ update["wa"].phase = "none"
    BY DEF StartCycle, MayStart, AtRest, Channels
  <1>2. /\ r1.pc = "health" /\ r1.used = SentToday(camp)
        /\ r2.pc = "close"
    BY DEF Idle, Sending
  <1>3. Newest = Stored
    BY <1>1 DEF Newest, Stored, Latest
  <1> HIDE DEF r1, r2
  <1>4. GoesOn(runner["wa"], r1) /\ GoesOn(runner["wa"], r2) /\ r1.pc # "send" /\ r2.pc # "send"
    BY <1>2, <1>3 DEF GoesOn, Sending
  <1> QED
    BY <1>1, <1>4, CapMove

LEMMA CapSetAll ==
    ASSUME Serial, Known, Known', CapInv, NEW pc \in {"close", "danger"},
           NEW status \in Status, SetAll("wa", pc, status)
    PROVE  CapInv'
  <1>1. PICK q : q = runner["wa"]
    OBVIOUS
  <1>2. /\ UNCHANGED <<camp, today, messages, sentOn, bounced, restarts>>
        /\ q.pc = pc /\ update["wa"].phase = "none" /\ DOMAIN q = Fields
        /\ q.budget \in Nat
    BY <1>1 DEF SetAll, Ready, Known, Inv, Types, InHand, Channels
  <1>3. CASE Move("wa", Idle) /\ UNCHANGED update
    <2>1. GoesOn(q, Idle) /\ Idle.pc # "send"
      BY DEF GoesOn, Idle, Sending
    <2> QED
      BY <1>1, <1>2, <1>3, <2>1, CapMove
  <1>4. ASSUME NEW c \in q.todo, Move("wa", [q EXCEPT !.todo = @ \ {c}]),
               StartUpdate("wa", c, status, Keep)
        PROVE  CapInv'
    <2>1. PICK r : r = [q EXCEPT !.todo = @ \ {c}]
      OBVIOUS
    <2>2. r.pc = q.pc /\ r.budget = q.budget
      BY <1>2, <2>1 DEF Fields
    <2>3. GoesOn(q, r)
      BY <1>2, <2>2 DEF GoesOn, Sending
    <2> QED
      BY <1>1, <1>2, <1>4, <2>1, <2>2, <2>3, CapMove
  <1> QED
    BY <1>1, <1>3, <1>4 DEF SetAll

LEMMA CapHealth ==
    ASSUME Serial, Known, Known', CapInv, Health
    PROVE  CapInv'
  <1>1. PICK q : q = runner["wa"]
    OBVIOUS
  <1>2. /\ UNCHANGED <<camp, update, today, messages, sentOn, bounced, restarts>>
        /\ q.pc = "health" /\ update["wa"].phase = "none" /\ DOMAIN q = Fields
        /\ q.budget \in Nat
    BY <1>1 DEF Health, Ready, Known, Inv, Types, InHand, Channels
  <1>3. PICK r : Move("wa", r) /\ r.pc \in {"danger", "pick"} /\ r.budget = q.budget /\ r.used = q.used
    BY <1>1, <1>2 DEF Health, Fields
  <1>4. GoesOn(q, r)
    BY <1>2, <1>3 DEF GoesOn, Sending
  <1> QED
    BY <1>1, <1>2, <1>3, <1>4, CapMove

LEMMA CapPick ==
    ASSUME Serial, Known, Known', CapInv, PickCampaign("wa")
    PROVE  CapInv'
  <1> DEFINE q == runner["wa"]
  <1>2. /\ UNCHANGED <<camp, update, today, messages, sentOn, bounced, restarts>>
        /\ q.pc = "pick" /\ update["wa"].phase = "none" /\ DOMAIN q = Fields
        /\ q.budget \in Nat /\ q.used \in Nat /\ RunnerOK("wa") /\ CAP \in Nat
    <2>1. Types /\ RunnerOK("wa") /\ "wa" \in Channels
      BY DEF Known, Inv, Channels
    <2> QED
      BY <2>1, BroadcastAssumption DEF PickCampaign, Ready, Types, InHand
  <1>3. CASE Move("wa", Idle)
    <2>1. GoesOn(q, Idle) /\ Idle.pc # "send"
      BY DEF GoesOn, Idle, Sending
    <2> QED
      BY <1>2, <1>3, <2>1, CapMove
  <1>4. ASSUME NEW c \in q.todo, Move("wa", [q EXCEPT !.todo = @ \ {c}])
        PROVE  CapInv'
    <2>1. PICK r : r = [q EXCEPT !.todo = @ \ {c}]
      OBVIOUS
    <2>2. r.pc = "pick" /\ r.budget = q.budget /\ r.used = q.used
      BY <1>2, <2>1 DEF Fields
    <2>3. GoesOn(q, r)
      BY <1>2, <2>2 DEF GoesOn, Sending
    <2> QED
      BY <1>2, <1>4, <2>1, <2>2, <2>3, CapMove
  <1>5. ASSUME NEW c \in q.todo, NEW w \in SUBSET Leads, Cardinality(w) <= Allowance(q, "wa"),
               Move("wa", [q EXCEPT !.pc = "send", !.todo = @ \ {c}, !.c = c,
                                    !.sent = q.docs[c].sent, !.queue = w,
                                    !.tries = 0, !.fails = 0])
        PROVE  CapInv'
    <2>1. PICK r : r = [q EXCEPT !.pc = "send", !.todo = @ \ {c}, !.c = c,
                                 !.sent = q.docs[c].sent, !.queue = w, !.tries = 0, !.fails = 0]
      OBVIOUS
    <2>2. /\ r.pc = "send" /\ r.c = c /\ r.sent = q.docs[c].sent /\ r.queue = w
          /\ r.budget = q.budget /\ r.used = q.used
      BY <1>2, <2>1 DEF Fields
    <2>3. r.sent = camp[r.c].sent
      BY <1>2, <2>2 DEF RunnerOK
    <2>4. Cardinality(w) \in Nat
      BY LeadsFinite
    <2>5. r.used + Cardinality(r.queue) <= CAP
      BY <1>2, <1>5, <2>2, <2>4 DEF Allowance
    <2>6. GoesOn(q, r)
      BY <1>2, <2>2, <2>5 DEF GoesOn, Sending
    <2>7. Move("wa", r)
      BY <1>5, <2>1
    <2> QED
      BY <1>2, <2>3, <2>6, <2>7, CapMove
  <1>6. ASSUME NEW c \in q.todo
        PROVE  \A w : w \in kSubset(Min({Allowance(q, "wa"), Cardinality({l \in Leads : q.docs[c].sent[l]["wa"].st = "queued"})}),
                                     {l \in Leads : q.docs[c].sent[l]["wa"].st = "queued"})
                   => w \in SUBSET Leads /\ Cardinality(w) <= Allowance(q, "wa")
    <2>1. PICK W \in SUBSET Leads : W = {l \in Leads : q.docs[c].sent[l]["wa"].st = "queued"}
      OBVIOUS
    <2>2. PICK a : a = Allowance(q, "wa")
      OBVIOUS
    <2>3. a \in Int /\ Cardinality(W) \in Int
      BY <1>2, <2>2, LeadsFinite DEF Allowance
    <2>4. Min({a, Cardinality(W)}) <= a
      BY <2>3, MinPair
    <2>5. \A n : \A w \in kSubset(n, W) : w \in SUBSET W /\ Cardinality(w) = n
      BY DEF kSubset
    <2>6. \A w : w \in kSubset(Min({a, Cardinality(W)}), W) => w \in SUBSET Leads /\ Cardinality(w) <= a
      <3>1. PICK n : n = Min({a, Cardinality(W)})
        OBVIOUS
      <3>2. n <= a /\ \A w \in kSubset(n, W) : w \in SUBSET W /\ Cardinality(w) = n
        BY <2>4, <2>5, <3>1
      <3> QED
        BY <2>1, <3>1, <3>2
    <2> QED
      BY <2>1, <2>2, <2>6
  <1> QED
    BY <1>3, <1>4, <1>5, <1>6 DEF PickCampaign

LEMMA CapNoPhoto ==
    ASSUME Serial, Known, Known', CapInv, NEW c \in Campaigns, NoHeaderPhoto(c)
    PROVE  CapInv'
  <1>1. PICK q : q = runner["wa"]
    OBVIOUS
  <1>2. /\ UNCHANGED <<camp, today, messages, sentOn, bounced, restarts>>
        /\ q.pc = "pick" /\ update["wa"].phase = "none" /\ DOMAIN q = Fields
        /\ q.budget \in Nat /\ Move("wa", [q EXCEPT !.todo = @ \ {c}])
        /\ UNCHANGED update \/ StartUpdate("wa", c, "paused", Keep)
    BY <1>1 DEF NoHeaderPhoto, Ready, Known, Inv, Types, InHand, Channels
  <1>3. PICK r : r = [q EXCEPT !.todo = @ \ {c}]
    OBVIOUS
  <1>4. r.pc = "pick" /\ r.budget = q.budget /\ r.used = q.used
    BY <1>2, <1>3 DEF Fields
  <1>5. GoesOn(q, r)
    BY <1>2, <1>4 DEF GoesOn, Sending
  <1> QED
    BY <1>1, <1>2, <1>3, <1>4, <1>5, CapMove

(* The batch of the WhatsApp runner: its map of the campaign is the newest. *)
LEMMA BatchLatest ==
    ASSUME Types, Ready("wa", "send")
    PROVE  \A c : Latest(c) = IF c = runner["wa"].c THEN runner["wa"].sent ELSE camp[c].sent
BY DEF Latest, Ready

LEMMA OneLess ==
    ASSUME NEW Q \in SUBSET Leads, NEW l \in Q
    PROVE  /\ Cardinality(Q) \in Nat /\ Cardinality(Q \ {l}) \in Nat
           /\ Cardinality(Q \ {l}) = Cardinality(Q) - 1 /\ Q # {}
BY LeadsFinite, FS_RemoveElement

LEMMA CapBatch ==
    ASSUME Serial, Known, Known', CapInv, Ready("wa", "send"), NEW l \in runner["wa"].queue,
           NEW r, Move("wa", r),
           UNCHANGED <<camp, update, today, messages, sentOn, bounced, restarts>>,
           r.pc = "send", r.c = runner["wa"].c, r.used = runner["wa"].used,
           r.queue = runner["wa"].queue \ {l}, r.budget <= runner["wa"].budget,
           Covers(runner["wa"].sent, r.sent, r.c)
    PROVE  CapInv'
  <1>1. PICK q : q = runner["wa"]
    OBVIOUS
  <1>2. /\ Types /\ runner'["wa"] = r /\ q.pc = "send" /\ update["wa"].phase = "none"
        /\ q.queue \subseteq Leads /\ q.used \in Nat /\ CAP \in Nat
    <2>1. Types /\ "wa" \in Channels
      BY DEF Known, Inv, Channels
    <2> QED
      BY <1>1, <2>1, Moved, BroadcastAssumption DEF Ready, Types, InHand
  <1>3. \A c : Latest(c)' = IF c = q.c THEN r.sent ELSE camp[c].sent
    BY <1>1, <1>2 DEF Latest
  <1>4. Carried
    BY <1>1, <1>2, <1>3, BatchLatest, KnownMaps DEF Carried
  <1>5. q.used + Cardinality(r.queue) <= CAP
    <2>1. q.queue # {} /\ q.used + Cardinality(q.queue) <= CAP
      BY <1>1, <1>2 DEF CapInv
    <2>2. /\ Cardinality(q.queue) \in Nat /\ Cardinality(r.queue) \in Nat
          /\ Cardinality(r.queue) = Cardinality(q.queue) - 1
      BY <1>1, <1>2, OneLess
    <2> QED
      BY <1>2, <2>1, <2>2
  <1>6. GoesOn(q, r)
    BY <1>1, <1>2, <1>5 DEF GoesOn, Sending
  <1>7. BouncedOK'
    BY BouncedStays DEF CapInv
  <1> QED
    BY <1>1, <1>2, <1>4, <1>6, <1>7, CapKept

LEMMA CapSkip ==
    ASSUME Serial, Known, Known', CapInv, NEW l \in Leads, Skip("wa", l)
    PROVE  CapInv'
  <1> DEFINE q == runner["wa"]
             r == [q EXCEPT !.queue = @ \ {l}, !.sent[l]["wa"].st = "skipped",
                            !.sent[l]["wa"].at = @ \/ "wa" = "wa"]
  <1>1. /\ Ready("wa", "send") /\ l \in q.queue /\ Move("wa", r) /\ DOMAIN q = Fields
        /\ q.pc = "send" /\ q.budget \in Nat /\ "wa" \in Channels
        /\ UNCHANGED <<camp, update, today, messages, sentOn, bounced, restarts>>
    BY DEF Skip, Known, Inv, Types, InHand, Ready, Channels
  <1>2. /\ r.pc = "send" /\ r.c = q.c /\ r.queue = q.queue \ {l} /\ r.used = q.used
        /\ r.budget <= q.budget /\ r.sent = PutAside(q.sent, l, "wa", "skipped")
    BY <1>1 DEF Fields, PutAside
  <1>3. "skipped" \in EntryStatus /\ Inv /\ CoverInv
    BY DEF EntryStatus, Known
  <1> HIDE DEF r
  <1>4. Covers(q.sent, r.sent, r.c)
    BY <1>1, <1>2, <1>3, AsideCovers
  <1> QED
    BY <1>1, <1>2, <1>4, CapBatch

LEMMA CapRefused ==
    ASSUME Serial, Known, Known', CapInv, NEW l \in Leads, Refused("wa", l)
    PROVE  CapInv'
  <1> DEFINE q == runner["wa"]
             r == [q EXCEPT !.queue = @ \ {l}, !.budget = @ - 1, !.tries = @ + 1,
                            !.fails = @ + 1, !.sent[l]["wa"].st = "failed",
                            !.sent[l]["wa"].at = @ \/ "wa" = "wa"]
  <1>1. /\ Ready("wa", "send") /\ l \in q.queue /\ Move("wa", r) /\ DOMAIN q = Fields
        /\ q.pc = "send" /\ q.budget \in Nat /\ "wa" \in Channels
        /\ UNCHANGED <<camp, update, today, messages, sentOn, bounced, restarts>>
    BY DEF Refused, Known, Inv, Types, InHand, Ready, Channels
  <1>2. /\ r.pc = "send" /\ r.c = q.c /\ r.queue = q.queue \ {l} /\ r.used = q.used
        /\ r.budget <= q.budget /\ r.sent = PutAside(q.sent, l, "wa", "failed")
    BY <1>1 DEF Fields, PutAside
  <1>3. "failed" \in EntryStatus /\ Inv /\ CoverInv
    BY DEF EntryStatus, Known
  <1> HIDE DEF r
  <1>4. Covers(q.sent, r.sent, r.c)
    BY <1>1, <1>2, <1>3, AsideCovers
  <1> QED
    BY <1>1, <1>2, <1>4, CapBatch

LEMMA CapEnd ==
    ASSUME Serial, Known, Known', CapInv, EndBatch("wa")
    PROVE  CapInv'
  <1>1. PICK q : q = runner["wa"]
    OBVIOUS
  <1> DEFINE r == [q EXCEPT !.pc = "pick", !.c = <<>>, !.sent = <<>>, !.tries = 0, !.fails = 0]
  <1>2. /\ Ready("wa", "send") /\ Move("wa", r)
        /\ StartUpdate("wa", q.c, StatusAfter("wa", q), q.sent)
        /\ UNCHANGED <<camp, today, messages, sentOn, bounced, restarts>>
    BY <1>1 DEF EndBatch
  <1>3. /\ Types /\ DOMAIN q = Fields /\ q.pc = "send" /\ q.c \in Campaigns /\ q.sent \in SentMap
        /\ q.budget \in Nat /\ "wa" \in Channels /\ "wa" \in Processes
    BY <1>1, <1>2 DEF Ready, Known, Inv, Types, InHand, Channels, Processes
  <1>4. r.pc = "pick" /\ r.budget = q.budget /\ r.used = q.used
    BY <1>3 DEF Fields
  <1> HIDE DEF r
  <1>5. runner'["wa"] = r
    BY <1>2, <1>3, Moved
  <1>6. GoesOn(q, r)
    BY <1>3, <1>4 DEF GoesOn, Sending
  <1>7. PICK u : u = update'["wa"]
    OBVIOUS
  <1>8. u.phase = "get" /\ u.c = q.c /\ u.sent = q.sent
    BY <1>2, <1>3, <1>7 DEF StartUpdate, Types
  <1>9. Carried
    <2>1. CASE q.sent = Keep
      BY <1>3, <2>1, NoLeadsCovered DEF Carried
    <2>2. CASE q.sent # Keep
      <3>1. MergedSent(update["wa"])' = q.sent
        BY <1>7, <1>8, <2>2 DEF MergedSent
      <3>2. \A c : Latest(c)' = IF c = q.c THEN q.sent ELSE camp[c].sent
        BY <1>2, <1>4, <1>5, <1>7, <1>8, <3>1 DEF Latest
      <3>3. \A c : Latest(c)' = Latest(c)
        BY <1>1, <1>2, <1>3, <3>2, BatchLatest
      <3> QED
        BY <1>2, <3>3, KnownMaps DEF Carried
    <2> QED
      BY <2>1, <2>2
  <1>10. BouncedOK'
    BY <1>2, BouncedStays DEF CapInv
  <1> QED
    BY <1>1, <1>2, <1>5, <1>6, <1>9, <1>10, CapKept

(* An accepted message is one more that the newest maps know.              *)
LEMMA CapAccepted ==
    ASSUME Serial, Known, Known', CapInv, NEW l \in Leads, Accepted("wa", l)
    PROVE  CapInv'
  <1>1. PICK q : q = runner["wa"]
    OBVIOUS
  <1>2. PICK c : c = q.c
    OBVIOUS
  <1>3. PICK m : m = messages["wa"][c][l] + 1
    OBVIOUS
  <1>4. /\ Ready("wa", "send") /\ l \in q.queue
        /\ Move("wa", [q EXCEPT !.queue = @ \ {l}, !.budget = @ - 1, !.used = @ + 1,
                                !.tries = @ + 1, !.sent[l]["wa"].st = "sent",
                                !.sent[l]["wa"].day = today, !.sent[l]["wa"].msg = m])
        /\ messages' = [messages EXCEPT !["wa"][c][l] = m]
        /\ sentOn' = [sentOn EXCEPT ![today] = @ + 1]
        /\ UNCHANGED <<camp, update, today, bounced, restarts>>
    BY <1>1, <1>2, <1>3 DEF Accepted
  <1>5. /\ Types /\ Types' /\ DOMAIN q = Fields /\ q.pc = "send" /\ c \in Campaigns
        /\ q.sent \in SentMap /\ q.queue \subseteq Leads /\ "wa" \in Channels
        /\ q.budget \in Nat /\ q.used \in Nat /\ CAP \in Nat
        /\ q.sent[l]["wa"].st = "queued" /\ Uses(c, "wa")
    <2>1. Types /\ Types' /\ RunnerOK("wa") /\ RunnerCovers("wa") /\ "wa" \in Channels
      BY DEF Known, Inv, CoverInv, Channels
    <2>2. InHand("wa", q) /\ q.pc = "send"
      BY <1>1, <1>4, <2>1 DEF Types, Ready
    <2> QED
      BY <1>1, <1>2, <1>4, <2>1, <2>2, BroadcastAssumption DEF InHand, RunnerOK, RunnerCovers
  <1>6. m \in Nat /\ messages["wa"][c][l] \in Nat
    BY <1>3, <1>5 DEF Types
  <1>7. PICK r : r = [q EXCEPT !.queue = @ \ {l}, !.budget = @ - 1, !.used = @ + 1,
                               !.tries = @ + 1, !.sent[l]["wa"].st = "sent",
                               !.sent[l]["wa"].day = today, !.sent[l]["wa"].msg = m]
    OBVIOUS
  <1>8. /\ r.pc = "send" /\ r.c = c /\ r.queue = q.queue \ {l} /\ r.budget = q.budget - 1
        /\ r.used = q.used + 1 /\ r.sent = PutSent(q.sent, l, "wa", today, m)
    BY <1>2, <1>5, <1>7 DEF Fields, PutSent
  <1>9. runner'["wa"] = r
    BY <1>4, <1>5, <1>7, Moved
  <1>10. /\ r.sent[l]["wa"].st = "sent" /\ r.sent[l]["wa"].day = today /\ r.sent[l]["wa"].msg = m
    BY <1>5, <1>8, PutSentFacts
  <1>11. \A d : Latest(d)' = IF d = c THEN r.sent ELSE camp[d].sent
    BY <1>4, <1>8, <1>9 DEF Latest, Ready
  <1>12. \A d : Latest(d) = IF d = c THEN q.sent ELSE camp[d].sent
    BY <1>1, <1>2, <1>4, <1>5, BatchLatest
  <1>13. Covers(q.sent, r.sent, c)
    <2>1. Inv /\ CoverInv /\ "wa" \in Channels
      BY <1>5 DEF Known
    <2>2. Covers(runner["wa"].sent, PutSent(runner["wa"].sent, l, "wa", today, m), runner["wa"].c)
      <3> HIDE DEF Known
      <3> QED
        BY <1>1, <1>4, <1>6, <2>1, SentCovers
    <2> QED
      BY <1>1, <1>2, <1>8, <2>2
  <1>14. Carried
    BY <1>4, <1>11, <1>12, <1>13, KnownMaps DEF Carried
  <1>15. IsFiniteSet(bounced) /\ \A x \in bounced : x[3] <= messages.wa[x[1]][x[2]]
    BY DEF CapInv, BouncedOK
  <1>16. BouncedOK'
    <2>1. ASSUME NEW x \in bounced
          PROVE  x[3] <= messages'.wa[x[1]][x[2]]
      <3>1. x[1] \in Campaigns /\ x[2] \in Leads /\ x[3] \in Nat
        BY <1>5 DEF Types
      <3>2. messages.wa[x[1]][x[2]] \in Nat /\ messages'.wa[x[1]][x[2]] \in Nat
            /\ messages'.wa[x[1]][x[2]] >= messages.wa[x[1]][x[2]]
        <4>1. messages'["wa"] = [messages["wa"] EXCEPT ![c][l] = m]
          BY <1>4, <1>5 DEF Types
        <4>2. messages["wa"] \in [Campaigns -> [Leads -> Nat]]
          BY <1>5 DEF Types
        <4> QED
          BY <1>3, <1>5, <1>6, <3>1, <4>1, <4>2, SMTT(20)
      <3> QED
        BY <1>15, <3>1, <3>2
    <2> QED
      BY <1>4, <1>15, <2>1 DEF BouncedOK
  <1>17. PICK x : x = <<c, l, m>>
    OBVIOUS
  <1>18. x \in Counted(Newest)' /\ x \notin Counted(Newest) /\ x \notin bounced
    <2>1. x \in Campaigns \X Leads \X Nat /\ x[1] = c /\ x[2] = l /\ x[3] = m
      BY <1>5, <1>6, <1>17
    <2>2. Newest[c] = q.sent /\ Newest'[c] = r.sent
      BY <1>5, <1>11, <1>12 DEF Newest
    <2>3. x \in Counted(Newest)'
      BY <1>4, <1>5, <1>10, <2>1, <2>2 DEF Counted, Counts
    <2>4. x \notin Counted(Newest)
      BY <1>5, <2>1, <2>2 DEF Counted, Counts
    <2>5. x \notin bounced
      BY <1>3, <1>6, <1>15, <2>1
    <2> QED
      BY <2>3, <2>4, <2>5
  <1>19. PICK n : n = sentOn[today]
    OBVIOUS
  <1>20. PICK k : k = Forgotten
    OBVIOUS
  <1>21. PICK t : t = PER_TICK["wa"]
    OBVIOUS
  <1>22. PICK b : b = Cardinality(bounced)
    OBVIOUS
  <1>23. /\ n \in Nat /\ k \in Nat /\ t \in Nat /\ b \in Nat /\ today \in Days
         /\ \A d \in Days : sentOn[d] \in Nat /\ d \in Int
    BY <1>5, <1>15, <1>19, <1>20, <1>21, <1>22, CapNumbers, SizeFacts
  <1>24. PICK S : S = Counted(Newest) \cup bounced
    OBVIOUS
  <1>25. PICK T : T = (Counted(Newest) \cup bounced)'
    OBVIOUS
  <1>26. Cardinality(S) \in Nat /\ Cardinality(T) \in Nat /\ Cardinality(S) + 1 <= Cardinality(T)
    <2>1. IsFiniteSet(S) /\ Cardinality(S) \in Nat
      BY <1>15, <1>24, CountedListed, FS_Union, FS_CardinalityType
    <2>2. IsFiniteSet(T)
      <3>1. Counted(Newest)' = Counted(Newest')
        BY <1>4 DEF Counted, Counts
      <3> QED
        BY <1>4, <1>15, <1>25, <3>1, CountedListed, FS_Union
    <2>3. x \notin S /\ S \cup {x} \subseteq T
      <3>1. Counted(Newest) \subseteq Counted(Newest)' \cup bounced
        BY <1>4, <1>14, CarriedSets
      <3> QED
        BY <1>4, <1>18, <1>24, <1>25, <3>1
    <2>4. Cardinality(S \cup {x}) = Cardinality(S) + 1
      BY <2>1, <2>3, FS_AddElement
    <2> QED
      BY <2>1, <2>2, <2>3, <2>4, FS_Subset, FS_CardinalityType
  <1>27. PICK old : old = Size(Counted(Stored))
    OBVIOUS
  <1>28. PICK aold : aold = Size(Counted(Stored))'
    OBVIOUS
  <1>29. old \in Nat /\ old <= aold /\ aold \in Nat
    <2>1. old \in Nat
      BY <1>15, <1>27, SizeFacts
    <2>2. old <= aold
      BY <1>4, <1>14, <1>16, <1>27, <1>28, NothingLost
    <2>3. Counted(Stored)' = Counted(Stored)
      BY <1>4 DEF Counted, Counts, Stored
    <2>4. aold = old
      BY <1>4, <1>27, <1>28, <2>3 DEF Size
    <2> QED
      BY <2>1, <2>2, <2>4
  <1>30. /\ n <= Cardinality(S) + k
         /\ n <= old + k + t - q.budget
         /\ n <= q.used + k + b
         /\ q.used + Cardinality(q.queue) <= CAP
         /\ \A d \in Days : sentOn[d] <= CAP + k + b /\ (d > today => sentOn[d] = 0)
    BY <1>1, <1>4, <1>5, <1>19, <1>20, <1>21, <1>22, <1>24, <1>27 DEF CapInv, Size, Sending
  <1>31. /\ Cardinality(q.queue) \in Nat /\ Cardinality(r.queue) \in Nat
         /\ Cardinality(r.queue) = Cardinality(q.queue) - 1
    BY <1>4, <1>5, <1>8, OneLess
  <1>32. n + 1 <= Cardinality(T) + k
    BY <1>23, <1>26, <1>30
  <1>33. n + 1 <= aold + k + t - r.budget
    BY <1>5, <1>8, <1>23, <1>29, <1>30
  <1>34. n + 1 <= r.used + k + b /\ r.used + Cardinality(r.queue) <= CAP
    BY <1>5, <1>8, <1>23, <1>30, <1>31
  <1>35. \A d \in Days : /\ sentOn'[d] <= CAP + k + b
                         /\ d > today => sentOn'[d] = 0
    <2>1. n + 1 <= CAP + k + b
      BY <1>5, <1>8, <1>23, <1>31, <1>34
    <2>2. ASSUME NEW d \in Days
          PROVE  sentOn'[d] = IF d = today THEN n + 1 ELSE sentOn[d]
      BY <1>4, <1>5, <1>19, <1>23 DEF Types
    <2> QED
      BY <1>23, <1>30, <2>1, <2>2
  <1>36. sentOn'[today] = n + 1
    BY <1>4, <1>5, <1>19, <1>23 DEF Types
  <1>37. /\ Forgotten' = k /\ Cardinality(bounced') = b /\ today' = today
         /\ Size(Counted(Newest))' = Cardinality(T)
    BY <1>4, <1>20, <1>22, <1>25 DEF Forgotten, Size
  <1> QED
    BY <1>8, <1>9, <1>16, <1>21, <1>28, <1>32, <1>33, <1>34, <1>35, <1>36, <1>37 DEF CapInv

LEMMA CapBounce ==
    ASSUME Serial, Known, Known', CapInv, NEW c \in Campaigns, NEW l \in Leads, Bounce(c, l)
    PROVE  CapInv'
  <1>1. PICK x : x = <<c, l, messages.wa[c][l]>>
    OBVIOUS
  <1>2. /\ bounced' = bounced \cup {x}
        /\ UNCHANGED <<camp, update, runner, today, messages, sentOn, restarts>>
    BY <1>1 DEF Bounce
  <1>3. messages.wa[c][l] \in Nat
    BY MessagesNat DEF Known, Inv
  <1>4. BouncedOK
    BY DEF CapInv
  <1>5. BouncedOK'
    <2>1. IsFiniteSet(bounced')
      BY <1>2, <1>4, FS_AddElement DEF BouncedOK
    <2>2. x[3] <= messages.wa[x[1]][x[2]]
      BY <1>1, <1>3
    <2> QED
      BY <1>2, <1>4, <2>1, <2>2 DEF BouncedOK
  <1> QED
    BY <1>2, <1>5, CapAside

LEMMA CapNextDay ==
    ASSUME Serial, Known, Known', CapInv, NextDay
    PROVE  CapInv'
  <1>1. /\ Types /\ Types' /\ today' = today + 1
        /\ UNCHANGED <<camp, update, runner, messages, sentOn, bounced, restarts>>
    BY DEF NextDay, Known, Inv
  <1>2. PICK q : q = runner["wa"]
    OBVIOUS
  <1>3. PICK b : b = Cardinality(bounced)
    OBVIOUS
  <1>4. PICK k : k = Forgotten
    OBVIOUS
  <1>5. PICK t : t = PER_TICK["wa"]
    OBVIOUS
  <1>6. BouncedOK /\ BouncedOK'
    BY <1>1, BouncedStays DEF CapInv
  <1>7. /\ b \in Nat /\ k \in Nat /\ t \in Nat /\ q.budget \in Nat /\ q.budget <= t
        /\ q.used \in Nat /\ today \in Int /\ \A d \in Days : d \in Int
    BY <1>1, <1>2, <1>3, <1>4, <1>5, <1>6, CapNumbers, FS_CardinalityType DEF BouncedOK
  <1>8. /\ \A d \in Days : sentOn[d] <= CAP + k + b /\ (d > today => sentOn[d] = 0)
        /\ q.pc = "send" /\ q.queue # {} => q.used + Cardinality(q.queue) <= CAP
    BY <1>2, <1>3, <1>4 DEF CapInv
  <1>9. today' \in Days
    BY <1>1 DEF Types
  <1>10. sentOn'[today'] = 0
    BY <1>1, <1>7, <1>8, <1>9
  <1>11. PICK anew : anew = Size(Counted(Newest))'
    OBVIOUS
  <1>12. PICK aold : aold = Size(Counted(Stored))'
    OBVIOUS
  <1>13. anew \in Nat /\ aold \in Nat
    BY <1>6, <1>11, <1>12 DEF Known, SizesOK, BouncedOK
  <1>14. \A d \in Days : sentOn'[d] <= CAP + k + b /\ (d > today' => sentOn'[d] = 0)
    BY <1>1, <1>7, <1>8
  <1>15. runner'["wa"] = q /\ Forgotten' = k /\ Cardinality(bounced') = b
    BY <1>1, <1>2, <1>3, <1>4 DEF Forgotten
  <1>16. /\ 0 <= anew + k /\ 0 <= aold + k + t - q.budget /\ 0 <= q.used + k + b
    BY <1>7, <1>13
  <1> QED
    BY <1>5, <1>6, <1>8, <1>10, <1>11, <1>12, <1>14, <1>15, <1>16 DEF CapInv

LEMMA CapRestart ==
    ASSUME Serial, Known, Known', CapInv, Restart
    PROVE  CapInv'
  <1>1. /\ Types /\ restarts' = restarts + 1 /\ "wa" \in Channels /\ "wa" \in Processes
        /\ runner'["wa"] = Idle /\ update'["wa"] = NoUpdate
        /\ UNCHANGED <<camp, today, messages, sentOn, bounced>>
    BY DEF Restart, Known, Inv, Channels, Processes
  <1>2. PICK q : q = runner["wa"]
    OBVIOUS
  <1>3. PICK b : b = Cardinality(bounced)
    OBVIOUS
  <1>4. PICK k : k = Forgotten
    OBVIOUS
  <1>5. PICK t : t = PER_TICK["wa"]
    OBVIOUS
  <1>6. BouncedOK /\ BouncedOK'
    BY <1>1, BouncedStays DEF CapInv
  <1>7. /\ b \in Nat /\ k \in Nat /\ t \in Nat /\ q.budget \in Nat /\ q.budget <= t
        /\ today \in Days /\ \A d \in Days : sentOn[d] \in Nat
        /\ CAP \in Nat /\ restarts \in Nat
    BY <1>1, <1>2, <1>3, <1>4, <1>5, <1>6, CapNumbers, FS_CardinalityType DEF BouncedOK
  <1>8. Forgotten' = k + t
    <2>1. \A i \in Nat : (i + 1) * t = i * t + t
      BY <1>7
    <2> QED
      BY <1>1, <1>4, <1>5, <1>7, <2>1 DEF Forgotten
  <1>9. PICK n : n = sentOn[today]
    OBVIOUS
  <1>10. PICK old : old = Size(Counted(Stored))
    OBVIOUS
  <1>11. old \in Nat
    BY <1>6, <1>10, SizeFacts DEF BouncedOK
  <1>12. n <= old + k + t
    <2>1. CASE q.pc = "idle"
      <3>1. update["wa"].phase = "none"
        BY <1>1, <1>2, <2>1 DEF Known, Inv, RunnerOK
      <3>2. Newest = Stored
        BY <1>2, <2>1, <3>1 DEF Newest, Stored, Latest
      <3>3. n <= old + k
        BY <1>4, <1>9, <1>10, <3>2 DEF CapInv
      <3> QED
        BY <1>7, <1>9, <1>11, <3>3
    <2>2. CASE q.pc # "idle"
      <3>1. n <= old + k + t - q.budget
        BY <1>2, <1>4, <1>5, <1>9, <1>10, <2>2 DEF CapInv
      <3> QED
        BY <1>7, <1>9, <1>11, <3>1
    <2> QED
      BY <2>1, <2>2
  <1>13. Size(Counted(Newest))' = old
    <2>1. Newest' = Stored
      BY <1>1 DEF Newest, Stored, Latest, Idle, NoUpdate
    <2> QED
      BY <1>1, <1>10, <2>1 DEF Size, Counted, Counts
  <1>14. sentOn'[today'] <= Size(Counted(Newest))' + Forgotten'
    BY <1>1, <1>7, <1>8, <1>9, <1>11, <1>12, <1>13
  <1>15. \A d \in Days : /\ sentOn[d] <= CAP + (k + t) + b
                         /\ d > today => sentOn[d] = 0
    <2>1. \A d \in Days : sentOn[d] <= CAP + k + b /\ (d > today => sentOn[d] = 0)
      BY <1>3, <1>4 DEF CapInv
    <2> QED
      BY <1>7, <2>1
  <1>16. \A d \in Days : /\ sentOn'[d] <= CAP + Forgotten' + Cardinality(bounced')
                         /\ d > today' => sentOn'[d] = 0
    BY <1>1, <1>3, <1>8, <1>15
  <1>17. Idle.pc = "idle"
    BY DEF Idle
  <1> QED
    BY <1>1, <1>6, <1>14, <1>16, <1>17 DEF CapInv, Sending

LEMMA InitCap == Init => CapInv
  <1> SUFFICES ASSUME Init PROVE CapInv
    OBVIOUS
  <1>1. Types /\ bounced = {} /\ restarts = 0 /\ today = 1 /\ runner["wa"].pc = "idle"
        /\ \A d \in Days : sentOn[d] = 0
    BY InitTypes DEF Init, Channels, Idle
  <1>2. PER_TICK["wa"] \in Nat /\ CAP \in Nat /\ 1 \in Days
    BY BroadcastAssumption DEF Days
  <1>3. Forgotten = 0
    BY <1>1, <1>2 DEF Forgotten
  <1>4. IsFiniteSet(bounced) /\ Cardinality(bounced) = 0 /\ BouncedOK
    BY <1>1, FS_EmptySet DEF BouncedOK
  <1>5. Size(Counted(Newest)) \in Nat
    BY <1>4, SizeFacts
  <1>6. sentOn[today] <= Size(Counted(Newest)) + Forgotten
    BY <1>1, <1>2, <1>3, <1>5
  <1>7. \A d \in Days : sentOn[d] <= CAP + Forgotten + Cardinality(bounced) /\ sentOn[d] = 0
    BY <1>1, <1>2, <1>3, <1>4
  <1> QED
    BY <1>1, <1>4, <1>6, <1>7 DEF CapInv, Sending

LEMMA CapStep ==
    ASSUME Serial, Known, Known', CapInv, [Next]_vars
    PROVE  CapInv'
  <1>1. Types /\ Types' /\ Inv /\ BouncedOK /\ "wa" \in Channels
    BY DEF Known, Inv, CapInv, Channels
  <1>2. ASSUME Cycle("wa")
        PROVE  CapInv'
    <2>1. ASSUME NEW l \in Leads, Skip("wa", l) \/ Accepted("wa", l) \/ Refused("wa", l)
          PROVE  CapInv'
      BY <2>1, CapSkip, CapAccepted, CapRefused
    <2>2. CASE CloseEmpty \/ PauseAll \/ Health
      BY <2>2, CapSetAll, CapHealth DEF CloseEmpty, PauseAll, Status
    <2>3. CASE UpdateGet("wa") \/ UpdatePut("wa")
      BY <2>3, CapGet, CapPut DEF Processes, Channels
    <2> QED
      BY <1>2, <2>1, <2>2, <2>3, CapStart, CapPick, CapEnd DEF Cycle
  <1>3. ASSUME Cycle("em")
        PROVE  CapInv'
    <2>1. CASE UpdateGet("em") \/ UpdatePut("em")
      BY <2>1, CapGet, CapPut DEF Processes, Channels
    <2>2. ASSUME \/ StartCycle("em") \/ PickCampaign("em") \/ EndBatch("em")
                 \/ \E l \in Leads : Skip("em", l) \/ Refused("em", l) \/ Accepted("em", l)
          PROVE  CapInv'
      <3>1. UNCHANGED <<camp, today, sentOn, bounced, restarts>>
        BY <2>2, ZenonT(30) DEF StartCycle, PickCampaign, EndBatch, Skip, Refused, Accepted
      <3>2. messages'.wa = messages.wa
        BY <1>1, <2>2, ZenonT(30) DEF StartCycle, PickCampaign, EndBatch, Skip, Refused, Accepted, Types
      <3>3. runner'["wa"] = runner["wa"]
        <4>1. \E r : Move("em", r)
          <5>1. StartCycle("em") => \E r : Move("em", r)
            BY DEF StartCycle
          <5>2. PickCampaign("em") => \E r : Move("em", r)
            BY DEF PickCampaign
          <5>3. EndBatch("em") => \E r : Move("em", r)
            BY ZenonT(30) DEF EndBatch
          <5>4. \A l : Skip("em", l) \/ Refused("em", l) \/ Accepted("em", l) => \E r : Move("em", r)
            BY SMTT(20), ZenonT(40) DEF Skip, Refused, Accepted
          <5> QED
            BY <2>2, <5>1, <5>2, <5>3, <5>4
        <4> QED
          BY <1>1, <4>1 DEF Move, Types
      <3>4. update'["wa"] = update["wa"]
        <4>1. CASE EndBatch("em")
          BY <1>1, <4>1 DEF EndBatch, StartUpdate, Types, Processes
        <4>2. CASE UNCHANGED update
          BY <4>2
        <4> QED
          BY <2>2, <4>1, <4>2, ZenonT(30) DEF StartCycle, PickCampaign, Skip, Refused, Accepted
      <3>5. BouncedOK'
        BY <1>1, <3>1, <3>2, BouncedStays
      <3> QED
        BY <3>1, <3>3, <3>4, <3>5, CapAside
    <2> QED
      BY <1>3, <2>1, <2>2 DEF Cycle
  <1>4. ASSUME NEW q \in Slots, Call(q)
        PROVE  CapInv'
    <2>1. CASE UpdateGet(q) \/ UpdatePut(q)
      BY <2>1, CapGet, CapPut DEF Processes
    <2>2. ASSUME NEW c, NEW status, NEW sent, RouteOK(q, c, status, sent)
          PROVE  CapInv'
      <3>1. q # "wa" /\ "wa" \in Processes
        BY BroadcastAssumption DEF Processes, Channels
      <3>2. /\ UNCHANGED <<camp, runner, today, messages, sentOn, bounced, restarts>>
            /\ StartUpdate(q, c, status, sent)
        BY <2>2 DEF RouteOK, RouteStart, RouteUnchanged
      <3>3. update'["wa"] = update["wa"]
        BY <1>1, <3>1, <3>2 DEF StartUpdate, Types
      <3>4. BouncedOK'
        BY <1>1, <3>2, BouncedStays
      <3> QED
        BY <3>2, <3>3, <3>4, CapAside
    <2> QED
      BY <1>1, <1>4, <2>1, <2>2, RoutesOK
  <1>5. CASE UNCHANGED vars
    <2>1. /\ UNCHANGED <<camp, update, runner, today, messages, sentOn, bounced, restarts>>
      BY <1>5 DEF vars
    <2>2. BouncedOK'
      BY <1>1, <2>1, BouncedStays
    <2> QED
      BY <2>1, <2>2, CapAside
  <1>6. \A ch \in Channels : ch = "wa" \/ ch = "em"
    BY DEF Channels
  <1> QED
    BY <1>2, <1>3, <1>4, <1>5, <1>6, CapNoPhoto, CapBounce, CapNextDay, CapRestart DEF Next

(* The number starts at most CAP messages in a day, and what a restart or  *)
(* an undelivered message makes it forget.                                 *)
THEOREM CapHolds == Serial => (Spec => []DailyCap)
  <1> SUFFICES ASSUME Serial PROVE Spec => []DailyCap
    OBVIOUS
  <1>1. Known /\ Known' /\ CapInv /\ [Next]_vars => CapInv'
    BY CapStep
  <1>2. CapInv => DailyCap
    BY DEF CapInv, DailyCap, Forgotten
  <1> QED
    BY <1>1, <1>2, InitCap, KnownInvariant, PTL DEF Spec
=============================================================================
