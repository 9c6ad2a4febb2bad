------------------------ MODULE SdrConversation_proofs ------------------------
(***************************************************************************)
(* For any number of messages, faults and restarts: who was handed off is  *)
(* left in peace, a turn is kept, and a message is answered once but for   *)
(* what the faults cost.                                                   *)
(***************************************************************************)
EXTENDS SdrConversationProps, FiniteSetTheorems, TLAPS

(* A decision in this process, and the record of a message.                *)
Decisions ==
    [pc : {"idle", "read", "list", "think", "logGet", "logPut", "turn", "send", "record",
           "stamp", "stampGet", "stampPut"},
     resumed : BOOLEAN, log : SUBSET Marks, late : BOOLEAN, first : BOOLEAN, seen : Nat,
     parts : 0..MAX_PARTS, spoke : Nat, over : Nat, mark : SUBSET Marks, logCopy : SUBSET Marks,
     action : Actions, retried : BOOLEAN, copy : Thread]

Records == [pc : {"idle", "look", "create", "get", "put", "told"}, prev : 0..N, copy : Thread]

(* The types of all variables that matter below.                           *)
Types ==
    /\ thread \in Thread /\ stored \subseteq Msgs /\ bots \in Nat /\ sdrLog \subseteq Marks
    /\ human \in BOOLEAN /\ acked \subseteq Msgs
    /\ rec \in [Writers -> Records]
    /\ handler \in [Msgs -> Decisions]
    /\ sweep \in [pc : {"idle", "found", "waits"}, msg : 0..N]
    /\ left \in [msgs : Nat, people : Nat, errors : Nat, restarts : Nat, parts : 1..MAX_PARTS]
    /\ faults \in Nat /\ answers \in [Msgs -> Nat] /\ handedOff \in BOOLEAN
    /\ excused \subseteq {"crossed", "hidden", "forgotten", "cut", "stale"}

(* Who waits for whom: an answer for its record, the sweep for a decision. *)
Waits ==
    /\ \A m \in Msgs : rec[Bot(m)].pc # "idle" <=> handler[m].pc = "record"
    /\ sweep.pc = "waits" => handler[sweep.msg].resumed /\ Inflight(sweep.msg)
    /\ \A m \in Msgs : Inflight(m) /\ handler[m].resumed => sweep.pc = "waits" /\ sweep.msg = m
    /\ \A m \in Msgs : handler[m].pc \in {"turn", "send", "record"} => handler[m].parts > 0
    /\ \A m \in Msgs : handler[m].pc \in {"read", "list", "think"} => handler[m].spoke = 0
    /\ \A m \in Msgs : handler[m].pc = "record" => handler[m].spoke > 0

(* Only messages that are stored are shown, found and decided.             *)
Known == stored \cup {0}
Shown ==
    /\ thread.lastIn \in Known
    /\ \A w \in Writers : rec[w].prev \in Known /\ rec[w].copy.lastIn \in Known
    /\ \A m \in Msgs : handler[m].copy.lastIn \in Known
    /\ \A m \in Msgs : Inflight(m) \/ rec[In(m)].pc \in {"get", "put", "told"} => m \in stored
    /\ sweep.pc # "idle" => sweep.msg \in stored

(* A part that went out over another's turn was not checked in vain, or    *)
(* its check failed.                                                       *)
TurnInv ==
    \A m \in Msgs :
        /\ handler[m].over > 0 => Inflight(m) /\ TurnLost(m)
        /\ handler[m].over <= 1 + faults
        /\ handler[m].pc = "send" => handler[m].over <= faults

(* The log of the lead keeps a handoff, and a decision that looked after   *)
(* it is about to find it.                                                 *)
QuietInv ==
    "forgotten" \notin excused =>
        /\ handedOff => "handoff" \in sdrLog
        /\ \A m \in Msgs : handler[m].late =>
               handler[m].pc = "list" /\ handler[m].spoke = 0 /\ "handoff" \in handler[m].log

(* What the answers to a message beyond the first cost.                    *)
Stale == IF "stale" \in excused THEN 1 ELSE 0
Budget == faults + Stale
MayAnswer(h) ==
    /\ h.spoke = 0
    /\ h.pc \in {"read", "list", "think", "turn", "send"} \/ (h.pc \in {"logGet", "logPut"} /\ h.parts > 0)

(* A decision that may still answer is within the budget; the webhook's is *)
(* the first; a thread that shows the message as unanswered tells the      *)
(* truth, but for an answer that is being recorded or was lost in a fault. *)
OnceInv ==
    "crossed" \notin excused =>
        /\ \A w \in Writers : rec[w].prev <= thread.lastIn
        /\ \A m \in Msgs :
             /\ answers[m] <= 1 + Budget
             /\ MayAnswer(handler[m]) => answers[m] <= Budget
             /\ Inflight(m) /\ ~handler[m].resumed =>
                    answers[m] <= IF MayAnswer(handler[m]) THEN 0 ELSE 1
             /\ m \notin stored \/ rec[In(m)].pc \in {"get", "put", "told"} =>
                    answers[m] = 0 /\ ~Inflight(m) /\ (sweep.pc = "idle" \/ sweep.msg # m)
             /\ thread.lastIn = m /\ thread.lastDir = "in" /\ handler[m].pc # "record" =>
                    answers[m] <= Budget
             /\ sweep.pc = "found" /\ sweep.msg = m => answers[m] <= Budget \/ answers[m] <= 1

IInv == Types /\ Waits /\ Shown /\ TurnInv /\ QuietInv /\ OnceInv
-----------------------------------------------------------------------------
(* The writers are told apart by what they write.                          *)
LEMMA WriterKinds ==
  /\ \A m \in Msgs : In(m) \in Writers /\ Bot(m) \in Writers
  /\ Team \in Writers
  /\ \A w \in Writers : \/ \E m \in Msgs : w = In(m) /\ w[1] = "in" /\ w[2] = m
                        \/ \E m \in Msgs : w = Bot(m) /\ w[1] = "bot" /\ w[2] = m
                        \/ w = Team /\ w[1] = "team"
  /\ \A m, k \in Msgs : In(m) # Bot(k) /\ In(m) # Team /\ Bot(m) # Team
  /\ \A m, k \in Msgs : (In(m) = In(k) => m = k) /\ (Bot(m) = Bot(k) => m = k)
  <1>1. \A m, k \in Msgs : (In(m) = In(k) => m = k) /\ (Bot(m) = Bot(k) => m = k)
    <2> TAKE m, k \in Msgs
    <2>1. In(m)[2] = m /\ In(k)[2] = k /\ Bot(m)[2] = m /\ Bot(k)[2] = k
      BY DEF In, Bot
    <2>2. QED  BY <2>1
  <1>2. \A m, k \in Msgs : In(m) # Bot(k) /\ In(m) # Team /\ Bot(m) # Team
    <2> TAKE m, k \in Msgs
    <2>1. In(m)[1] = "in" /\ Bot(k)[1] = "bot" /\ Bot(m)[1] = "bot" /\ Team[1] = "team"
      BY DEF In, Bot, Team
    <2>2. QED  BY <2>1
  <1>3. \A w \in Writers : \/ \E m \in Msgs : w = In(m) /\ w[1] = "in" /\ w[2] = m
                           \/ \E m \in Msgs : w = Bot(m) /\ w[1] = "bot" /\ w[2] = m
                           \/ w = Team /\ w[1] = "team"
    BY DEF Writers, In, Bot, Team
  <1>4. QED  BY <1>1, <1>2, <1>3 DEF Writers

LEMMA Constant ==
  /\ NoThread \in Thread /\ NoThread.lastIn = 0
  /\ NoDecision \in Decisions /\ NoDecision.pc = "idle" /\ NoDecision.over = 0
  /\ NoDecision.spoke = 0 /\ NoDecision.late = FALSE /\ NoDecision.copy.lastIn = 0
  /\ NoDecision.parts = 0 /\ NoDecision.resumed = FALSE
  /\ NoRec \in Records /\ NoRec.pc = "idle" /\ NoRec.prev = 0 /\ NoRec.copy.lastIn = 0
  /\ 0 \notin Msgs /\ Msgs \subseteq Nat
  <1>1. N \in Nat \ {0} /\ MAX_PARTS \in Nat \ {0}
    BY SdrAssumption
  <1>2. NoThread \in Thread /\ NoThread.lastIn = 0
    BY <1>1 DEF NoThread, Thread, NoBrain, Brain, Actions
  <1>3. NoDecision \in Decisions
    BY <1>1, <1>2 DEF NoDecision, Decisions, Actions, Marks
  <1>4. NoRec \in Records
    BY <1>1, <1>2 DEF NoRec, Records
  <1>5. QED
    BY <1>1, <1>2, <1>3, <1>4 DEF NoDecision, NoRec, Msgs

LEMMA SettledFacts ==
  ASSUME NEW h \in Decisions
  PROVE  /\ Settled(h) \in Decisions /\ Settled(h).pc = "stamp"
         /\ Settled(h).resumed = h.resumed /\ Settled(h).over = 0 /\ Settled(h).spoke = 0
         /\ Settled(h).late = FALSE /\ Settled(h).copy.lastIn = 0 /\ Settled(h).parts = 0
  <1>1. Settled(h) = [NoDecision EXCEPT !.pc = "stamp", !.resumed = h.resumed, !.action = h.action]
    BY DEF Settled
  <1>2. h.resumed \in BOOLEAN /\ h.action \in Actions
    BY DEF Decisions
  <1>3. QED  BY <1>1, <1>2, Constant DEF Decisions

LEMMA InitInv == Init => IInv
  <1> SUFFICES ASSUME Init PROVE IInv
    OBVIOUS
  <1> USE Constant DEF Init
  <1>1. \A m \in Msgs : handler[m] = NoDecision /\ rec[In(m)] = NoRec /\ rec[Bot(m)] = NoRec
        /\ answers[m] = 0
    BY WriterKinds
  <1>2. Types
    <2>1. N \in Nat /\ left \in [msgs : Nat, people : Nat, errors : Nat, restarts : Nat, parts : 1..MAX_PARTS]
      BY SdrAssumption
    <2>2. sweep \in [pc : {"idle", "found", "waits"}, msg : 0..N]
      BY <2>1
    <2>3. rec \in [Writers -> Records] /\ handler \in [Msgs -> Decisions] /\ answers \in [Msgs -> Nat]
      OBVIOUS
    <2>4. QED  BY <2>1, <2>2, <2>3 DEF Types
  <1>3. Waits
    BY <1>1 DEF Waits, Inflight
  <1>4. Shown
    BY <1>1 DEF Shown, Known, Inflight
  <1>5. TurnInv
    BY <1>1 DEF TurnInv, Inflight
  <1>6. QuietInv
    BY <1>1 DEF QuietInv
  <1>7. OnceInv
    BY <1>1 DEF OnceInv, Budget, Stale, Inflight, MayAnswer
  <1>8. QED  BY <1>2, <1>3, <1>4, <1>5, <1>6, <1>7 DEF IInv

LEMMA BudgetGrows ==
  ASSUME faults \in Nat, faults' \in Nat, faults' >= faults, excused \subseteq excused'
  PROVE  Budget \in Nat /\ Budget' \in Nat /\ Budget <= Budget'
  <1>1. Stale \in Nat /\ Stale' \in Nat /\ Stale <= Stale'
    BY DEF Stale
  <1>2. \A x, y, z, w \in Nat : x <= y /\ z <= w => x + z \in Nat /\ y + w \in Nat /\ x + z <= y + w
    OBVIOUS
  <1>3. faults <= faults'
    OBVIOUS
  <1>4. QED  BY <1>1, <1>2, <1>3 DEF Budget

-----------------------------------------------------------------------------
LeftType == [msgs : Nat, people : Nat, errors : Nat, restarts : Nat, parts : 1..MAX_PARTS]

(* A decision at r, its record at b and its message with a answers.        *)
MayAct(m, r, b, a) ==
    /\ left' \in LeftType /\ faults' \in Nat /\ faults' >= faults
    /\ excused \subseteq excused' /\ excused' \subseteq excused \cup {"forgotten"}
    /\ sdrLog' \subseteq Marks /\ handedOff' \in BOOLEAN
    /\ Inflight(m) /\ r.pc # "idle" /\ r.resumed = handler[m].resumed
    /\ b.pc # "idle" <=> r.pc = "record"
    /\ b.prev \in Known /\ b.copy.lastIn \in Known /\ r.copy.lastIn \in Known
    /\ b.prev <= thread.lastIn \/ "crossed" \in excused
    /\ r.pc \in {"turn", "send", "record"} => r.parts > 0
    /\ r.pc \in {"read", "list", "think"} => r.spoke = 0
    /\ r.pc = "record" => r.spoke > 0
    /\ r.over > 0 => TurnLost(m)
    /\ r.over <= 1 + faults'
    /\ r.pc = "send" => r.over <= faults'
    /\ "forgotten" \notin excused' =>
         /\ handedOff' => "handoff" \in sdrLog'
         /\ r.late => r.pc = "list" /\ r.spoke = 0 /\ "handoff" \in r.log
    /\ "crossed" \notin excused =>
         /\ a <= 1 + Budget'
         /\ MayAnswer(r) => a <= Budget'
         /\ ~r.resumed => a <= IF MayAnswer(r) THEN 0 ELSE 1
         /\ thread.lastIn = m /\ thread.lastDir = "in" /\ r.pc # "record" => a <= Budget'

(* A step of one decision, with what it may do to its record, to the log   *)
(* of the lead and to the count of answers.                                *)
LEMMA Acts ==
  ASSUME IInv, NEW m \in Msgs, NEW r \in Decisions, NEW b \in Records, NEW a \in Nat,
         Decision(m, r), rec' = [rec EXCEPT ![Bot(m)] = b], answers' = [answers EXCEPT ![m] = a],
         UNCHANGED <<thread, stored, bots, human, acked, sweep>>,
         MayAct(m, r, b, a)
  PROVE  IInv'
  <1> USE DEF IInv, MayAct
  <1>1. /\ handler \in [Msgs -> Decisions] /\ handler' \in [Msgs -> Decisions]
        /\ handler'[m] = r /\ \A k \in Msgs \ {m} : handler'[k] = handler[k]
    BY DEF Types, Decision
  <1>2. UNCHANGED <<thread, stored, bots, human, acked, sweep>>
    OBVIOUS
  <1>3. /\ rec' \in [Writers -> Records] /\ rec'[Bot(m)] = b
        /\ \A w \in Writers \ {Bot(m)} : rec'[w] = rec[w]
        /\ \A k \in Msgs \ {m} : rec'[Bot(k)] = rec[Bot(k)]
        /\ \A k \in Msgs : rec'[In(k)] = rec[In(k)]
    BY WriterKinds DEF Types
  <1>4. /\ answers' \in [Msgs -> Nat] /\ answers'[m] = a
        /\ \A k \in Msgs \ {m} : answers'[k] = answers[k]
    BY DEF Types
  <1>5. Types'
    BY <1>1, <1>2, <1>3, <1>4 DEF Types, LeftType
  <1>6. Waits'
    <2>1. \A k \in Msgs : rec'[Bot(k)].pc # "idle" <=> handler'[k].pc = "record"
      BY <1>1, <1>3 DEF Waits
    <2>2. sweep'.pc = "waits" => handler'[sweep'.msg].resumed /\ Inflight(sweep.msg)'
      <3>1. sweep.pc # "idle" => sweep.msg \in Msgs
        BY DEF Shown, Types
      <3>2. QED  BY <1>1, <1>2, <3>1 DEF Waits, Inflight
    <2>3. \A k \in Msgs : Inflight(k)' /\ handler'[k].resumed => sweep'.pc = "waits" /\ sweep'.msg = k
      BY <1>1, <1>2 DEF Waits, Inflight
    <2>4. \A k \in Msgs : handler'[k].pc \in {"turn", "send", "record"} => handler'[k].parts > 0
      BY <1>1 DEF Waits
    <2>5. \A k \in Msgs : handler'[k].pc \in {"read", "list", "think"} => handler'[k].spoke = 0
      BY <1>1 DEF Waits
    <2>6. \A k \in Msgs : handler'[k].pc = "record" => handler'[k].spoke > 0
      BY <1>1 DEF Waits
    <2>7. QED  BY <2>1, <2>2, <2>3, <2>4, <2>5, <2>6, <1>2 DEF Waits, Inflight
  <1>7. Shown'
    <2>1. \A w \in Writers : rec'[w].prev \in Known /\ rec'[w].copy.lastIn \in Known
      BY <1>3 DEF Shown
    <2>2. \A k \in Msgs : handler'[k].copy.lastIn \in Known
      BY <1>1 DEF Shown
    <2>3. \A k \in Msgs : Inflight(k)' \/ rec'[In(k)].pc \in {"get", "put", "told"} => k \in stored
      BY <1>1, <1>3 DEF Shown, Inflight
    <2>4. QED  BY <1>2, <2>1, <2>2, <2>3 DEF Shown, Known
  <1>8. TurnInv'
    <2>1. \A k \in Msgs : TurnLost(k)' = TurnLost(k)
      BY <1>2 DEF TurnLost, Newest
    <2>2. \A k \in Msgs : handler[k].over \in Nat
      BY <1>1 DEF Decisions
    <2>3. r.over \in Nat /\ faults \in Nat /\ r.pc # "idle"
      BY DEF Decisions, Types
    <2>4. QED  BY <1>1, <2>1, <2>2, <2>3 DEF TurnInv, Inflight
  <1>9. QuietInv'
    BY <1>1 DEF QuietInv
  <1>10. OnceInv'
    <2>1. SUFFICES ASSUME "crossed" \notin excused PROVE OnceInv'
      BY DEF OnceInv
    <2>2. Budget \in Nat /\ Budget' \in Nat /\ Budget <= Budget'
      <3>1. faults \in Nat
        BY DEF Types
      <3>2. QED  BY <3>1, BudgetGrows
    <2>3. \A k \in Msgs : answers[k] \in Nat
      BY DEF Types
    <2>4. \A w \in Writers : rec'[w].prev <= thread'.lastIn
      BY <1>2, <1>3, <2>1 DEF OnceInv
    <2>5. sweep.pc = "found" /\ sweep.msg = m => a <= 1
      BY <2>1 DEF Waits
    <2>6. \A k \in Msgs \ {m} : answers[k] <= Budget => answers[k] <= Budget'
      BY <2>2, <2>3
    <2>7. \A k \in Msgs \ {m} : answers[k] <= 1 + Budget => answers[k] <= 1 + Budget'
      BY <2>2, <2>3
    <2>8. m \in stored /\ rec[In(m)].pc \notin {"get", "put", "told"}
      BY <2>1 DEF Shown, OnceInv
    <2>9. ASSUME NEW k \in Msgs
          PROVE  (/\ answers[k] <= 1 + Budget
                  /\ MayAnswer(handler[k]) => answers[k] <= Budget
                  /\ Inflight(k) /\ ~handler[k].resumed =>
                        answers[k] <= IF MayAnswer(handler[k]) THEN 0 ELSE 1
                  /\ k \notin stored \/ rec[In(k)].pc \in {"get", "put", "told"} =>
                        answers[k] = 0 /\ ~Inflight(k) /\ (sweep.pc = "idle" \/ sweep.msg # k)
                  /\ thread.lastIn = k /\ thread.lastDir = "in" /\ handler[k].pc # "record" =>
                        answers[k] <= Budget
                  /\ sweep.pc = "found" /\ sweep.msg = k => answers[k] <= Budget \/ answers[k] <= 1)'
      <3>1. CASE k = m
        BY <1>1, <1>2, <1>3, <1>4, <2>1, <2>5, <2>8, <3>1 DEF Inflight
      <3>2. CASE k # m
        <4>1. /\ answers'[k] = answers[k] /\ handler'[k] = handler[k] /\ rec'[In(k)] = rec[In(k)]
              /\ Inflight(k)' = Inflight(k)
          BY <1>1, <1>3, <1>4, <3>2 DEF Inflight
        <4>2. /\ answers[k] <= 1 + Budget'
              /\ answers[k] <= Budget => answers[k] <= Budget'
          BY <2>1, <2>6, <2>7, <3>2 DEF OnceInv
        <4>3. QED  BY <1>2, <2>1, <4>1, <4>2 DEF OnceInv
      <3>3. QED  BY <3>1, <3>2
    <2>10. QED  BY <2>4, <2>9 DEF OnceInv
  <1>11. QED  BY <1>5, <1>6, <1>7, <1>8, <1>9, <1>10

(* A step that keeps all of these.                                         *)
LEMMA GoesOn ==
  ASSUME IInv, NEW m \in Msgs, NEW r \in Decisions, Decision(m, r),
         UNCHANGED <<rowVars, rec, acked, sweep, answers, handedOff, excused>>,
         left' \in LeftType, faults' \in Nat, faults' >= faults,
         handler[m].pc \notin {"idle", "record"}, r.pc \notin {"idle", "record"},
         r.resumed = handler[m].resumed, r.copy.lastIn \in Known,
         r.pc \in {"turn", "send"} => r.parts > 0,
         r.pc \in {"read", "list", "think"} => r.spoke = 0,
         r.over > 0 => TurnLost(m), r.over <= 1 + faults', r.pc = "send" => r.over <= faults',
         "forgotten" \notin excused /\ r.late =>
             r.pc = "list" /\ r.spoke = 0 /\ "handoff" \in r.log,
         MayAnswer(r) => MayAnswer(handler[m])
  PROVE  IInv'
  <1> DEFINE b == rec[Bot(m)]
             a == answers[m]
  <1>1. Types /\ Waits /\ Shown /\ QuietInv /\ OnceInv /\ Inflight(m)
    BY DEF IInv, Inflight
  <1>2. b \in Records /\ a \in Nat /\ b.prev \in Known /\ b.copy.lastIn \in Known
        /\ rec' = [rec EXCEPT ![Bot(m)] = b] /\ answers' = [answers EXCEPT ![m] = a]
    BY <1>1, WriterKinds DEF Types, Shown
  <1>3. UNCHANGED <<thread, stored, bots, human, acked, sweep, sdrLog, handedOff, excused>>
        /\ sdrLog \subseteq Marks /\ handedOff \in BOOLEAN /\ faults \in Nat
    BY <1>1 DEF rowVars, Types
  <1>4. Budget \in Nat /\ Budget' \in Nat /\ Budget <= Budget'
    BY <1>3, BudgetGrows
  <1>5. "crossed" \notin excused =>
             /\ a <= 1 + Budget
             /\ MayAnswer(r) => a <= Budget
             /\ ~r.resumed => a <= IF MayAnswer(r) THEN 0 ELSE 1
             /\ thread.lastIn = m /\ thread.lastDir = "in" => a <= Budget
             /\ b.prev <= thread.lastIn
    <2>1. SUFFICES ASSUME "crossed" \notin excused
          PROVE  /\ a <= 1 + Budget
                 /\ MayAnswer(r) => a <= Budget
                 /\ ~r.resumed => a <= IF MayAnswer(r) THEN 0 ELSE 1
                 /\ thread.lastIn = m /\ thread.lastDir = "in" => a <= Budget
                 /\ b.prev <= thread.lastIn
      OBVIOUS
    <2>2. a <= 1 + Budget /\ (MayAnswer(r) => a <= Budget) /\ b.prev <= thread.lastIn
      BY <1>1, <2>1, WriterKinds DEF OnceInv
    <2>3. thread.lastIn = m /\ thread.lastDir = "in" => a <= Budget
      BY <1>1, <2>1 DEF OnceInv
    <2>4. ~handler[m].resumed => a <= IF MayAnswer(handler[m]) THEN 0 ELSE 1
      BY <1>1, <2>1 DEF OnceInv
    <2>5. ~r.resumed => a <= IF MayAnswer(r) THEN 0 ELSE 1
      BY <1>2, <2>4
    <2>6. QED  BY <2>2, <2>3, <2>5
  <1>6. "crossed" \notin excused =>
             /\ a <= 1 + Budget'
             /\ MayAnswer(r) => a <= Budget'
             /\ ~r.resumed => a <= IF MayAnswer(r) THEN 0 ELSE 1
             /\ thread.lastIn = m /\ thread.lastDir = "in" => a <= Budget'
    BY <1>2, <1>4, <1>5
  <1>7. b.pc = "idle"
    BY <1>1 DEF Waits
  <1>8. handedOff => "handoff" \in sdrLog \/ "forgotten" \in excused
    BY <1>1 DEF QuietInv
  <1> HIDE DEF a, b
  <1>9. /\ b.pc # "idle" <=> r.pc = "record"
        /\ b.prev <= thread.lastIn \/ "crossed" \in excused
        /\ r.pc \in {"turn", "send", "record"} => r.parts > 0
        /\ r.pc # "idle" /\ excused \subseteq excused' /\ excused' \subseteq excused \cup {"forgotten"}
    BY <1>3, <1>5, <1>7
  <1>10. "forgotten" \notin excused' =>
             /\ handedOff' => "handoff" \in sdrLog'
             /\ r.late => r.pc = "list" /\ r.spoke = 0 /\ "handoff" \in r.log
    BY <1>3, <1>8
  <1>11. "crossed" \notin excused =>
             /\ a <= 1 + Budget'
             /\ MayAnswer(r) => a <= Budget'
             /\ ~r.resumed => a <= IF MayAnswer(r) THEN 0 ELSE 1
             /\ thread.lastIn = m /\ thread.lastDir = "in" /\ r.pc # "record" => a <= Budget'
    BY <1>6
  <1>12. sdrLog' \subseteq Marks /\ handedOff' \in BOOLEAN
    BY <1>3
  <1>13. MayAct(m, r, b, a)
    BY <1>1, <1>2, <1>9, <1>10, <1>11, <1>12 DEF MayAct
  <1>14. QED
    BY <1>2, <1>3, <1>13, Acts

LEMMA Settles ==
  ASSUME IInv, NEW m \in Msgs, Decision(m, Settled(handler[m])),
         UNCHANGED <<rowVars, rec, acked, sweep, faultVars, answers, handedOff, excused>>,
         handler[m].pc \notin {"idle", "record"}
  PROVE  IInv'
  <1> DEFINE r == Settled(handler[m])
  <1>1. handler[m] \in Decisions /\ faults \in Nat
        /\ left \in LeftType
    BY DEF IInv, Types, LeftType
  <1>2. /\ r \in Decisions /\ r.pc = "stamp" /\ r.resumed = handler[m].resumed /\ r.over = 0
        /\ r.spoke = 0 /\ r.late = FALSE /\ r.copy.lastIn = 0
    BY <1>1, SettledFacts
  <1> HIDE DEF r
  <1>3. ~MayAnswer(r) /\ r.copy.lastIn \in Known
    BY <1>2 DEF MayAnswer, Known
  <1>4. Decision(m, r)
    BY DEF r
  <1>5. QED
    BY <1>1, <1>2, <1>3, <1>4, GoesOn DEF faultVars

(* What is known of a decision at work.                                    *)
Work(m) ==
    /\ handler[m] \in Decisions /\ faults \in Nat
    /\ left \in LeftType
    /\ handler[m].copy.lastIn \in Known /\ thread.lastIn \in Known
    /\ handler[m].over > 0 => TurnLost(m)
    /\ handler[m].over <= 1 + faults
    /\ handler[m].pc \in {"turn", "send", "record"} => handler[m].parts > 0
    /\ handler[m].pc \in {"read", "list", "think"} => handler[m].spoke = 0
    /\ handler[m].over \in Nat /\ handler[m].spoke \in Nat /\ handler[m].parts \in 0..MAX_PARTS
    /\ "forgotten" \notin excused /\ handler[m].late =>
         handler[m].pc = "list" /\ handler[m].spoke = 0 /\ "handoff" \in handler[m].log
    /\ thread \in Thread /\ sdrLog \subseteq Marks /\ bots \in Nat /\ handedOff \in BOOLEAN
    /\ MAX_PARTS \in Nat \ {0}

LEMMA AtWork == ASSUME IInv, NEW m \in Msgs PROVE Work(m)
  <1>1. Types /\ Waits /\ Shown /\ TurnInv /\ QuietInv /\ MAX_PARTS \in Nat \ {0}
    BY SdrAssumption DEF IInv
  <1>2. handler[m] \in Decisions
    BY <1>1 DEF Types
  <1>3. handler[m].over \in Nat /\ handler[m].spoke \in Nat /\ handler[m].parts \in 0..MAX_PARTS
    BY <1>2 DEF Decisions
  <1>4. QED
    BY <1>1, <1>2, <1>3 DEF Work, LeftType, Types, Waits, Shown, TurnInv, QuietInv

LEMMA ReadLeadStep ==
  ASSUME IInv, NEW m \in Msgs, ReadLead(m)
  PROVE  IInv'
  <1> DEFINE h == handler[m]
             r == [h EXCEPT !.pc = "list", !.log = sdrLog, !.late = handedOff, !.seen = bots]
  <1>0. Work(m)
    BY AtWork
  <1>1. h.pc = "read"
    BY DEF ReadLead
  <1>2. CASE Decision(m, Settled(h))
    BY <1>1, <1>2, Settles DEF ReadLead, history
  <1>3. CASE Decision(m, r)
    <2>1. r \in Decisions /\ r.pc = "list" /\ r.log = sdrLog /\ r.late = handedOff
          /\ r.spoke = h.spoke /\ r.over = h.over /\ r.resumed = h.resumed /\ r.copy = h.copy
      BY <1>0 DEF Work, Decisions
    <2>2. MayAnswer(r) => MayAnswer(h)
      BY <1>1, <2>1 DEF MayAnswer
    <2>3. "forgotten" \notin excused /\ handedOff => "handoff" \in sdrLog
      BY DEF IInv, QuietInv
    <2> HIDE DEF r
    <2>4. QED
      BY <1>1, <1>3, <2>1, <2>2, <2>3, <1>0, GoesOn DEF Work, ReadLead, history, faultVars
  <1>4. QED  BY <1>2, <1>3 DEF ReadLead

LEMMA ThinkStep ==
  ASSUME IInv, NEW m \in Msgs, Think(m)
  PROVE  IInv'
  <1> DEFINE h == handler[m]
  <1>0. Work(m)
    BY AtWork
  <1>1. h.pc = "think" /\ h.spoke = 0
    BY <1>0 DEF Work, Think
  <1>2. CASE Decision(m, Settled(h))
    BY <1>1, <1>2, Settles DEF Think, history
  <1>3. ASSUME NEW n \in 1..left.parts, Decision(m, [h EXCEPT !.pc = "turn", !.parts = n])
        PROVE  IInv'
    <2> DEFINE r == [h EXCEPT !.pc = "turn", !.parts = n]
    <2>1. n \in 0..MAX_PARTS /\ n > 0
      BY <1>0 DEF Work, LeftType
    <2>2. r \in Decisions /\ r.pc = "turn" /\ r.parts = n /\ r.late = h.late
          /\ r.spoke = h.spoke /\ r.over = h.over /\ r.resumed = h.resumed /\ r.copy = h.copy
      BY <2>1, <1>0 DEF Work, Decisions
    <2>3. MayAnswer(h)
      BY <1>1 DEF MayAnswer
    <2>4. Decision(m, r) /\ UNCHANGED <<rowVars, rec, acked, sweep, faultVars, answers, handedOff, excused>>
      BY <1>3 DEF Think, history
    <2> HIDE DEF r
    <2>5. QED
      BY <1>1, <2>1, <2>2, <2>3, <2>4, <1>0, GoesOn DEF Work, faultVars
  <1>4. ASSUME NEW n \in {0, 1},
               Decision(m, [h EXCEPT !.pc = "logGet", !.mark = {"handoff"}, !.parts = n])
        PROVE  IInv'
    <2> DEFINE r == [h EXCEPT !.pc = "logGet", !.mark = {"handoff"}, !.parts = n]
    <2>1. n \in 0..MAX_PARTS
      BY <1>0 DEF Work
    <2>2. r \in Decisions /\ r.pc = "logGet" /\ r.parts = n /\ r.late = h.late
          /\ r.spoke = h.spoke /\ r.over = h.over /\ r.resumed = h.resumed /\ r.copy = h.copy
      BY <2>1, <1>0 DEF Work, Decisions, Marks
    <2>3. MayAnswer(h)
      BY <1>1 DEF MayAnswer
    <2>4. Decision(m, r) /\ UNCHANGED <<rowVars, rec, acked, sweep, faultVars, answers, handedOff, excused>>
      BY <1>4 DEF Think, history
    <2> HIDE DEF r
    <2>5. QED
      BY <1>1, <2>1, <2>2, <2>3, <2>4, <1>0, GoesOn DEF Work, faultVars
  <1>5. QED  BY <1>2, <1>3, <1>4 DEF Think

(* Steps that change only where a decision is and what it copied.          *)
LEMMA LogGetStep ==
  ASSUME IInv, NEW m \in Msgs, LogGet(m)
  PROVE  IInv'
  <1> DEFINE h == handler[m]
             r == [h EXCEPT !.pc = "logPut", !.logCopy = sdrLog]
  <1>0. Work(m)
    BY AtWork
  <1>1. h.pc = "logGet" /\ Decision(m, r)
    BY DEF LogGet
  <1>2. r \in Decisions /\ r.pc = "logPut" /\ r.parts = h.parts /\ r.late = h.late
        /\ r.spoke = h.spoke /\ r.over = h.over /\ r.resumed = h.resumed /\ r.copy = h.copy
    BY <1>0 DEF Work, Decisions
  <1>3. MayAnswer(r) => MayAnswer(h)
    BY <1>1, <1>2 DEF MayAnswer
  <1> HIDE DEF r
  <1>4. QED
    BY <1>1, <1>2, <1>3, <1>0, GoesOn DEF Work, LogGet, history, faultVars

LEMMA StampLookStep ==
  ASSUME IInv, NEW m \in Msgs, StampLook(m)
  PROVE  IInv'
  <1> DEFINE h == handler[m]
             b == thread.brain
             again == (b.msg = m /\ (b.retried \/ b.action = "error"))
             r == [h EXCEPT !.pc = "stampGet", !.retried = again]
  <1>0. Work(m)
    BY AtWork
  <1>1. h.pc = "stamp" /\ Decision(m, r)
    BY DEF StampLook
  <1>2. again \in BOOLEAN
    BY <1>0 DEF Work, Thread, Brain
  <1>3. r \in Decisions /\ r.pc = "stampGet" /\ r.late = h.late
        /\ r.spoke = h.spoke /\ r.over = h.over /\ r.resumed = h.resumed /\ r.copy = h.copy
    BY <1>2, <1>0 DEF Work, Decisions
  <1>4. ~MayAnswer(r)
    BY <1>3 DEF MayAnswer
  <1> HIDE DEF r
  <1>5. QED
    BY <1>1, <1>3, <1>4, <1>0, GoesOn DEF Work, StampLook, history, faultVars

LEMMA StampGetStep ==
  ASSUME IInv, NEW m \in Msgs, StampGet(m)
  PROVE  IInv'
  <1> DEFINE h == handler[m]
             r == [h EXCEPT !.pc = "stampPut", !.copy = thread]
  <1>0. Work(m)
    BY AtWork
  <1>1. h.pc = "stampGet" /\ Decision(m, r)
    BY DEF StampGet
  <1>2. r \in Decisions /\ r.pc = "stampPut" /\ r.late = h.late
        /\ r.spoke = h.spoke /\ r.over = h.over /\ r.resumed = h.resumed /\ r.copy = thread
    BY <1>0 DEF Work, Decisions
  <1>3. ~MayAnswer(r)
    BY <1>2 DEF MayAnswer
  <1> HIDE DEF r
  <1>4. QED
    BY <1>1, <1>2, <1>3, <1>0, GoesOn DEF Work, StampGet, history, faultVars

LEMMA TurnStep ==
  ASSUME IInv, NEW m \in Msgs, Turn(m) \/ TurnUnknown(m)
  PROVE  IInv'
  <1> DEFINE h == handler[m]
             r == [h EXCEPT !.pc = "send"]
  <1>0. Work(m)
    BY AtWork
  <1>1. h.pc = "turn"
    BY DEF Turn, TurnUnknown
  <1>2. r \in Decisions /\ r.pc = "send" /\ r.late = h.late /\ r.parts = h.parts
        /\ r.spoke = h.spoke /\ r.over = h.over /\ r.resumed = h.resumed /\ r.copy = h.copy
    BY <1>0 DEF Work, Decisions
  <1>3. MayAnswer(r) => MayAnswer(h)
    BY <1>1, <1>2 DEF MayAnswer
  <1> HIDE DEF r
  <1>4. CASE Turn(m) /\ Decision(m, Settled(h))
    BY <1>1, <1>4, Settles DEF Turn, history
  <1>5. CASE Turn(m) /\ Decision(m, r) /\ ~TurnLost(m)
    <2>1. h.over = 0
      BY <1>5, <1>0 DEF Work
    <2>2. QED
      BY <1>1, <1>2, <1>3, <1>5, <2>1, <1>0, GoesOn DEF Work, Turn, history, faultVars
  <1>6. CASE TurnUnknown(m)
    <2>1. Error /\ Decision(m, r)
      BY <1>6 DEF TurnUnknown, r
    <2>2. /\ faults' = faults + 1
          /\ left' \in LeftType
      BY <2>1, <1>0 DEF Work, LeftType, Error
    <2>3. QED
      BY <1>1, <1>2, <1>3, <1>6, <2>1, <2>2, <1>0, GoesOn DEF Work, TurnUnknown, history
  <1>7. QED  BY <1>4, <1>5, <1>6 DEF Turn, r

LEMMA BudgetBound ==
  ASSUME IInv, NEW m \in Msgs, "crossed" \notin excused
  PROVE  /\ answers[m] \in Nat /\ Budget \in Nat
         /\ answers[m] <= 1 + Budget
         /\ MayAnswer(handler[m]) => answers[m] <= Budget
         /\ Inflight(m) /\ ~handler[m].resumed =>
                answers[m] <= IF MayAnswer(handler[m]) THEN 0 ELSE 1
         /\ thread.lastIn = m /\ thread.lastDir = "in" /\ handler[m].pc # "record" =>
                answers[m] <= Budget
  <1>1. Types /\ OnceInv
    BY DEF IInv
  <1>2. faults \in Nat /\ Stale \in Nat
    BY <1>1 DEF Types, Stale
  <1>3. QED  BY <1>1, <1>2 DEF Types, OnceInv, Budget

(* stamp() writes the log back with its mark.                              *)
LEMMA LogPutStep ==
  ASSUME IInv, NEW m \in Msgs, LogPut(m)
  PROVE  IInv'
  <1> DEFINE h == handler[m]
             new == h.logCopy \cup h.mark
             r == IF h.parts = 0 THEN Settled(h)
                  ELSE [h EXCEPT !.pc = "turn", !.log = new, !.mark = {}, !.logCopy = {}]
             b == rec[Bot(m)]
             a == answers[m]
  <1>0. Work(m)
    BY AtWork
  <1>1. /\ h.pc = "logPut" /\ sdrLog' = new /\ Decision(m, r)
        /\ handedOff' = (handedOff \/ "handoff" \in h.mark)
        /\ excused' = excused \cup {e \in {"forgotten"} : ~(sdrLog \subseteq new)}
        /\ UNCHANGED <<thread, stored, bots, human, rec, acked, sweep, left, faults, answers>>
    BY DEF LogPut, Excuse, faultVars
  <1>2. h \in Decisions /\ new \subseteq Marks
    BY <1>0 DEF Work, Decisions
  <1>3. h.parts = 0 => /\ r \in Decisions /\ r.pc = "stamp" /\ r.resumed = h.resumed /\ r.over = 0
                       /\ r.spoke = 0 /\ r.late = FALSE /\ r.copy.lastIn = 0
    BY <1>2, SettledFacts
  <1>4. h.parts # 0 =>
           /\ r \in Decisions /\ r.pc = "turn" /\ r.parts = h.parts /\ r.late = h.late
           /\ r.spoke = h.spoke /\ r.over = h.over /\ r.resumed = h.resumed /\ r.copy = h.copy
    BY <1>2 DEF Decisions
  <1>5. /\ r \in Decisions /\ r.pc \in {"stamp", "turn"} /\ r.resumed = h.resumed
        /\ r.copy.lastIn \in Known
        /\ r.pc = "turn" => r.parts > 0
        /\ r.over > 0 => TurnLost(m)
        /\ r.over <= 1 + faults
        /\ MayAnswer(r) => MayAnswer(h)
    <2>1. CASE h.parts = 0
      BY <1>0, <1>3, <2>1 DEF Work, Known, MayAnswer
    <2>2. CASE h.parts # 0
      <3>1. h.parts > 0
        BY <1>0, <2>2 DEF Work
      <3>2. QED  BY <1>0, <1>1, <1>4, <2>2, <3>1 DEF Work, MayAnswer
    <2>3. QED  BY <2>1, <2>2
  <1>6. "forgotten" \notin excused' =>
            /\ handedOff' => "handoff" \in sdrLog'
            /\ ~r.late
    <2>1. "forgotten" \notin excused' => "forgotten" \notin excused /\ sdrLog \subseteq new
      BY <1>1
    <2>2. "forgotten" \notin excused => ~h.late /\ (handedOff => "handoff" \in sdrLog)
      BY <1>0, <1>1 DEF Work, IInv, QuietInv
    <2>3. r.late => h.late
      BY <1>3, <1>4
    <2>4. QED  BY <1>1, <2>1, <2>2, <2>3
  <1>7. b \in Records /\ a \in Nat /\ b.prev \in Known /\ b.copy.lastIn \in Known /\ b.pc = "idle"
        /\ (b.prev <= thread.lastIn \/ "crossed" \in excused)
        /\ rec' = [rec EXCEPT ![Bot(m)] = b] /\ answers' = [answers EXCEPT ![m] = a]
    BY <1>1, WriterKinds DEF IInv, Types, Shown, Waits, OnceInv
  <1>8. Budget \in Nat /\ Budget' \in Nat /\ Budget <= Budget'
    <2>1. faults \in Nat /\ faults' >= faults
      BY <1>0, <1>1 DEF Work
    <2>2. QED  BY <1>1, <2>1, BudgetGrows
  <1>9. "crossed" \notin excused =>
             /\ a <= 1 + Budget'
             /\ MayAnswer(r) => a <= Budget'
             /\ ~r.resumed => a <= IF MayAnswer(r) THEN 0 ELSE 1
             /\ thread.lastIn = m /\ thread.lastDir = "in" /\ r.pc # "record" => a <= Budget'
    BY <1>1, <1>5, <1>8, BudgetBound DEF Inflight
  <1>10. Inflight(m) /\ faults \in Nat /\ left \in LeftType /\ handedOff' \in BOOLEAN
    BY <1>0, <1>1 DEF Work, Inflight
  <1> HIDE DEF r, a, b, new
  <1>11. MayAct(m, r, b, a)
    BY <1>1, <1>2, <1>5, <1>6, <1>7, <1>9, <1>10 DEF MayAct, new
  <1>12. QED
    BY <1>1, <1>5, <1>7, <1>11, Acts

(* sendText: the message went out.                                         *)
LEMMA SendStep ==
  ASSUME IInv, NEW m \in Msgs, Send(m)
  PROVE  IInv'
  <1> DEFINE h == handler[m]
             r == [h EXCEPT !.pc = "record", !.spoke = @ + 1,
                            !.over = IF TurnLost(m) THEN @ + 1 ELSE @]
             b == [rec[Bot(m)] EXCEPT !.pc = "look"]
             a == IF h.spoke = 0 THEN answers[m] + 1 ELSE answers[m]
  <1>0. Work(m)
    BY AtWork
  <1>1. /\ h.pc = "send" /\ Decision(m, r)
        /\ UNCHANGED <<thread, stored, bots, human, sdrLog, acked, sweep, left, faults, excused, handedOff>>
    BY DEF Send, Accept, rowVars, faultVars
  <1>2. rec \in [Writers -> Records] /\ answers \in [Msgs -> Nat]
    BY DEF IInv, Types
  <1>3. /\ b \in Records /\ b.pc = "look" /\ b.prev = rec[Bot(m)].prev
        /\ b.copy = rec[Bot(m)].copy /\ rec' = [rec EXCEPT ![Bot(m)] = b]
    BY <1>2, WriterKinds DEF Records, Send
  <1>4. a \in Nat /\ answers' = [answers EXCEPT ![m] = a]
    BY <1>2 DEF Send, Accept
  <1>5. /\ r \in Decisions /\ r.pc = "record" /\ r.parts = h.parts /\ r.late = h.late
        /\ r.spoke = h.spoke + 1 /\ r.resumed = h.resumed /\ r.copy = h.copy
        /\ r.over = IF TurnLost(m) THEN h.over + 1 ELSE h.over
    <2> DEFINE o == IF TurnLost(m) THEN h.over + 1 ELSE h.over
    <2>1. h \in Decisions /\ h.spoke + 1 \in Nat /\ o \in Nat
      BY <1>0 DEF Work
    <2>2. r = [h EXCEPT !.pc = "record", !.spoke = h.spoke + 1, !.over = o]
      BY <2>1 DEF Decisions
    <2> HIDE DEF o, r
    <2>3. /\ r \in Decisions /\ r.pc = "record" /\ r.parts = h.parts /\ r.late = h.late
          /\ r.spoke = h.spoke + 1 /\ r.resumed = h.resumed /\ r.copy = h.copy /\ r.over = o
      BY <2>1, <2>2 DEF Decisions
    <2>4. QED  BY <2>3 DEF o
  <1>6. r.over > 0 => TurnLost(m)
    BY <1>0, <1>5 DEF Work
  <1>7. r.over <= 1 + faults
    <2>1. h.over <= faults
      BY <1>1 DEF IInv, TurnInv
    <2>2. QED  BY <1>0, <1>5, <2>1 DEF Work
  <1>8. b.prev \in Known /\ b.copy.lastIn \in Known
        /\ (b.prev <= thread.lastIn \/ "crossed" \in excused)
    BY <1>3, WriterKinds DEF IInv, Shown, OnceInv
  <1>9. Budget' = Budget
    BY <1>1 DEF Budget, Stale
  <1>10. "forgotten" \notin excused => ~h.late /\ (handedOff => "handoff" \in sdrLog)
    BY <1>0, <1>1 DEF Work, IInv, QuietInv
  <1>11. ~MayAnswer(r)
    BY <1>5 DEF MayAnswer
  <1>12. "crossed" \notin excused => a <= 1 + Budget /\ (~h.resumed => a <= 1)
    <2>1. SUFFICES ASSUME "crossed" \notin excused PROVE a <= 1 + Budget /\ (~h.resumed => a <= 1)
      OBVIOUS
    <2>2. answers[m] \in Nat /\ Budget \in Nat /\ answers[m] <= 1 + Budget
          /\ (~h.resumed => answers[m] <= IF MayAnswer(h) THEN 0 ELSE 1)
          /\ (MayAnswer(h) => answers[m] <= Budget)
      BY <1>1, <2>1, BudgetBound DEF Inflight
    <2>3. h.spoke = 0 => MayAnswer(h)
      BY <1>1 DEF MayAnswer
    <2>4. CASE h.spoke = 0
      BY <2>2, <2>3, <2>4
    <2>5. CASE h.spoke # 0
      BY <2>2, <2>5
    <2>6. QED  BY <2>4, <2>5
  <1>13. Inflight(m) /\ faults \in Nat /\ left \in LeftType /\ handedOff \in BOOLEAN /\ h.parts > 0
         /\ h.copy.lastIn \in Known /\ sdrLog \subseteq Marks
    BY <1>0, <1>1 DEF Work, Inflight
  <1> HIDE DEF r, a, b
  <1>14. /\ r.spoke > 0
         /\ "crossed" \notin excused =>
             /\ a <= 1 + Budget'
             /\ MayAnswer(r) => a <= Budget'
             /\ ~r.resumed => a <= IF MayAnswer(r) THEN 0 ELSE 1
             /\ thread.lastIn = m /\ thread.lastDir = "in" /\ r.pc # "record" => a <= Budget'
    <2>1. r.spoke > 0
      BY <1>0, <1>5 DEF Work
    <2>2. QED  BY <1>5, <1>9, <1>11, <1>12, <2>1
  <1>15. MayAct(m, r, b, a)
    BY <1>1, <1>3, <1>5, <1>6, <1>7, <1>8, <1>10, <1>13, <1>14 DEF MayAct
  <1>16. QED
    BY <1>1, <1>3, <1>4, <1>5, <1>15, Acts

(* A query or a call of a decision throws.                                 *)
LEMMA FailsStep ==
  ASSUME IInv, NEW m \in Msgs, Fails(m)
  PROVE  IInv'
  <1> DEFINE h == handler[m]
             tell == "alert" \notin sdrLog
             r == [Settled(h) EXCEPT !.pc = IF tell THEN "logGet" ELSE @, !.action = "error",
                                     !.mark = IF tell THEN {"alert"} ELSE {}]
  <1>0. Work(m)
    BY AtWork
  <1>1. /\ h.pc \in {"read", "list", "think", "send", "record"} /\ Decision(m, r)
        /\ UNCHANGED <<thread, stored, bots, human, sdrLog, acked, sweep, excused, handedOff>>
    BY DEF Fails, Accept, rowVars, history
  <1>2. left' \in LeftType /\ faults' = faults + 1 /\ faults \in Nat
    BY <1>0 DEF Work, LeftType, Fails, Error
  <1>3. rec \in [Writers -> Records] /\ answers \in [Msgs -> Nat]
    BY DEF IInv, Types
  <1>4. /\ r \in Decisions /\ r.pc \in {"stamp", "logGet"} /\ r.resumed = h.resumed /\ r.over = 0
        /\ r.spoke = 0 /\ r.late = FALSE /\ r.copy.lastIn = 0 /\ r.parts = 0
    <2> DEFINE d == Settled(h)
               p == IF tell THEN "logGet" ELSE d.pc
               q == IF tell THEN {"alert"} ELSE {}
    <2>1. /\ d \in Decisions /\ d.pc = "stamp" /\ d.resumed = h.resumed /\ d.over = 0
          /\ d.spoke = 0 /\ d.late = FALSE /\ d.copy.lastIn = 0 /\ d.parts = 0
      BY <1>0, SettledFacts DEF Work
    <2>2. p \in {"stamp", "logGet"} /\ q \in SUBSET Marks
      BY <2>1 DEF Marks
    <2>3. r = [d EXCEPT !.pc = p, !.action = "error", !.mark = q]
      BY <2>1 DEF Decisions
    <2> HIDE DEF d, p, q, r
    <2>4. QED  BY <2>1, <2>2, <2>3 DEF Decisions, Actions
  <1>5. ~MayAnswer(r)
    BY <1>4 DEF MayAnswer
  <1>6. rec' = [rec EXCEPT ![Bot(m)] = NoRec]
    BY DEF Fails
  <1>7. PICK a \in Nat : /\ answers' = [answers EXCEPT ![m] = a]
                         /\ (a = answers[m] \/ (a = answers[m] + 1 /\ h.pc = "send" /\ h.spoke = 0))
    <2>1. answers[m] \in Nat /\ answers[m] + 1 \in Nat /\ answers = [answers EXCEPT ![m] = answers[m]]
      BY <1>3
    <2>2. ASSUME answers' = answers
          PROVE  \E a \in Nat : /\ answers' = [answers EXCEPT ![m] = a]
                                /\ (a = answers[m] \/ (a = answers[m] + 1 /\ h.pc = "send" /\ h.spoke = 0))
      <3>1. answers' = [answers EXCEPT ![m] = answers[m]]
        BY <2>1, <2>2
      <3>2. QED  BY <2>1, <3>1
    <2>3. CASE h.pc = "send" /\ answers' = [answers EXCEPT ![m] = IF h.spoke = 0 THEN @ + 1 ELSE @]
      <3>1. CASE h.spoke = 0
        <4>1. answers' = [answers EXCEPT ![m] = answers[m] + 1]
          BY <2>3, <3>1
        <4>2. QED  BY <2>1, <2>3, <3>1, <4>1
      <3>2. CASE h.spoke # 0
        <4>1. answers' = answers
          BY <2>1, <2>3, <3>2
        <4>2. QED  BY <2>2, <4>1
      <3>3. QED  BY <3>1, <3>2
    <2>4. QED  BY <2>2, <2>3 DEF Fails, Accept, history
  <1>8. Budget \in Nat /\ Budget' = Budget + 1
    <2>1. Stale' = Stale /\ Stale \in Nat
      BY <1>1 DEF Stale
    <2>2. QED  BY <1>2, <2>1 DEF Budget
  <1>9. "crossed" \notin excused => a <= Budget' /\ (~h.resumed => a <= 1)
    <2>1. SUFFICES ASSUME "crossed" \notin excused PROVE a <= Budget' /\ (~h.resumed => a <= 1)
      OBVIOUS
    <2>2. answers[m] \in Nat /\ Budget \in Nat /\ answers[m] <= 1 + Budget
          /\ (~h.resumed => answers[m] <= IF MayAnswer(h) THEN 0 ELSE 1)
          /\ (MayAnswer(h) => answers[m] <= Budget)
      BY <1>1, <2>1, BudgetBound DEF Inflight
    <2>3. h.pc = "send" /\ h.spoke = 0 => MayAnswer(h)
      BY DEF MayAnswer
    <2>4. QED  BY <1>7, <1>8, <2>2, <2>3
  <1>10. "forgotten" \notin excused => (handedOff => "handoff" \in sdrLog)
    BY DEF IInv, QuietInv
  <1>11. Inflight(m) /\ handedOff \in BOOLEAN /\ sdrLog \subseteq Marks
         /\ 0 \in Known /\ (0 <= thread.lastIn \/ "crossed" \in excused)
    <2>1. thread.lastIn \in 0..N /\ N \in Nat
      BY <1>0, SdrAssumption DEF Work, Thread
    <2>2. QED  BY <1>0, <1>1, <2>1 DEF Work, Inflight, Known
  <1> HIDE DEF r
  <1>12. "crossed" \notin excused =>
             /\ a <= 1 + Budget'
             /\ MayAnswer(r) => a <= Budget'
             /\ ~r.resumed => a <= IF MayAnswer(r) THEN 0 ELSE 1
             /\ thread.lastIn = m /\ thread.lastDir = "in" /\ r.pc # "record" => a <= Budget'
    BY <1>4, <1>5, <1>7, <1>8, <1>9
  <1>13. r.over <= 1 + faults' /\ faults' \in Nat /\ faults' >= faults
    BY <1>2, <1>4
  <1>14. MayAct(m, r, NoRec, a)
    BY <1>1, <1>2, <1>4, <1>10, <1>11, <1>12, <1>13, Constant DEF MayAct
  <1>15. QED
    BY <1>1, <1>4, <1>6, <1>7, <1>14, Constant, Acts

-----------------------------------------------------------------------------
(* The end of a decision.                                                  *)
LEMMA Leaves ==
  ASSUME IInv, NEW m \in Msgs, Leave(m), handler[m].pc \notin {"idle", "record"},
         UNCHANGED <<stored, bots, human, sdrLog, rec, acked, answers, handedOff>>,
         thread' \in Thread, thread'.lastIn \in Known,
         left' \in LeftType, faults' \in Nat, faults' >= faults,
         excused \subseteq excused', excused' \subseteq excused \cup {"crossed"},
         "crossed" \notin excused' =>
             thread'.lastIn = thread.lastIn /\ thread'.lastDir = thread.lastDir
  PROVE  IInv'
  <1> USE DEF IInv
  <1>1. /\ handler \in [Msgs -> Decisions] /\ handler' \in [Msgs -> Decisions]
        /\ handler'[m] = NoDecision /\ \A k \in Msgs \ {m} : handler'[k] = handler[k]
    BY Constant DEF Types, Leave, Decision
  <1>2. sweep' = IF handler[m].resumed THEN [pc |-> "idle", msg |-> 0] ELSE sweep
    BY DEF Leave
  <1>3. /\ sweep' \in [pc : {"idle", "found", "waits"}, msg : 0..N]
        /\ sweep'.pc # "idle" => sweep' = sweep
    <2>1. 0 \in 0..N
      BY SdrAssumption
    <2>2. [pc |-> "idle", msg |-> 0] \in [pc : {"idle", "found", "waits"}, msg : 0..N]
      BY <2>1
    <2>3. QED  BY <1>2, <2>2 DEF Types
  <1>4. \A k \in Msgs : Inflight(k)' => k # m /\ Inflight(k)
    BY <1>1, Constant DEF Inflight
  <1>5. Types'
    BY <1>1, <1>3 DEF Types, LeftType
  <1>6. Waits'
    <2>1. \A k \in Msgs : rec'[Bot(k)].pc # "idle" <=> handler'[k].pc = "record"
      BY <1>1, Constant DEF Waits
    <2>2. sweep'.pc = "waits" => handler'[sweep'.msg].resumed /\ Inflight(sweep.msg)' /\ sweep' = sweep
      <3>1. SUFFICES ASSUME sweep'.pc = "waits"
            PROVE  handler'[sweep'.msg].resumed /\ Inflight(sweep.msg)' /\ sweep' = sweep
        OBVIOUS
      <3>2. sweep' = sweep /\ ~handler[m].resumed
        BY <1>2, <1>3, <3>1
      <3>3. sweep.msg \in Msgs /\ sweep.msg # m
        BY <3>1, <3>2 DEF Shown, Types, Waits
      <3>4. QED  BY <1>1, <3>1, <3>2, <3>3 DEF Waits, Inflight
    <2>3. \A k \in Msgs : Inflight(k)' /\ handler'[k].resumed => sweep'.pc = "waits" /\ sweep'.msg = k
      <3>1. SUFFICES ASSUME NEW k \in Msgs, Inflight(k)', handler'[k].resumed
            PROVE  sweep'.pc = "waits" /\ sweep'.msg = k
        OBVIOUS
      <3>2. k # m /\ Inflight(k) /\ handler[k].resumed
        BY <1>1, <1>4, <3>1
      <3>3. ~handler[m].resumed
        BY <3>2 DEF Waits, Inflight
      <3>4. QED  BY <1>2, <3>2, <3>3 DEF Waits
    <2>4. \A k \in Msgs : handler'[k].pc \in {"turn", "send", "record"} => handler'[k].parts > 0
      BY <1>1, Constant DEF Waits
    <2>5. \A k \in Msgs : handler'[k].pc \in {"read", "list", "think"} => handler'[k].spoke = 0
      BY <1>1, Constant DEF Waits
    <2>6. \A k \in Msgs : handler'[k].pc = "record" => handler'[k].spoke > 0
      BY <1>1, Constant DEF Waits
    <2>7. QED  BY <2>1, <2>2, <2>3, <2>4, <2>5, <2>6 DEF Waits, Inflight
  <1>7. Shown'
    <2>1. \A k \in Msgs : handler'[k].copy.lastIn \in Known
      BY <1>1, Constant DEF Shown, Known
    <2>2. \A k \in Msgs : Inflight(k)' \/ rec'[In(k)].pc \in {"get", "put", "told"} => k \in stored
      BY <1>4 DEF Shown
    <2>3. sweep'.pc # "idle" => sweep'.msg \in stored
      BY <1>3 DEF Shown
    <2>4. QED  BY <2>1, <2>2, <2>3 DEF Shown, Known
  <1>8. TurnInv'
    <2>1. \A k \in Msgs : TurnLost(k)' = TurnLost(k)
      BY DEF TurnLost, Newest
    <2>2. \A k \in Msgs : handler[k].over \in Nat
      BY <1>1 DEF Decisions
    <2>3. faults \in Nat
      BY DEF Types
    <2>4. QED  BY <1>1, <2>1, <2>2, <2>3, Constant DEF TurnInv, Inflight
  <1>9. QuietInv'
    BY <1>1, Constant DEF QuietInv
  <1>10. OnceInv'
    <2>1. SUFFICES ASSUME "crossed" \notin excused' PROVE OnceInv'
      BY DEF OnceInv
    <2>2. "crossed" \notin excused /\ thread'.lastIn = thread.lastIn /\ thread'.lastDir = thread.lastDir
      BY <2>1
    <2>3. Budget \in Nat /\ Budget' \in Nat /\ Budget <= Budget'
      <3>1. faults \in Nat
        BY DEF Types
      <3>2. QED  BY <3>1, BudgetGrows
    <2>4. \A w \in Writers : rec'[w].prev <= thread'.lastIn
      BY <2>2 DEF OnceInv
    <2>5. ASSUME NEW k \in Msgs
          PROVE  (/\ answers[k] <= 1 + Budget
                  /\ MayAnswer(handler[k]) => answers[k] <= Budget
                  /\ Inflight(k) /\ ~handler[k].resumed =>
                        answers[k] <= IF MayAnswer(handler[k]) THEN 0 ELSE 1
                  /\ k \notin stored \/ rec[In(k)].pc \in {"get", "put", "told"} =>
                        answers[k] = 0 /\ ~Inflight(k) /\ (sweep.pc = "idle" \/ sweep.msg # k)
                  /\ thread.lastIn = k /\ thread.lastDir = "in" /\ handler[k].pc # "record" =>
                        answers[k] <= Budget
                  /\ sweep.pc = "found" /\ sweep.msg = k => answers[k] <= Budget \/ answers[k] <= 1)'
      <3>1. answers[k] \in Nat
        BY DEF Types
      <3>2. /\ answers[k] <= 1 + Budget => answers[k] <= 1 + Budget'
            /\ answers[k] <= Budget => answers[k] <= Budget'
        BY <2>3, <3>1
      <3>3. /\ MayAnswer(handler'[k]) => MayAnswer(handler[k])
            /\ Inflight(k)' => handler'[k] = handler[k]
            /\ handler[k].pc = "record" => handler'[k].pc = "record"
        BY <1>1, <1>4, Constant DEF MayAnswer
      <3>4. QED  BY <1>3, <1>4, <2>2, <3>2, <3>3 DEF OnceInv
    <2>6. QED  BY <2>4, <2>5 DEF OnceInv
  <1>11. QED  BY <1>5, <1>6, <1>7, <1>8, <1>9, <1>10

LEMMA ListStep ==
  ASSUME IInv, NEW m \in Msgs, List(m)
  PROVE  IInv'
  <1> DEFINE h == handler[m]
  <1>0. Work(m)
    BY AtWork
  <1>1. /\ h.pc = "list" /\ h.spoke = 0
        /\ UNCHANGED <<rowVars, rec, acked, faultVars, answers, handedOff, excused>>
    BY <1>0 DEF Work, List, history
  <1>2. CASE Leave(m)
    <2>1. thread \in Thread /\ thread.lastIn \in Known /\ left \in LeftType /\ faults \in Nat
      BY <1>0 DEF Work
    <2>2. QED  BY <1>1, <1>2, <2>1, Leaves DEF rowVars, faultVars
  <1>3. CASE Decision(m, Settled(h)) /\ UNCHANGED sweep
    BY <1>1, <1>3, Settles
  <1>4. CASE /\ Decision(m, [h EXCEPT !.pc = "think", !.first = (bots = 0)])
             /\ UNCHANGED sweep /\ ~HandoffHolds(h)
    <2> DEFINE r == [h EXCEPT !.pc = "think", !.first = (bots = 0)]
    <2>1. /\ r \in Decisions /\ r.pc = "think" /\ r.late = h.late /\ r.spoke = h.spoke
          /\ r.over = h.over /\ r.resumed = h.resumed /\ r.copy = h.copy
      BY <1>0 DEF Work, Decisions
    <2>2. MayAnswer(h)
      BY <1>1 DEF MayAnswer
    <2>3. "forgotten" \notin excused => ~h.late
      BY <1>0, <1>4 DEF Work, HandoffHolds
    <2> HIDE DEF r
    <2>4. Decision(m, r)
      BY <1>4 DEF r
    <2>5. QED
      BY <1>0, <1>1, <1>4, <2>1, <2>2, <2>3, <2>4, GoesOn DEF Work, faultVars
  <1>5. CASE /\ Decision(m, [h EXCEPT !.pc = "logGet", !.mark = {"cap", "handoff"}])
             /\ UNCHANGED sweep /\ ~HandoffHolds(h)
    <2> DEFINE r == [h EXCEPT !.pc = "logGet", !.mark = {"cap", "handoff"}]
    <2>1. /\ r \in Decisions /\ r.pc = "logGet" /\ r.late = h.late /\ r.spoke = h.spoke
          /\ r.over = h.over /\ r.resumed = h.resumed /\ r.copy = h.copy
      BY <1>0 DEF Work, Decisions, Marks
    <2>2. MayAnswer(h)
      BY <1>1 DEF MayAnswer
    <2>3. "forgotten" \notin excused => ~h.late
      BY <1>0, <1>5 DEF Work, HandoffHolds
    <2> HIDE DEF r
    <2>4. Decision(m, r)
      BY <1>5 DEF r
    <2>5. QED
      BY <1>0, <1>1, <1>5, <2>1, <2>2, <2>3, <2>4, GoesOn DEF Work, faultVars
  <1>6. QED  BY <1>2, <1>3, <1>4, <1>5 DEF List

LEMMA StampPutStep ==
  ASSUME IInv, NEW m \in Msgs, StampPut(m)
  PROVE  IInv'
  <1> DEFINE h == handler[m]
             brain == [msg |-> m, action |-> h.action, retried |-> h.retried]
             t == [h.copy EXCEPT !.brain = brain]
  <1>0. Work(m)
    BY AtWork
  <1>1. /\ h.pc = "stampPut" /\ thread' = t /\ Leave(m)
        /\ excused' = excused \cup {e \in {"crossed"} : thread # h.copy}
        /\ UNCHANGED <<stored, bots, human, sdrLog, rec, acked, left, faults, answers, handedOff>>
    BY DEF StampPut, Excuse, faultVars
  <1>2. h \in Decisions /\ h.copy \in Thread /\ brain \in Brain
    <2>1. N \in Nat /\ m \in 0..N
      BY SdrAssumption DEF Msgs
    <2>2. h \in Decisions
      BY <1>0 DEF Work
    <2>3. h.copy \in Thread /\ h.action \in Actions /\ h.retried \in BOOLEAN
      BY <2>2 DEF Decisions
    <2>4. QED  BY <2>1, <2>2, <2>3 DEF Brain
  <1>3. t \in Thread /\ t.lastIn = h.copy.lastIn /\ t.lastDir = h.copy.lastDir
    BY <1>2 DEF Thread
  <1>4. "crossed" \notin excused' => thread = h.copy
    BY <1>1
  <1>5. h.copy.lastIn \in Known /\ left \in LeftType /\ faults \in Nat
    BY <1>0 DEF Work
  <1> HIDE DEF t
  <1>6. QED
    BY <1>1, <1>3, <1>4, <1>5, Leaves

LEMMA StampFailsStep ==
  ASSUME IInv, NEW m \in Msgs, StampFails(m)
  PROVE  IInv'
  <1>0. Work(m)
    BY AtWork
  <1>1. /\ handler[m].pc \in {"stamp", "stampGet", "stampPut"} /\ Leave(m)
        /\ UNCHANGED <<thread, stored, bots, human, sdrLog, rec, acked, answers, handedOff, excused>>
    BY DEF StampFails, rowVars, history
  <1>2. left' \in LeftType /\ faults' = faults + 1 /\ faults \in Nat
    BY <1>0 DEF Work, LeftType, StampFails, Error
  <1>3. thread \in Thread /\ thread.lastIn \in Known /\ faults' \in Nat /\ faults' >= faults
    BY <1>0, <1>2 DEF Work
  <1>4. QED  BY <1>1, <1>2, <1>3, Leaves

-----------------------------------------------------------------------------
(* The records of messages.                                                *)
Stored == {"get", "put", "told"}

(* A record at r, which says nothing of a decision.                        *)
MayRecord(w, r) ==
    /\ left' \in LeftType /\ faults' \in Nat /\ faults' >= faults
    /\ excused \subseteq excused' /\ excused' \subseteq excused \cup {"cut"}
    /\ bots' \in Nat /\ human' \in BOOLEAN /\ (human => human') /\ acked' \subseteq Msgs
    /\ stored \subseteq stored' /\ stored' \subseteq Msgs
    /\ r.prev \in Known /\ r.copy.lastIn \in Known
    /\ r.prev <= thread.lastIn \/ "crossed" \in excused
    /\ \A k \in Msgs : w = Bot(k) => (r.pc = "idle" <=> rec[w].pc = "idle")
    /\ \A k \in Msgs : w = In(k) /\ r.pc \in Stored =>
           k \in stored' /\ (rec[w].pc \in Stored \/ k \notin stored)

LEMMA Recorded ==
  ASSUME IInv, NEW w \in Writers, NEW r \in Records, rec' = [rec EXCEPT ![w] = r],
         UNCHANGED <<thread, sdrLog, handler, sweep, answers, handedOff>>,
         MayRecord(w, r)
  PROVE  IInv'
  <1> USE DEF IInv, MayRecord
  <1>1. UNCHANGED <<thread, sdrLog, handler, sweep, answers, handedOff>>
    OBVIOUS
  <1>2. /\ rec' \in [Writers -> Records] /\ rec'[w] = r
        /\ \A v \in Writers \ {w} : rec'[v] = rec[v]
        /\ \A k \in Msgs : In(k) \in Writers /\ Bot(k) \in Writers
    BY WriterKinds DEF Types
  <1>3. Types'
    BY <1>1, <1>2 DEF Types, LeftType
  <1>4. Waits'
    <2>1. \A k \in Msgs : rec'[Bot(k)].pc # "idle" <=> handler'[k].pc = "record"
      BY <1>1, <1>2 DEF Waits
    <2>2. QED  BY <1>1, <2>1 DEF Waits, Inflight
  <1>5. \A k \in Msgs : rec'[In(k)].pc \in Stored =>
            k \in stored' /\ (rec[In(k)].pc \in Stored \/ k \notin stored)
    BY <1>2 DEF Shown, Stored
  <1>6. Shown'
    <2>1. \A v \in Writers : rec'[v].prev \in Known /\ rec'[v].copy.lastIn \in Known
      BY <1>2 DEF Shown
    <2>2. Known \subseteq Known'
      BY DEF Known
    <2>3. \A k \in Msgs : Inflight(k)' \/ rec'[In(k)].pc \in {"get", "put", "told"} => k \in stored'
      BY <1>1, <1>5 DEF Shown, Inflight, Stored
    <2>4. QED  BY <1>1, <2>1, <2>2, <2>3 DEF Shown
  <1>7. TurnInv'
    <2>1. ASSUME NEW k \in Msgs, Inflight(k), TurnLost(k) PROVE TurnLost(k)'
      <3>1. k \in stored
        BY <2>1 DEF Shown
      <3>2. QED  BY <2>1, <3>1 DEF TurnLost, Newest
    <2>2. \A k \in Msgs : handler[k].over \in Nat
      BY DEF Types, Decisions
    <2>3. faults \in Nat
      BY DEF Types
    <2>4. \A x, y, z \in Nat : y >= x => (z <= x => z <= y) /\ (z <= 1 + x => z <= 1 + y)
      OBVIOUS
    <2>5. ASSUME NEW k \in Msgs
          PROVE  /\ handler'[k].over > 0 => Inflight(k)' /\ TurnLost(k)'
                 /\ handler'[k].over <= 1 + faults'
                 /\ handler'[k].pc = "send" => handler'[k].over <= faults'
      BY <1>1, <2>1, <2>2, <2>3, <2>4 DEF TurnInv, Inflight
    <2>6. QED  BY <2>5 DEF TurnInv
  <1>8. QuietInv'
    BY <1>1 DEF QuietInv
  <1>9. OnceInv'
    <2>1. SUFFICES ASSUME "crossed" \notin excused PROVE OnceInv'
      BY DEF OnceInv
    <2>2. Budget \in Nat /\ Budget' \in Nat /\ Budget <= Budget'
      <3>1. faults \in Nat
        BY DEF Types
      <3>2. QED  BY <3>1, BudgetGrows
    <2>3. \A v \in Writers : rec'[v].prev <= thread'.lastIn
      BY <1>1, <1>2, <2>1 DEF OnceInv
    <2>4. ASSUME NEW k \in Msgs
          PROVE  (/\ answers[k] <= 1 + Budget
                  /\ MayAnswer(handler[k]) => answers[k] <= Budget
                  /\ Inflight(k) /\ ~handler[k].resumed =>
                        answers[k] <= IF MayAnswer(handler[k]) THEN 0 ELSE 1
                  /\ k \notin stored \/ rec[In(k)].pc \in {"get", "put", "told"} =>
                        answers[k] = 0 /\ ~Inflight(k) /\ (sweep.pc = "idle" \/ sweep.msg # k)
                  /\ thread.lastIn = k /\ thread.lastDir = "in" /\ handler[k].pc # "record" =>
                        answers[k] <= Budget
                  /\ sweep.pc = "found" /\ sweep.msg = k => answers[k] <= Budget \/ answers[k] <= 1)'
      <3>1. answers[k] \in Nat
        BY DEF Types
      <3>2. /\ answers[k] <= 1 + Budget => answers[k] <= 1 + Budget'
            /\ answers[k] <= Budget => answers[k] <= Budget'
        BY <2>2, <3>1
      <3>3. k \notin stored' \/ rec'[In(k)].pc \in {"get", "put", "told"} =>
                k \notin stored \/ rec[In(k)].pc \in {"get", "put", "told"}
        BY <1>5 DEF Stored
      <3>4. Inflight(k)' = Inflight(k)
        BY <1>1 DEF Inflight
      <3>5. QED  BY <1>1, <2>1, <3>2, <3>3, <3>4 DEF OnceInv
    <2>5. QED  BY <2>3, <2>4 DEF OnceInv
  <1>10. QED  BY <1>3, <1>4, <1>6, <1>7, <1>8, <1>9

(* What is known of the record of a writer.                                *)
LEMMA Rows ==
  ASSUME IInv, NEW w \in Writers
  PROVE  /\ rec \in [Writers -> Records] /\ rec[w] \in Records
         /\ rec[w].pc \in {"idle", "look", "create", "get", "put", "told"}
         /\ rec[w].prev \in Known /\ rec[w].copy.lastIn \in Known
         /\ rec[w].prev <= thread.lastIn \/ "crossed" \in excused
         /\ thread \in Thread /\ thread.lastIn \in Known /\ 0 \in Known /\ 0 <= thread.lastIn
         /\ thread.lastIn <= thread.lastIn
         /\ left \in LeftType /\ faults \in Nat /\ faults <= faults
         /\ bots \in Nat /\ human \in BOOLEAN /\ acked \subseteq Msgs /\ stored \subseteq Msgs
         /\ \A k \in Msgs : rec[In(k)].pc \in Stored => k \in stored
  <1>1. thread.lastIn \in Nat
    BY SdrAssumption DEF IInv, Types, Thread
  <1>2. rec[w].prev <= thread.lastIn \/ "crossed" \in excused
    BY DEF IInv, OnceInv
  <1>3. rec[w] \in Records
    BY DEF IInv, Types
  <1>4. QED
    BY <1>1, <1>2, <1>3 DEF IInv, Types, Shown, Known, Records, LeftType, Stored

LEMMA ArriveStep ==
  ASSUME IInv, NEW m \in Msgs, Arrive(m)
  PROVE  IInv'
  <1> DEFINE w == In(m)
             r == [rec[w] EXCEPT !.pc = "look"]
  <1>1. w \in Writers
    BY WriterKinds
  <1>2. r \in Records /\ r.pc = "look" /\ r.prev = rec[w].prev /\ r.copy = rec[w].copy
        /\ rec' = [rec EXCEPT ![w] = r]
    BY <1>1, Rows DEF Records, Arrive
  <1>3. UNCHANGED <<thread, stored, bots, human, sdrLog, acked, handler, sweep, left, faults, answers, handedOff, excused>>
    BY DEF Arrive, rowVars, faultVars, history
  <1> HIDE DEF r
  <1>4. MayRecord(w, r)
    BY <1>1, <1>2, <1>3, Rows, WriterKinds DEF MayRecord, Stored
  <1>5. QED  BY <1>1, <1>2, <1>3, <1>4, Recorded

LEMMA HumanWritesStep ==
  ASSUME IInv, HumanWrites
  PROVE  IInv'
  <1> DEFINE w == Team
             r == [rec[w] EXCEPT !.pc = "look"]
  <1>1. w \in Writers
    BY WriterKinds
  <1>2. r \in Records /\ r.pc = "look" /\ r.prev = rec[w].prev /\ r.copy = rec[w].copy
        /\ rec' = [rec EXCEPT ![w] = r]
    BY <1>1, Rows DEF Records, HumanWrites
  <1>3. UNCHANGED <<thread, stored, bots, human, sdrLog, acked, handler, sweep, faults, answers, handedOff, excused>>
    BY DEF HumanWrites, rowVars, history
  <1>4. left' \in LeftType
    BY <1>1, Rows DEF HumanWrites, LeftType
  <1> HIDE DEF r
  <1>5. MayRecord(w, r)
    BY <1>1, <1>2, <1>3, <1>4, Rows, WriterKinds DEF MayRecord, Stored
  <1>6. QED  BY <1>1, <1>2, <1>3, <1>5, Recorded

LEMMA RecordLookStep ==
  ASSUME IInv, NEW w \in Writers, RecordLook(w)
  PROVE  IInv'
  <1> DEFINE p == IF w[1] = "in" THEN 0 ELSE thread.lastIn
             r == [rec[w] EXCEPT !.pc = "create", !.prev = p]
  <1>1. p \in 0..N
    BY Rows, SdrAssumption DEF Thread
  <1>2. /\ r \in Records /\ r.pc = "create" /\ r.prev = p /\ r.copy = rec[w].copy
        /\ rec[w].pc = "look" /\ rec' = [rec EXCEPT ![w] = r]
    BY <1>1, Rows DEF Records, RecordLook
  <1>3. UNCHANGED <<thread, stored, bots, human, sdrLog, acked, handler, sweep, left, faults, answers, handedOff, excused>>
    BY DEF RecordLook, rowVars, faultVars, history
  <1>4. p \in Known /\ p <= thread.lastIn
    BY Rows
  <1> HIDE DEF r, p
  <1>5. MayRecord(w, r)
    BY <1>2, <1>3, <1>4, Rows DEF MayRecord, Stored
  <1>6. QED  BY <1>2, <1>3, <1>5, Recorded

LEMMA RecordGetStep ==
  ASSUME IInv, NEW w \in Writers, RecordGet(w)
  PROVE  IInv'
  <1> DEFINE r == [rec[w] EXCEPT !.pc = "put", !.copy = thread]
  <1>1. /\ r \in Records /\ r.pc = "put" /\ r.prev = rec[w].prev /\ r.copy = thread
        /\ rec[w].pc = "get" /\ rec' = [rec EXCEPT ![w] = r]
    BY Rows DEF Records, RecordGet
  <1>2. UNCHANGED <<thread, stored, bots, human, sdrLog, acked, handler, sweep, left, faults, answers, handedOff, excused>>
    BY DEF RecordGet, rowVars, faultVars, history
  <1> HIDE DEF r
  <1>3. MayRecord(w, r)
    BY <1>1, <1>2, Rows DEF MayRecord, Stored
  <1>4. QED  BY <1>1, <1>2, <1>3, Recorded

LEMMA RecordFailsStep ==
  ASSUME IInv, NEW m \in Msgs, RecordFails(m)
  PROVE  IInv'
  <1>1. In(m) \in Writers /\ NoRec \in Records /\ rec' = [rec EXCEPT ![In(m)] = NoRec]
    BY WriterKinds, Constant DEF RecordFails
  <1>2. UNCHANGED <<thread, stored, bots, human, sdrLog, handler, sweep, answers, handedOff>>
    BY DEF RecordFails, rowVars, history
  <1>3. left' \in LeftType /\ faults' \in Nat /\ faults' >= faults
    BY <1>1, Rows DEF RecordFails, Error, LeftType
  <1>4. excused \subseteq excused' /\ excused' \subseteq excused \cup {"cut"} /\ acked' \subseteq Msgs
    BY <1>1, Rows DEF RecordFails, Excuse
  <1>5. MayRecord(In(m), NoRec)
    BY <1>1, <1>2, <1>3, <1>4, Rows, WriterKinds, Constant DEF MayRecord, Stored
  <1>6. QED  BY <1>1, <1>2, <1>5, Recorded

LEMMA RecordCreateStep ==
  ASSUME IInv, NEW w \in Writers, RecordCreate(w)
  PROVE  IInv'
  <1>1. /\ rec[w].pc = "create"
        /\ UNCHANGED <<thread, sdrLog, handler, sweep, left, faults, answers, handedOff, excused>>
    BY DEF RecordCreate, rowVars, faultVars, history
  <1>2. CASE w \in {In(m) : m \in stored}
    <2>1. PICK m \in stored : w = In(m)
      BY <1>2
    <2>2. m \in Msgs /\ w[2] = m
      BY <2>1, Rows DEF In
    <2>3. /\ rec' = [rec EXCEPT ![w] = NoRec] /\ acked' = acked \cup {m}
          /\ UNCHANGED <<stored, bots, human>>
      BY <1>2, <2>2 DEF RecordCreate, rowVars
    <2>4. MayRecord(w, NoRec)
      BY <1>1, <2>1, <2>2, <2>3, Rows, WriterKinds, Constant DEF MayRecord, Stored
    <2>5. QED  BY <1>1, <2>3, <2>4, Constant, Recorded
  <1>3. CASE w \notin {In(m) : m \in stored}
    <2> DEFINE r == [rec[w] EXCEPT !.pc = "get"]
    <2>1. /\ r \in Records /\ r.pc = "get" /\ r.prev = rec[w].prev /\ r.copy = rec[w].copy
          /\ rec' = [rec EXCEPT ![w] = r]
      BY <1>3, Rows DEF Records, RecordCreate
    <2>2. /\ stored' = IF w[1] = "in" THEN stored \cup {w[2]} ELSE stored
          /\ bots' = IF w[1] = "bot" THEN bots + 1 ELSE bots
          /\ human' = (human \/ w = Team) /\ acked' = acked
      BY <1>3 DEF RecordCreate
    <2>3. stored \subseteq stored' /\ stored' \subseteq Msgs
      BY <2>2, Rows, WriterKinds
    <2>4. \A k \in Msgs : w = In(k) => k \in stored' /\ k \notin stored
      BY <1>3, <2>2 DEF In
    <2>5. bots' \in Nat /\ human' \in BOOLEAN /\ (human => human') /\ acked' \subseteq Msgs
      BY <2>2, Rows
    <2> HIDE DEF r
    <2>6. MayRecord(w, r)
      BY <1>1, <2>1, <2>3, <2>4, <2>5, Rows DEF MayRecord, Stored
    <2>7. QED  BY <1>1, <2>1, <2>6, Recorded
  <1>4. QED  BY <1>2, <1>3

(* A message of the lead or of a person is on the thread.                  *)
LEMMA PutQuiet ==
  ASSUME IInv, NEW w \in Writers, RecordPut(w), w[1] # "bot"
  PROVE  IInv'
  <1> DEFINE r == IF w[1] = "in" THEN [NoRec EXCEPT !.pc = "told"] ELSE NoRec
  <1> USE DEF IInv
  <1>1. /\ rec[w].pc = "put" /\ rec' = [rec EXCEPT ![w] = r]
        /\ excused' = excused \cup Harm(w)
        /\ UNCHANGED <<stored, bots, human, sdrLog, acked, handler, sweep, left, faults, answers, handedOff>>
    BY DEF RecordPut, Excuse, faultVars, history
  <1>2. /\ thread' \in Thread /\ thread'.lastIn = LastIn(w)
        /\ thread'.lastDir = IF w[1] = "in" THEN "in" ELSE "out"
        /\ thread'.lastIn \in Known
    <2>1. LastIn(w) \in Known
      <3>1. ASSUME NEW k \in Msgs, w = In(k), w[1] = "in", w[2] = k PROVE LastIn(w) \in Known
        BY <1>1, <3>1, Rows DEF LastIn, Stored, Known
      <3>2. CASE w = Team /\ w[1] = "team"
        BY <3>2, Rows DEF LastIn
      <3>3. QED  BY <3>1, <3>2, WriterKinds
    <2>2. LastIn(w) \in 0..N
      BY <2>1, Rows, SdrAssumption DEF Known, Msgs
    <2>3. rec[w].copy \in Thread
      BY Rows DEF Records
    <2> DEFINE t == [rec[w].copy EXCEPT !.lastIn = LastIn(w), !.lastDir = IF w[1] = "in" THEN "in" ELSE "out"]
    <2>4. /\ t \in Thread /\ t.lastIn = LastIn(w)
          /\ t.lastDir = IF w[1] = "in" THEN "in" ELSE "out"
      BY <2>2, <2>3 DEF Thread
    <2>5. thread' = t
      BY DEF RecordPut
    <2> HIDE DEF t
    <2>6. QED  BY <2>1, <2>4, <2>5
  <1>3. /\ r \in Records /\ r.prev = 0 /\ r.copy.lastIn = 0 /\ r.pc \in {"idle", "told"}
        /\ (w[1] # "in" => r.pc = "idle")
    BY Constant DEF Records
  <1> HIDE DEF r
  <1>4. /\ rec' \in [Writers -> Records] /\ rec'[w] = r
        /\ \A v \in Writers \ {w} : rec'[v] = rec[v]
        /\ \A k \in Msgs : rec'[Bot(k)] = rec[Bot(k)]
        /\ \A k \in Msgs : In(k) \in Writers
    BY <1>1, <1>3, WriterKinds, Rows DEF Bot
  <1>5. excused \subseteq excused' /\ excused' \subseteq excused \cup {"crossed", "hidden"}
    BY <1>1 DEF Harm
  <1>6. Types'
    BY <1>1, <1>2, <1>4, <1>5 DEF Types
  <1>7. Waits'
    BY <1>1, <1>4 DEF Waits, Inflight
  <1>8. \A k \in Msgs : rec'[In(k)].pc \in {"get", "put", "told"} => rec[In(k)].pc \in {"get", "put", "told"}
    BY <1>1, <1>4
  <1>9. Shown'
    <2>1. \A v \in Writers : rec'[v].prev \in Known /\ rec'[v].copy.lastIn \in Known
      BY <1>3, <1>4, Rows DEF Shown
    <2>2. \A k \in Msgs : Inflight(k)' \/ rec'[In(k)].pc \in {"get", "put", "told"} => k \in stored
      BY <1>1, <1>8 DEF Shown, Inflight
    <2>3. QED  BY <1>1, <1>2, <2>1, <2>2 DEF Shown, Known
  <1>10. TurnInv'
    BY <1>1 DEF TurnInv, Inflight, TurnLost, Newest
  <1>11. QuietInv'
    BY <1>1, <1>5 DEF QuietInv
  <1>12. OnceInv'
    <2>1. SUFFICES ASSUME "crossed" \notin excused' PROVE OnceInv'
      BY DEF OnceInv
    <2>2. "crossed" \notin excused /\ ~(LastIn(w) < thread.lastIn)
      BY <1>1, <2>1 DEF Harm
    <2>3. thread.lastIn <= thread'.lastIn
      <3>1. \A x, y \in 0..N : ~(x < y) => y <= x
        BY SdrAssumption
      <3>2. QED  BY <1>2, <2>2, <3>1, Rows DEF Thread
    <2>4. \A v \in Writers : rec'[v].prev <= thread'.lastIn
      <3>1. \A x, y, z \in 0..N : x <= y /\ y <= z => x <= z
        BY SdrAssumption
      <3>2. thread.lastIn \in 0..N /\ thread'.lastIn \in 0..N /\ \A v \in Writers : rec[v].prev \in 0..N
        BY <1>2, Rows DEF Thread, Records
      <3>3. 0 <= thread'.lastIn
        BY <3>2, SdrAssumption
      <3>4. QED  BY <1>3, <1>4, <2>2, <2>3, <3>1, <3>2, <3>3 DEF OnceInv
    <2>5. Budget' = Budget
      BY <1>1, <1>5 DEF Budget, Stale, Harm
    <2>6. ASSUME NEW k \in Msgs, thread'.lastIn = k, thread'.lastDir = "in" PROVE answers[k] <= Budget
      <3>1. w[1] = "in"
        BY <1>2, <2>6
      <3>2. w = In(k)
        BY <1>2, <2>6, <3>1, WriterKinds DEF LastIn
      <3>3. answers[k] = 0
        BY <1>1, <2>2, <3>2 DEF OnceInv
      <3>4. Budget \in Nat
        <4>1. faults \in Nat
          BY Rows
        <4>2. QED  BY <4>1 DEF Budget, Stale
      <3>5. QED  BY <3>3, <3>4
    <2>7. ASSUME NEW k \in Msgs
          PROVE  (/\ answers[k] <= 1 + Budget
                  /\ MayAnswer(handler[k]) => answers[k] <= Budget
                  /\ Inflight(k) /\ ~handler[k].resumed =>
                        answers[k] <= IF MayAnswer(handler[k]) THEN 0 ELSE 1
                  /\ k \notin stored \/ rec[In(k)].pc \in {"get", "put", "told"} =>
                        answers[k] = 0 /\ ~Inflight(k) /\ (sweep.pc = "idle" \/ sweep.msg # k)
                  /\ thread.lastIn = k /\ thread.lastDir = "in" /\ handler[k].pc # "record" =>
                        answers[k] <= Budget
                  /\ sweep.pc = "found" /\ sweep.msg = k => answers[k] <= Budget \/ answers[k] <= 1)'
      <3>1. Inflight(k)' = Inflight(k)
        BY <1>1 DEF Inflight
      <3>2. QED  BY <1>1, <1>8, <2>2, <2>5, <2>6, <3>1 DEF OnceInv
    <2>8. QED  BY <2>4, <2>7 DEF OnceInv
  <1>13. QED  BY <1>6, <1>7, <1>9, <1>10, <1>11, <1>12

(* What follows a part of an answer.                                       *)
LEMMA AfterPartFacts ==
  ASSUME NEW h \in Decisions, h.parts > 0, h.spoke > 0
  PROVE  /\ AfterPart(h) \in Decisions /\ AfterPart(h).pc \in {"turn", "logGet", "stamp"}
         /\ AfterPart(h).resumed = h.resumed /\ AfterPart(h).over \in {0, h.over}
         /\ AfterPart(h).late \in {FALSE, h.late} /\ AfterPart(h).copy.lastIn \in {0, h.copy.lastIn}
         /\ AfterPart(h).pc = "turn" => AfterPart(h).parts > 0
         /\ ~MayAnswer(AfterPart(h))
  <1> DEFINE more == [h EXCEPT !.parts = @ - 1, !.pc = "turn"]
  <1>1. h.parts - 1 \in 0..MAX_PARTS /\ (h.parts > 1 => h.parts - 1 > 0)
    <2>1. h.parts \in 0..MAX_PARTS /\ MAX_PARTS \in Nat
      BY SdrAssumption DEF Decisions
    <2>2. QED  BY <2>1
  <1>2. /\ more \in Decisions /\ more.pc = "turn" /\ more.parts = h.parts - 1 /\ more.spoke = h.spoke
        /\ more.resumed = h.resumed /\ more.over = h.over /\ more.late = h.late /\ more.copy = h.copy
    <2>1. more = [h EXCEPT !.parts = h.parts - 1, !.pc = "turn"]
      BY DEF Decisions
    <2>2. QED  BY <1>1, <2>1 DEF Decisions
  <1> HIDE DEF more
  <1>3. h.spoke # 0
    BY DEF Decisions
  <1>4. CASE h.spoke = 1 /\ h.first /\ "touch" \notin h.log
    <2> DEFINE r == [more EXCEPT !.pc = "logGet", !.mark = {"touch"}]
    <2>1. AfterPart(h) = r
      BY <1>4 DEF AfterPart, more
    <2>2. /\ r \in Decisions /\ r.pc = "logGet" /\ r.spoke = h.spoke
          /\ r.resumed = h.resumed /\ r.over = h.over /\ r.late = h.late /\ r.copy = h.copy
      BY <1>2 DEF Decisions, Marks
    <2> HIDE DEF r
    <2>3. QED  BY <1>3, <2>1, <2>2 DEF MayAnswer
  <1>5. CASE ~(h.spoke = 1 /\ h.first /\ "touch" \notin h.log) /\ h.parts > 1
    <2>1. AfterPart(h) = more
      BY <1>5 DEF AfterPart, more
    <2>2. QED  BY <1>1, <1>2, <1>3, <1>5, <2>1 DEF MayAnswer
  <1>6. CASE ~(h.spoke = 1 /\ h.first /\ "touch" \notin h.log) /\ ~(h.parts > 1)
    <2>1. AfterPart(h) = Settled(h)
      BY <1>6 DEF AfterPart
    <2>2. QED  BY <2>1, SettledFacts DEF MayAnswer
  <1>7. QED  BY <1>4, <1>5, <1>6

(* A part of an answer is on the thread.                                   *)
LEMMA PutPart ==
  ASSUME IInv, NEW m \in Msgs, RecordPut(Bot(m))
  PROVE  IInv'
  <1> DEFINE w == Bot(m)
             h == handler[m]
             r == AfterPart(h)
  <1> USE DEF IInv
  <1>0. w \in Writers /\ w[1] = "bot" /\ w[2] = m
    BY WriterKinds DEF Bot
  <1>1. /\ rec[w].pc = "put" /\ rec' = [rec EXCEPT ![w] = NoRec] /\ Decision(m, r)
        /\ excused' = excused \cup Harm(w)
        /\ UNCHANGED <<stored, bots, human, sdrLog, acked, sweep, left, faults, answers, handedOff>>
    BY <1>0 DEF RecordPut, Excuse, faultVars, history
  <1>2. /\ thread' \in Thread /\ thread'.lastIn = rec[w].prev /\ thread'.lastDir = "out"
        /\ thread'.lastIn \in Known
    <2> DEFINE t == [rec[w].copy EXCEPT !.lastIn = rec[w].prev, !.lastDir = "out"]
    <2>1. rec[w].copy \in Thread /\ rec[w].prev \in 0..N /\ rec[w].prev \in Known
      BY <1>0, Rows DEF Records
    <2>2. t \in Thread /\ t.lastIn = rec[w].prev /\ t.lastDir = "out"
      BY <2>1 DEF Thread
    <2>3. thread' = t
      BY <1>0 DEF RecordPut, LastIn
    <2> HIDE DEF t
    <2>4. QED  BY <2>1, <2>2, <2>3
  <1>3. h \in Decisions /\ h.pc = "record" /\ h.parts > 0 /\ h.spoke > 0 /\ h.copy.lastIn \in Known
        /\ 0 \in Known /\ h.over \in Nat
    BY <1>0, <1>1 DEF Types, Waits, Shown, Known, Decisions
  <1>4. /\ r \in Decisions /\ r.pc \in {"turn", "logGet", "stamp"}
        /\ r.resumed = h.resumed /\ r.over \in {0, h.over}
        /\ r.late \in {FALSE, h.late} /\ r.copy.lastIn \in Known
        /\ r.pc = "turn" => r.parts > 0
        /\ ~MayAnswer(r)
    BY <1>3, AfterPartFacts
  <1> HIDE DEF r
  <1>5. /\ handler \in [Msgs -> Decisions] /\ handler' \in [Msgs -> Decisions]
        /\ handler'[m] = r /\ \A k \in Msgs \ {m} : handler'[k] = handler[k]
    BY <1>1, <1>4 DEF Types, Decision
  <1>6. /\ rec' \in [Writers -> Records] /\ rec'[w] = NoRec
        /\ \A v \in Writers \ {w} : rec'[v] = rec[v]
        /\ \A k \in Msgs \ {m} : rec'[Bot(k)] = rec[Bot(k)]
        /\ \A k \in Msgs : rec'[In(k)] = rec[In(k)]
    BY <1>0, <1>1, WriterKinds, Constant, Rows
  <1>7. excused \subseteq excused' /\ excused' \subseteq excused \cup {"crossed", "hidden"}
    BY <1>1 DEF Harm
  <1>8. Types'
    BY <1>1, <1>2, <1>5, <1>6, <1>7 DEF Types
  <1>9. \A k \in Msgs : Inflight(k)' = Inflight(k) /\ handler'[k].resumed = handler[k].resumed
    BY <1>3, <1>4, <1>5 DEF Inflight
  <1>10. Waits'
    <2>1. \A k \in Msgs : rec'[Bot(k)].pc # "idle" <=> handler'[k].pc = "record"
      BY <1>4, <1>5, <1>6, Constant DEF Waits
    <2>2. sweep' = sweep /\ (sweep.pc = "waits" => handler'[sweep'.msg].resumed /\ handler'[sweep'.msg].pc # "idle")
      <3>1. sweep.pc # "idle" => sweep.msg \in Msgs
        BY DEF Shown, Types
      <3>2. sweep' = sweep
        BY <1>1
      <3>3. QED  BY <1>9, <3>1, <3>2 DEF Waits, Inflight
    <2>3. \A k \in Msgs : Inflight(k)' /\ handler'[k].resumed => sweep'.pc = "waits" /\ sweep'.msg = k
      BY <1>1, <1>9 DEF Waits
    <2>4. /\ \A k \in Msgs : handler'[k].pc \in {"turn", "send", "record"} => handler'[k].parts > 0
          /\ \A k \in Msgs : handler'[k].pc \in {"read", "list", "think"} => handler'[k].spoke = 0
          /\ \A k \in Msgs : handler'[k].pc = "record" => handler'[k].spoke > 0
      BY <1>4, <1>5 DEF Waits
    <2>5. QED  BY <1>1, <2>1, <2>2, <2>3, <2>4 DEF Waits, Inflight
  <1>11. Shown'
    <2>1. \A v \in Writers : rec'[v].prev \in Known /\ rec'[v].copy.lastIn \in Known
      BY <1>3, <1>6, Constant DEF Shown
    <2>2. \A k \in Msgs : handler'[k].copy.lastIn \in Known
      BY <1>4, <1>5 DEF Shown
    <2>3. \A k \in Msgs : Inflight(k)' \/ rec'[In(k)].pc \in {"get", "put", "told"} => k \in stored
      BY <1>6, <1>9 DEF Shown
    <2>4. QED  BY <1>1, <1>2, <2>1, <2>2, <2>3 DEF Shown, Known
  <1>12. TurnInv'
    <2>1. \A k \in Msgs : TurnLost(k)' = TurnLost(k)
      BY <1>1 DEF TurnLost, Newest
    <2>2. faults \in Nat
      BY DEF Types
    <2>3. QED  BY <1>1, <1>3, <1>4, <1>5, <1>9, <2>1, <2>2 DEF TurnInv
  <1>13. QuietInv'
    <2>1. SUFFICES ASSUME "forgotten" \notin excused' PROVE QuietInv'
      BY DEF QuietInv
    <2>2. /\ handedOff => "handoff" \in sdrLog
          /\ \A k \in Msgs : handler[k].late =>
                 handler[k].pc = "list" /\ handler[k].spoke = 0 /\ "handoff" \in handler[k].log
      BY <1>7, <2>1 DEF QuietInv
    <2>3. ~handler'[m].late
      BY <1>3, <1>4, <1>5, <2>2
    <2>4. \A k \in Msgs : handler'[k].late =>
              handler'[k].pc = "list" /\ handler'[k].spoke = 0 /\ "handoff" \in handler'[k].log
      BY <1>5, <2>2, <2>3
    <2>5. QED  BY <1>1, <2>2, <2>4 DEF QuietInv
  <1>14. OnceInv'
    <2>1. SUFFICES ASSUME "crossed" \notin excused' PROVE OnceInv'
      BY DEF OnceInv
    <2>2. "crossed" \notin excused /\ ~(LastIn(w) < thread.lastIn)
      BY <1>1, <2>1 DEF Harm
    <2>3. thread.lastIn <= thread'.lastIn
      <3>1. LastIn(w) = thread'.lastIn
        BY <1>0, <1>2 DEF LastIn
      <3>2. \A x, y \in 0..N : ~(x < y) => y <= x
        BY SdrAssumption
      <3>3. QED  BY <1>0, <1>2, <2>2, <3>1, <3>2, Rows DEF Thread
    <2>4. \A v \in Writers : rec'[v].prev <= thread'.lastIn
      <3>1. \A x, y, z \in 0..N : x <= y /\ y <= z => x <= z
        BY SdrAssumption
      <3>2. thread.lastIn \in 0..N /\ thread'.lastIn \in 0..N /\ \A v \in Writers : rec[v].prev \in 0..N
        BY <1>0, <1>2, Rows DEF Thread, Records
      <3>3. 0 <= thread'.lastIn
        BY <3>2, SdrAssumption
      <3>4. QED  BY <1>6, <2>2, <2>3, <3>1, <3>2, <3>3, Constant DEF OnceInv
    <2>5. Budget' = Budget
      BY <1>1, <1>7 DEF Budget, Stale, Harm
    <2>6. ~h.resumed => answers[m] <= 1
      BY <1>3, <2>2 DEF OnceInv, Inflight, MayAnswer
    <2>7. ASSUME NEW k \in Msgs
          PROVE  (/\ answers[k] <= 1 + Budget
                  /\ MayAnswer(handler[k]) => answers[k] <= Budget
                  /\ Inflight(k) /\ ~handler[k].resumed =>
                        answers[k] <= IF MayAnswer(handler[k]) THEN 0 ELSE 1
                  /\ k \notin stored \/ rec[In(k)].pc \in {"get", "put", "told"} =>
                        answers[k] = 0 /\ ~Inflight(k) /\ (sweep.pc = "idle" \/ sweep.msg # k)
                  /\ thread.lastIn = k /\ thread.lastDir = "in" /\ handler[k].pc # "record" =>
                        answers[k] <= Budget
                  /\ sweep.pc = "found" /\ sweep.msg = k => answers[k] <= Budget \/ answers[k] <= 1)'
      <3>1. CASE k = m
        BY <1>1, <1>2, <1>4, <1>5, <1>6, <1>9, <2>2, <2>5, <2>6, <3>1 DEF OnceInv
      <3>2. CASE k # m
        <4>1. handler'[k] = handler[k]
          BY <1>5, <3>2
        <4>2. QED  BY <1>1, <1>2, <1>6, <1>9, <2>2, <2>5, <4>1 DEF OnceInv
      <3>3. QED  BY <3>1, <3>2
    <2>8. QED  BY <2>4, <2>7 DEF OnceInv
  <1>15. QED  BY <1>8, <1>10, <1>11, <1>12, <1>13, <1>14

LEMMA RecordPutStep ==
  ASSUME IInv, NEW w \in Writers, RecordPut(w)
  PROVE  IInv'
  <1>1. CASE w[1] # "bot"
    BY <1>1, PutQuiet
  <1>2. CASE w[1] = "bot"
    <2>1. PICK m \in Msgs : w = Bot(m)
      BY <1>2, WriterKinds
    <2>2. QED  BY <2>1, PutPart
  <1>3. QED  BY <1>1, <1>2

-----------------------------------------------------------------------------
(* A decision begins, of the webhook or of the sweep.                      *)
NewDecision(res) == [NoDecision EXCEPT !.pc = "read", !.resumed = res]

MayBegin(m, res) ==
    /\ m \in stored /\ ~Inflight(m)
    /\ acked' \subseteq Msgs
    /\ rec' = rec \/ (rec' = [rec EXCEPT ![In(m)] = NoRec])
    /\ sweep' = IF res THEN [pc |-> "waits", msg |-> m] ELSE sweep
    /\ res => sweep.pc = "found" /\ sweep.msg = m
    /\ excused \subseteq excused' /\ excused' \subseteq excused \cup {"stale"}
    /\ "crossed" \notin excused =>
         /\ answers[m] <= Budget'
         /\ ~res => answers[m] = 0
         /\ rec'[In(m)].pc \notin {"get", "put", "told"}

LEMMA Begins ==
  ASSUME IInv, NEW m \in Msgs, NEW res \in BOOLEAN, Decision(m, NewDecision(res)),
         UNCHANGED <<thread, stored, bots, human, sdrLog, left, faults, answers, handedOff>>,
         MayBegin(m, res)
  PROVE  IInv'
  <1> DEFINE r == NewDecision(res)
  <1> USE DEF IInv, MayBegin
  <1>1. /\ r \in Decisions /\ r.pc = "read" /\ r.resumed = res /\ r.spoke = 0 /\ r.over = 0
        /\ r.late = FALSE /\ r.copy.lastIn = 0
    BY Constant DEF NewDecision, Decisions, NoDecision
  <1> HIDE DEF r
  <1>2. /\ handler \in [Msgs -> Decisions] /\ handler' \in [Msgs -> Decisions]
        /\ handler'[m] = r /\ \A k \in Msgs \ {m} : handler'[k] = handler[k]
    BY <1>1 DEF Types, Decision, r
  <1>3. UNCHANGED <<thread, stored, bots, human, sdrLog, left, faults, answers, handedOff>>
    OBVIOUS
  <1>4. In(m) \in Writers
    BY WriterKinds
  <1>5. /\ rec' \in [Writers -> Records]
        /\ \A k \in Msgs : rec'[Bot(k)] = rec[Bot(k)]
        /\ \A v \in Writers : rec'[v] = rec[v] \/ rec'[v] = NoRec
        /\ \A k \in Msgs : rec'[In(k)].pc \in {"get", "put", "told"} => rec[In(k)].pc \in {"get", "put", "told"}
    BY <1>4, Rows, WriterKinds, Constant
  <1>6. sweep' \in [pc : {"idle", "found", "waits"}, msg : 0..N]
    <2>1. m \in 0..N
      BY SdrAssumption DEF Msgs
    <2>2. [pc |-> "waits", msg |-> m] \in [pc : {"idle", "found", "waits"}, msg : 0..N]
      BY <2>1
    <2>3. QED  BY <2>2 DEF Types
  <1>7. Types'
    BY <1>2, <1>3, <1>5, <1>6 DEF Types
  <1>8. \A k \in Msgs : k # m => handler'[k] = handler[k]
    BY <1>2
  <1>9. Waits'
    <2>1. \A k \in Msgs : rec'[Bot(k)].pc # "idle" <=> handler'[k].pc = "record"
      BY <1>1, <1>2, <1>5 DEF Waits, Inflight
    <2>2. sweep'.pc = "waits" => handler'[sweep'.msg].resumed /\ handler'[sweep'.msg].pc # "idle"
      <3>1. CASE res
        BY <1>1, <1>2, <3>1
      <3>2. CASE ~res
        <4>1. sweep' = sweep
          BY <3>2
        <4>2. sweep.pc = "waits" => sweep.msg \in Msgs \ {m}
          BY DEF Waits, Shown, Types
        <4>3. QED  BY <1>2, <4>1, <4>2 DEF Waits, Inflight
      <3>3. QED  BY <3>1, <3>2
    <2>3. \A k \in Msgs : Inflight(k)' /\ handler'[k].resumed => sweep'.pc = "waits" /\ sweep'.msg = k
      <3>1. ASSUME NEW k \in Msgs, k # m, Inflight(k)', handler'[k].resumed
            PROVE  sweep'.pc = "waits" /\ sweep'.msg = k
        <4>1. sweep.pc = "waits" /\ sweep.msg = k
          BY <1>8, <3>1 DEF Waits, Inflight
        <4>2. ~res
          BY <4>1
        <4>3. QED  BY <4>1, <4>2
      <3>2. handler'[m].resumed => sweep'.pc = "waits" /\ sweep'.msg = m
        BY <1>1, <1>2
      <3>3. QED  BY <3>1, <3>2
    <2>4. /\ \A k \in Msgs : handler'[k].pc \in {"turn", "send", "record"} => handler'[k].parts > 0
          /\ \A k \in Msgs : handler'[k].pc \in {"read", "list", "think"} => handler'[k].spoke = 0
          /\ \A k \in Msgs : handler'[k].pc = "record" => handler'[k].spoke > 0
      BY <1>1, <1>2 DEF Waits
    <2>5. QED  BY <2>1, <2>2, <2>3, <2>4 DEF Waits, Inflight
  <1>10. Shown'
    <2>1. \A v \in Writers : rec'[v].prev \in Known /\ rec'[v].copy.lastIn \in Known
      BY <1>5, Constant DEF Shown, Known
    <2>2. \A k \in Msgs : handler'[k].copy.lastIn \in Known
      BY <1>1, <1>2 DEF Shown, Known
    <2>3. \A k \in Msgs : Inflight(k)' \/ rec'[In(k)].pc \in {"get", "put", "told"} => k \in stored
      BY <1>2, <1>5 DEF Shown, Inflight
    <2>4. sweep'.pc # "idle" => sweep'.msg \in stored
      BY DEF Shown
    <2>5. QED  BY <1>3, <2>1, <2>2, <2>3, <2>4 DEF Shown, Known
  <1>11. TurnInv'
    <2>1. \A k \in Msgs : TurnLost(k)' = TurnLost(k)
      BY <1>3 DEF TurnLost, Newest
    <2>2. faults \in Nat
      BY DEF Types
    <2>3. QED  BY <1>1, <1>2, <1>3, <2>1, <2>2 DEF TurnInv, Inflight
  <1>12. QuietInv'
    BY <1>1, <1>2, <1>3 DEF QuietInv
  <1>13. OnceInv'
    <2>1. SUFFICES ASSUME "crossed" \notin excused' PROVE OnceInv'
      BY DEF OnceInv
    <2>2. Budget \in Nat /\ Budget' \in Nat /\ Budget <= Budget'
      <3>1. faults \in Nat /\ faults' \in Nat /\ faults' >= faults
        BY <1>3 DEF Types
      <3>2. QED  BY <3>1, BudgetGrows
    <2>3. \A v \in Writers : rec'[v].prev <= thread'.lastIn
      BY <1>3, <1>4, <1>5, <2>1, Rows, Constant DEF OnceInv
    <2>4. ASSUME NEW k \in Msgs
          PROVE  (/\ answers[k] <= 1 + Budget
                  /\ MayAnswer(handler[k]) => answers[k] <= Budget
                  /\ Inflight(k) /\ ~handler[k].resumed =>
                        answers[k] <= IF MayAnswer(handler[k]) THEN 0 ELSE 1
                  /\ k \notin stored \/ rec[In(k)].pc \in {"get", "put", "told"} =>
                        answers[k] = 0 /\ ~Inflight(k) /\ (sweep.pc = "idle" \/ sweep.msg # k)
                  /\ thread.lastIn = k /\ thread.lastDir = "in" /\ handler[k].pc # "record" =>
                        answers[k] <= Budget
                  /\ sweep.pc = "found" /\ sweep.msg = k => answers[k] <= Budget \/ answers[k] <= 1)'
      <3>1. answers[k] \in Nat
        BY DEF Types
      <3>2. /\ answers[k] <= 1 + Budget => answers[k] <= 1 + Budget'
            /\ answers[k] <= Budget => answers[k] <= Budget'
        BY <2>2, <3>1
      <3>3. CASE k = m
        <4>1. answers[m] <= Budget' /\ answers[m] <= 1 + Budget' /\ (~res => answers[m] <= 0)
              /\ rec'[In(m)].pc \notin {"get", "put", "told"}
          BY <2>1, <2>2, <3>1, <3>3
        <4>2. handler'[m] = r /\ answers'[m] = answers[m] /\ m \in stored'
          BY <1>2, <1>3
        <4>3. ~r.resumed => answers[m] <= IF MayAnswer(r) THEN 0 ELSE 1
          BY <1>1, <3>1, <3>3, <4>1
        <4>4. QED  BY <3>3, <4>1, <4>2, <4>3
      <3>4. CASE k # m
        <4>1. handler'[k] = handler[k] /\ Inflight(k)' = Inflight(k)
          BY <1>8, <3>4 DEF Inflight
        <4>2. /\ sweep'.pc = "found" /\ sweep'.msg = k => sweep.pc = "found" /\ sweep.msg = k
              /\ (sweep.pc = "idle" \/ sweep.msg # k) => (sweep'.pc = "idle" \/ sweep'.msg # k)
          BY <3>4
        <4>3. QED  BY <1>3, <1>5, <2>1, <3>2, <4>1, <4>2 DEF OnceInv
      <3>5. QED  BY <3>3, <3>4
    <2>5. QED  BY <2>3, <2>4 DEF OnceInv
  <1>14. QED  BY <1>7, <1>9, <1>10, <1>11, <1>12, <1>13

LEMMA DispatchStep ==
  ASSUME IInv, NEW m \in Msgs, Dispatch(m)
  PROVE  IInv'
  <1>0. In(m) \in Writers
    BY WriterKinds
  <1>1. /\ rec[In(m)].pc = "told" /\ rec' = [rec EXCEPT ![In(m)] = NoRec]
        /\ acked' = acked \cup {m} /\ Begin(m, FALSE)
        /\ UNCHANGED <<thread, stored, bots, human, sdrLog, sweep, left, faults, answers, handedOff, excused>>
    BY DEF Dispatch, rowVars, faultVars, history
  <1>2. m \in stored /\ acked' \subseteq Msgs
    BY <1>0, <1>1, Rows DEF Stored
  <1>3. CASE Inflight(m)
    <2>1. UNCHANGED handler
      BY <1>1, <1>3 DEF Begin
    <2>2. MayRecord(In(m), NoRec)
      BY <1>0, <1>1, <1>2, Rows, WriterKinds, Constant DEF MayRecord, Stored
    <2>3. QED  BY <1>0, <1>1, <2>1, <2>2, Constant, Recorded
  <1>4. CASE ~Inflight(m)
    <2>1. Decision(m, NewDecision(FALSE))
      BY <1>1, <1>4 DEF Begin, NewDecision
    <2>2. Budget \in Nat /\ Budget' = Budget
      <3>1. faults \in Nat
        BY <1>0, Rows
      <3>2. QED  BY <1>1, <3>1 DEF Budget, Stale
    <2>3. "crossed" \notin excused => answers[m] = 0
      BY <1>1 DEF IInv, OnceInv
    <2>4. rec'[In(m)].pc = "idle"
      BY <1>0, <1>1, Rows, Constant
    <2>5. "crossed" \notin excused => answers[m] <= Budget'
      BY <2>2, <2>3
    <2>6. MayBegin(m, FALSE)
      BY <1>1, <1>2, <1>4, <2>3, <2>4, <2>5 DEF MayBegin
    <2>7. QED  BY <1>1, <2>1, <2>6, Begins
  <1>5. QED  BY <1>3, <1>4

LEMMA ResumeStep ==
  ASSUME IInv, Resume
  PROVE  IInv'
  <1> DEFINE m == sweep.msg
  <1>1. /\ sweep.pc = "found" /\ Begin(m, TRUE)
        /\ sweep' = IF Inflight(m) THEN [pc |-> "idle", msg |-> 0] ELSE [sweep EXCEPT !.pc = "waits"]
        /\ excused' = excused \cup {e \in {"stale"} : ~Inflight(m) /\ ~Stalled(m)}
        /\ UNCHANGED <<thread, stored, bots, human, sdrLog, rec, acked, left, faults, answers, handedOff>>
    BY DEF Resume, Excuse, rowVars, faultVars, history
  <1>2. m \in stored /\ m \in Msgs /\ acked \subseteq Msgs /\ faults \in Nat
    BY <1>1 DEF IInv, Shown, Types
  <1>3. CASE Inflight(m)
    <2>1. UNCHANGED <<thread, stored, bots, human, sdrLog, rec, acked, handler, left, faults, answers, handedOff, excused>>
      BY <1>1, <1>3 DEF Begin
    <2>2. sweep' = [pc |-> "idle", msg |-> 0]
      BY <1>1, <1>3
    <2>3. sweep' \in [pc : {"idle", "found", "waits"}, msg : 0..N] /\ sweep'.pc = "idle"
      <3>1. 0 \in 0..N
        BY SdrAssumption
      <3>2. QED  BY <2>2, <3>1
    <2>4. Types'
      BY <2>1, <2>3 DEF IInv, Types
    <2>5. Waits'
      <3>1. \A k \in Msgs : ~(Inflight(k)' /\ handler'[k].resumed)
        BY <1>1, <2>1 DEF IInv, Waits, Inflight
      <3>2. QED  BY <2>1, <2>3, <3>1 DEF IInv, Waits
    <2>6. Shown'
      BY <2>1, <2>3 DEF IInv, Shown, Known, Inflight
    <2>7. TurnInv'
      BY <2>1 DEF IInv, TurnInv, Inflight, TurnLost, Newest
    <2>8. QuietInv'
      BY <2>1 DEF IInv, QuietInv
    <2>9. OnceInv'
      BY <2>1, <2>3 DEF IInv, OnceInv, Inflight, Budget, Stale
    <2>10. QED  BY <2>4, <2>5, <2>6, <2>7, <2>8, <2>9 DEF IInv
  <1>4. CASE ~Inflight(m)
    <2>1. Decision(m, NewDecision(TRUE))
      BY <1>1, <1>4 DEF Begin, NewDecision
    <2>2. sweep' = [pc |-> "waits", msg |-> m]
      BY <1>1, <1>4 DEF IInv, Types
    <2>3. Budget \in Nat /\ Budget' \in Nat /\ Budget <= Budget' /\ answers[m] \in Nat
      <3>1. faults \in Nat /\ faults' \in Nat /\ faults' >= faults /\ excused \subseteq excused'
        BY <1>1, <1>2
      <3>2. answers[m] \in Nat
        BY <1>2 DEF IInv, Types
      <3>3. QED  BY <3>1, <3>2, BudgetGrows
    <2>4. "crossed" \notin excused => answers[m] <= Budget' /\ rec'[In(m)].pc \notin {"get", "put", "told"}
      <3>1. SUFFICES ASSUME "crossed" \notin excused
            PROVE  answers[m] <= Budget' /\ rec'[In(m)].pc \notin {"get", "put", "told"}
        OBVIOUS
      <3>2. rec'[In(m)].pc \notin {"get", "put", "told"}
        BY <1>1, <1>2, <3>1 DEF IInv, OnceInv
      <3>3. CASE Stalled(m)
        <4>1. thread.lastIn = m /\ thread.lastDir = "in" /\ handler[m].pc # "record"
          BY <1>4, <3>3 DEF Stalled, Inflight
        <4>2. answers[m] <= Budget
          BY <1>2, <3>1, <4>1 DEF IInv, OnceInv
        <4>3. QED  BY <2>3, <3>2, <4>2
      <3>4. CASE ~Stalled(m)
        <4>1. "stale" \in excused'
          BY <1>1, <1>4, <3>4
        <4>2. Budget' >= 1
          BY <1>1, <1>2, <4>1 DEF Budget, Stale
        <4>3. answers[m] <= Budget \/ answers[m] <= 1
          BY <1>1, <1>2, <3>1 DEF IInv, OnceInv
        <4>4. QED  BY <2>3, <3>2, <4>2, <4>3
      <3>5. QED  BY <3>3, <3>4
    <2>5. MayBegin(m, TRUE)
      BY <1>1, <1>2, <1>4, <2>2, <2>4 DEF MayBegin
    <2>6. QED  BY <1>1, <1>2, <2>1, <2>5, Begins
  <1>5. QED  BY <1>3, <1>4

LEMMA SweepFinds ==
  ASSUME IInv, NEW m \in Msgs, Sweep(m)
  PROVE  IInv'
  <1> USE DEF IInv
  <1>1. /\ sweep.pc = "idle" /\ rec[In(m)].pc = "idle" /\ Stalled(m)
        /\ sweep' = [pc |-> "found", msg |-> m]
        /\ UNCHANGED <<thread, stored, bots, human, sdrLog, rec, acked, handler, left, faults, answers, handedOff, excused>>
    BY DEF Sweep, rowVars, faultVars, history
  <1>2. m \in stored
    BY <1>1, Constant DEF Shown, Known, Stalled
  <1>3. sweep' \in [pc : {"idle", "found", "waits"}, msg : 0..N] /\ sweep'.pc = "found" /\ sweep'.msg = m
    <2>1. m \in 0..N
      BY SdrAssumption DEF Msgs
    <2>2. QED  BY <1>1, <2>1
  <1>4. Types'
    BY <1>1, <1>3 DEF Types
  <1>5. Waits'
    <2>1. \A k \in Msgs : ~(Inflight(k)' /\ handler'[k].resumed)
      BY <1>1 DEF Waits, Inflight
    <2>2. QED  BY <1>1, <1>3, <2>1 DEF Waits
  <1>6. Shown'
    BY <1>1, <1>2, <1>3 DEF Shown, Known, Inflight
  <1>7. TurnInv'
    BY <1>1 DEF TurnInv, Inflight, TurnLost, Newest
  <1>8. QuietInv'
    BY <1>1 DEF QuietInv
  <1>9. OnceInv'
    <2>1. SUFFICES ASSUME "crossed" \notin excused PROVE OnceInv'
      BY <1>1 DEF OnceInv
    <2>2. Budget' = Budget
      BY <1>1 DEF Budget, Stale
    <2>3. answers[m] <= Budget \/ answers[m] <= 1
      <3>1. CASE handler[m].pc # "record"
        BY <1>1, <2>1, <3>1 DEF OnceInv, Stalled
      <3>2. CASE handler[m].pc = "record"
        <4>1. Inflight(m) /\ ~handler[m].resumed /\ ~MayAnswer(handler[m])
          BY <1>1, <3>2 DEF Inflight, Waits, MayAnswer
        <4>2. QED  BY <2>1, <4>1 DEF OnceInv
      <3>3. QED  BY <3>1, <3>2
    <2>4. ASSUME NEW k \in Msgs
          PROVE  (/\ answers[k] <= 1 + Budget
                  /\ MayAnswer(handler[k]) => answers[k] <= Budget
                  /\ Inflight(k) /\ ~handler[k].resumed =>
                        answers[k] <= IF MayAnswer(handler[k]) THEN 0 ELSE 1
                  /\ k \notin stored \/ rec[In(k)].pc \in {"get", "put", "told"} =>
                        answers[k] = 0 /\ ~Inflight(k) /\ (sweep.pc = "idle" \/ sweep.msg # k)
                  /\ thread.lastIn = k /\ thread.lastDir = "in" /\ handler[k].pc # "record" =>
                        answers[k] <= Budget
                  /\ sweep.pc = "found" /\ sweep.msg = k => answers[k] <= Budget \/ answers[k] <= 1)'
      <3>1. Inflight(k)' = Inflight(k)
        BY <1>1 DEF Inflight
      <3>2. QED  BY <1>1, <1>2, <1>3, <2>1, <2>2, <2>3, <3>1 DEF OnceInv
    <2>5. QED  BY <1>1, <2>1, <2>4 DEF OnceInv
  <1>10. QED  BY <1>4, <1>5, <1>6, <1>7, <1>8, <1>9

LEMMA RestartStep ==
  ASSUME IInv, Restart
  PROVE  IInv'
  <1> USE DEF IInv
  <1>1. /\ rec' = [w \in Writers |-> NoRec] /\ handler' = [m \in Msgs |-> NoDecision]
        /\ sweep' = [pc |-> "idle", msg |-> 0] /\ faults' = faults + 1
        /\ UNCHANGED <<thread, stored, bots, human, sdrLog, acked, answers, handedOff>>
        /\ excused \subseteq excused' /\ excused' \subseteq excused \cup {"cut"}
    BY DEF Restart, rowVars, history, Excuse
  <1>2. faults \in Nat /\ faults' \in Nat /\ left' \in LeftType
    BY <1>1 DEF Types, Restart, LeftType
  <1>3. /\ \A k \in Msgs : handler'[k] = NoDecision /\ rec'[In(k)] = NoRec /\ rec'[Bot(k)] = NoRec
        /\ \A w \in Writers : rec'[w] = NoRec
    BY <1>1, WriterKinds
  <1>4. Types'
    <2>1. sweep' \in [pc : {"idle", "found", "waits"}, msg : 0..N]
      <3>1. 0 \in 0..N
        BY SdrAssumption
      <3>2. QED  BY <1>1, <3>1
    <2>2. rec' \in [Writers -> Records] /\ handler' \in [Msgs -> Decisions]
      BY <1>1, Constant
    <2>3. QED  BY <1>1, <1>2, <2>1, <2>2 DEF Types, LeftType
  <1>5. Waits'
    BY <1>1, <1>3, Constant DEF Waits, Inflight
  <1>6. Shown'
    BY <1>1, <1>3, Constant DEF Shown, Known, Inflight
  <1>7. TurnInv'
    BY <1>2, <1>3, Constant DEF TurnInv, Inflight
  <1>8. QuietInv'
    BY <1>1, <1>3, Constant DEF QuietInv
  <1>9. OnceInv'
    <2>1. SUFFICES ASSUME "crossed" \notin excused PROVE OnceInv'
      BY <1>1 DEF OnceInv
    <2>2. Budget \in Nat /\ Budget' = Budget + 1
      <3>1. Stale \in Nat /\ Stale' = Stale
        BY <1>1 DEF Stale
      <3>2. QED  BY <1>1, <1>2, <3>1 DEF Budget
    <2>3. \A v \in Writers : rec'[v].prev <= thread'.lastIn
      <3>1. thread.lastIn \in 0..N
        BY DEF Types, Thread
      <3>2. 0 <= thread.lastIn
        BY <3>1, SdrAssumption
      <3>3. QED  BY <1>1, <1>3, <3>2, Constant
    <2>4. ASSUME NEW k \in Msgs
          PROVE  (/\ answers[k] <= 1 + Budget
                  /\ MayAnswer(handler[k]) => answers[k] <= Budget
                  /\ Inflight(k) /\ ~handler[k].resumed =>
                        answers[k] <= IF MayAnswer(handler[k]) THEN 0 ELSE 1
                  /\ k \notin stored \/ rec[In(k)].pc \in {"get", "put", "told"} =>
                        answers[k] = 0 /\ ~Inflight(k) /\ (sweep.pc = "idle" \/ sweep.msg # k)
                  /\ thread.lastIn = k /\ thread.lastDir = "in" /\ handler[k].pc # "record" =>
                        answers[k] <= Budget
                  /\ sweep.pc = "found" /\ sweep.msg = k => answers[k] <= Budget \/ answers[k] <= 1)'
      <3>1. answers[k] \in Nat /\ answers[k] <= 1 + Budget
        BY <2>1 DEF Types, OnceInv
      <3>2. answers'[k] <= Budget' /\ answers'[k] <= 1 + Budget'
        BY <1>1, <2>2, <3>1
      <3>3. k \notin stored => answers'[k] = 0
        BY <1>1, <2>1 DEF OnceInv
      <3>4. ~Inflight(k)' /\ rec'[In(k)].pc = "idle" /\ sweep'.pc = "idle" /\ stored' = stored
        BY <1>1, <1>3, Constant DEF Inflight
      <3>5. QED  BY <3>2, <3>3, <3>4
    <2>5. QED  BY <2>3, <2>4 DEF OnceInv
  <1>10. QED  BY <1>4, <1>5, <1>6, <1>7, <1>8, <1>9

-----------------------------------------------------------------------------
LEMMA Step == IInv /\ [Next]_vars => IInv'
  <1> SUFFICES ASSUME IInv, [Next]_vars PROVE IInv'
    OBVIOUS
  <1>1. ASSUME NEW w \in Writers, Record(w) PROVE IInv'
    BY <1>1, RecordLookStep, RecordCreateStep, RecordGetStep, RecordPutStep DEF Record
  <1>2. ASSUME NEW m \in Msgs, Decide(m) PROVE IInv'
    BY <1>2, ReadLeadStep, ListStep, ThinkStep, LogGetStep, LogPutStep, TurnStep, SendStep,
       StampLookStep, StampGetStep, StampPutStep DEF Decide
  <1>3. CASE SweepStep
    BY <1>3, ResumeStep, SweepFinds DEF SweepStep
  <1>4. ASSUME NEW m \in Msgs, Arrive(m) \/ Dispatch(m) PROVE IInv'
    BY <1>4, ArriveStep, DispatchStep
  <1>5. ASSUME NEW m \in Msgs, TurnUnknown(m) \/ Fails(m) \/ StampFails(m) \/ RecordFails(m)
        PROVE  IInv'
    BY <1>5, TurnStep, FailsStep, StampFailsStep, RecordFailsStep
  <1>6. CASE HumanWrites
    BY <1>6, HumanWritesStep
  <1>7. CASE Restart
    BY <1>7, RestartStep
  <1>8. CASE UNCHANGED vars
    <2>1. UNCHANGED <<thread, stored, bots, human, sdrLog, rec, acked, handler, sweep, left, faults,
                      answers, handedOff, excused>>
      BY <1>8 DEF vars, rowVars, faultVars, history
    <2>2. Types'
      BY <2>1 DEF IInv, Types
    <2>3. Waits' /\ Shown'
      BY <2>1 DEF IInv, Waits, Shown, Known, Inflight
    <2>4. TurnInv' /\ QuietInv'
      BY <2>1 DEF IInv, TurnInv, QuietInv, Inflight, TurnLost, Newest
    <2>5. OnceInv'
      BY <2>1 DEF IInv, OnceInv, Inflight, Budget, Stale
    <2>6. QED  BY <2>2, <2>3, <2>4, <2>5 DEF IInv
  <1>9. QED  BY <1>1, <1>2, <1>3, <1>4, <1>5, <1>6, <1>7, <1>8 DEF Next

(* The invariant of the conversation holds in every state.                 *)
THEOREM Invariance == Spec => []IInv
  <1>1. QED  BY InitInv, Step, PTL DEF Spec

(* The types of all variables, and who waits for whom.                     *)
THEOREM TypeCorrect == Spec => []TypeOK
  <1>1. IInv => TypeOK
    <2> SUFFICES ASSUME IInv PROVE TypeOK
      OBVIOUS
    <2>1. Types /\ Waits
      BY DEF IInv
    <2>2. \A w \in Writers : rec[w].pc \in {"idle", "look", "create", "get", "put", "told"}
      BY <2>1 DEF Types, Records
    <2>3. \A m \in Msgs : handler[m].parts \in 0..MAX_PARTS /\ handler[m].log \subseteq Marks
      BY <2>1 DEF Types, Decisions
    <2>4. QED  BY <2>1, <2>2, <2>3 DEF TypeOK, Types, Waits
  <1>2. QED  BY <1>1, Invariance, PTL

(* A message is answered by one decision, and by one more for each failure *)
(* or restart and for a stale sweep, unless a stamp was run over: for any  *)
(* messages, parts, people, errors and restarts.                           *)
THEOREM AnsweredOnceHolds == Spec => []AnsweredOnce
  <1>1. IInv => AnsweredOnce
    <2> SUFFICES ASSUME IInv, "crossed" \notin excused, NEW m \in Msgs
                 PROVE  answers[m] <= 1 + faults + Cardinality(excused \cap {"stale"})
      BY DEF AnsweredOnce
    <2>1. answers[m] <= 1 + (faults + Stale) /\ answers[m] \in Nat /\ faults \in Nat
      BY DEF IInv, OnceInv, Budget, Types
    <2>2. Cardinality(excused \cap {"stale"}) = Stale
      <3>1. CASE "stale" \in excused
        <4>1. excused \cap {"stale"} = {"stale"}
          BY <3>1
        <4>2. QED  BY <3>1, <4>1, FS_Singleton DEF Stale
      <3>2. CASE "stale" \notin excused
        <4>1. excused \cap {"stale"} = {}
          BY <3>2
        <4>2. QED  BY <3>2, <4>1, FS_EmptySet DEF Stale
      <3>3. QED  BY <3>1, <3>2
    <2>3. Stale \in Nat
      BY DEF Stale
    <2>4. QED  BY <2>1, <2>2, <2>3
  <1>2. QED  BY <1>1, Invariance, PTL

(* Of an answer whose turn was lost, one part that was on its way goes out *)
(* at most, and one for each check that failed.                            *)
THEOREM TurnHolds == Spec => []TurnIsKept
  <1>1. IInv => TurnIsKept
    BY DEF IInv, TurnInv, TurnIsKept
  <1>2. QED  BY <1>1, Invariance, PTL

(* A decision that looked after the handoff says nothing, unless another   *)
(* wrote the log back without it.                                          *)
THEOREM QuietHolds == Spec => []QuietAfterHandoff
  <1>1. IInv => QuietAfterHandoff
    BY DEF IInv, QuietInv, QuietAfterHandoff
  <1>2. QED  BY <1>1, Invariance, PTL
=============================================================================
