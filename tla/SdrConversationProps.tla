------------------------ MODULE SdrConversationProps ------------------------
(***************************************************************************)
(* What the robot is expected to keep.                                     *)
(***************************************************************************)
EXTENDS SdrConversation

(* The values each variable may hold; a part is being recorded exactly     *)
(* while its decision waits for it, and the sweep waits for one it began.  *)
TypeOK ==
    /\ thread \in Thread /\ stored \subseteq Msgs /\ bots \in Nat /\ sdrLog \subseteq Marks
    /\ human \in BOOLEAN /\ acked \subseteq Msgs
    /\ \A w \in Writers : rec[w].pc \in {"idle", "look", "create", "get", "put", "told"}
    /\ \A m \in Msgs : rec[Bot(m)].pc # "idle" <=> handler[m].pc = "record"
    /\ sweep.pc = "waits" => handler[sweep.msg].resumed /\ Inflight(sweep.msg)
    /\ \A m \in Msgs : handler[m].parts \in 0..MAX_PARTS /\ handler[m].log \subseteq Marks
    /\ faults \in Nat
    /\ excused \subseteq {"crossed", "hidden", "forgotten", "cut", "stale"}

(* sdr-brain.js:467-469: "senão sairiam duas respostas".  A message is     *)
(* answered by one decision; each failure or restart may cost one more,    *)
(* and so may a sweep that found the message before its decision ended,    *)
(* unless a stamp was run over by another write of the thread.             *)
AnsweredOnce ==
    "crossed" \notin excused =>
        \A m \in Msgs :
            answers[m] <= 1 + faults + Cardinality(excused \cap {"stale"})

(* sdr-brain.js:907-914, 927-930: once a newer message or a person has     *)
(* taken the turn, the rest of an answer is dropped: at most the part that *)
(* was on its way still goes out, or one whose check failed.               *)
TurnIsKept == \A m \in Msgs : handler[m].over <= 1 + faults

(* sdr-brain.js:666-667: a decision on a lead that was handed off before   *)
(* it looked says nothing, unless a stamp of another decision, written     *)
(* back from an older log, erased the handoff.  A decision that looked     *)
(* before the handoff was stamped may still speak after it.                *)
QuietAfterHandoff ==
    "forgotten" \notin excused =>
        \A m \in Msgs : handler[m].late => handler[m].spoke = 0

(* sdr-brain.js:558-564: every message is decided in the end, unless a     *)
(* newer one takes its place.  Without a restart or an error the webhook   *)
(* does it; after one the sweep does, unless the thread no longer shows    *)
(* the message: its record was cut short, or was run over, or an answer to *)
(* an earlier message, or of a person, was recorded after it.              *)
Decided(m) == decided[m] # {} \/ answers[m] > 0
Replaced(m) == m \in stored /\ ~Newest(m)

EveryMessageIsDecided ==
    \A m \in Msgs :
        []<>(m \in stored => \/ Decided(m) \/ Replaced(m)
                             \/ /\ faults > 0
                                /\ human \/ excused \cap {"cut", "crossed", "hidden"} # {})

(* sdr-brain.js:573-576: a decision that died gets another one, once, if   *)
(* it died before it said anything.                                        *)
ErrorIsRetried ==
    \A m \in Msgs :
        []<>(decided[m] = {"error"} =>
                \/ answers[m] > 0 \/ Replaced(m) \/ human \/ excused # {}
                \/ thread.brain.retried)
=============================================================================
