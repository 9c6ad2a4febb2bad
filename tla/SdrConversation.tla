--------------------------- MODULE SdrConversation ---------------------------
(***************************************************************************)
(* One WhatsApp conversation of a lead and the robot that answers it       *)
(* (sdr/sdr-brain.js, whatsapp/wa-store.js, whatsapp/routes.whatsapp.js).  *)
(* The webhook records each message and starts a decision on it; a sweep   *)
(* resumes what is left without one.  Every query, pause and call of the   *)
(* language model or of Meta is a step.  The messages of the lead are      *)
(* numbered by the time Meta gives them; 0 stands for none.                *)
(***************************************************************************)
EXTENDS Naturals, FiniteSets

CONSTANTS
    N,             \* messages of the lead
    MAX_PARTS,     \* messages an answer is split into (3)
    DAILY_CAP,     \* messages of the robot in a day
    Mixes          \* bound: what a behaviour may meet, one of a set of records:
                   \* messages, people who write, errors of a query or call,
                   \* restarts, and the parts the language model gives

ASSUME SdrAssumption ==
    /\ {N, MAX_PARTS, DAILY_CAP} \subseteq Nat \ {0}
    /\ Mixes \subseteq [msgs : Nat, people : Nat, errors : Nat, restarts : Nat, parts : 1..MAX_PARTS]

Msgs == 1..N
In(m) == <<"in", m>>       \* the webhook's recordMessage of m
Bot(m) == <<"bot", m>>     \* the one of an answer to m
Team == <<"team", 0>>      \* the one of a person's message
Writers == {In(m) : m \in Msgs} \cup {Bot(m) : m \in Msgs} \cup {Team}

Actions == {"none", "done", "error"}
Marks == {"handoff", "cap", "touch", "alert"}
Brain == [msg : 0..N, action : Actions, retried : BOOLEAN]
Thread == [lastIn : 0..N, lastDir : {"in", "out"}, brain : Brain]
NoBrain == [msg |-> 0, action |-> "none", retried |-> FALSE]
NoThread == [lastIn |-> 0, lastDir |-> "out", brain |-> NoBrain]

VARIABLES
    thread,     \* the row of wa_threads
    stored,     \* the lead's messages in wa_messages
    bots,       \* how many of the robot's are there
    human,      \* someone of the team wrote
    sdrLog,     \* the stamps on the lead
    rec,        \* writer -> where its recordMessage is
    acked,      \* messages whose webhook was answered
    handler,    \* message -> its decision in this process
    sweep,      \* the sweep: where it is and the message it found
    left,       \* what the behaviour may still meet
    faults,     \* auxiliary: the errors and restarts so far
    answers,    \* auxiliary: message -> decisions that said something
    decided,    \* auxiliary: message -> what its decisions were stamped as
    handedOff,  \* auxiliary: a handoff was stamped
    excused     \* auxiliary: what has by now undone a promise

rowVars == <<thread, stored, bots, human, sdrLog>>
faultVars == <<left, faults>>
history == <<answers, decided, handedOff>>
vars == <<rowVars, rec, acked, handler, sweep, faultVars, history, excused>>

NoRec == [pc |-> "idle", prev |-> 0, copy |-> NoThread]
NoDecision ==
    [pc |-> "idle", resumed |-> FALSE, log |-> {}, late |-> FALSE, first |-> FALSE, seen |-> 0,
     parts |-> 0, spoke |-> 0, over |-> 0, mark |-> {}, logCopy |-> {},
     action |-> "done", retried |-> FALSE, copy |-> NoThread]

Init ==
    /\ thread = NoThread
    /\ stored = {} /\ bots = 0 /\ sdrLog = {}
    /\ human = FALSE
    /\ rec = [w \in Writers |-> NoRec]
    /\ acked = {}
    /\ handler = [m \in Msgs |-> NoDecision]
    /\ sweep = [pc |-> "idle", msg |-> 0]
    /\ left \in Mixes /\ faults = 0
    /\ answers = [m \in Msgs |-> 0]
    /\ decided = [m \in Msgs |-> {}]
    /\ handedOff = FALSE
    /\ excused = {}

Newest(m) == m \in stored /\ \A o \in stored : o <= m
Excuse(es) == excused' = excused \cup es
Decision(m, h) == handler' = [handler EXCEPT ![m] = h]
Settled(h) == [NoDecision EXCEPT !.pc = "stamp", !.resumed = h.resumed, !.action = h.action]

(* A failure of a query or a call.                                         *)
Error ==
    /\ left.errors > 0
    /\ left' = [left EXCEPT !.errors = @ - 1]
    /\ faults' = faults + 1

-----------------------------------------------------------------------------
(* The messages.  Meta delivers in any order, and again what it got no     *)
(* answer for.                                                             *)
Arrive(m) ==
    /\ m <= left.msgs
    /\ rec[In(m)].pc = "idle" /\ m \notin acked
    /\ rec' = [rec EXCEPT ![In(m)].pc = "look"]
    /\ UNCHANGED <<rowVars, acked, handler, sweep, faultVars, history, excused>>

HumanWrites ==
    /\ left.people > 0 /\ rec[Team].pc = "idle"
    /\ rec' = [rec EXCEPT ![Team].pc = "look"]
    /\ left' = [left EXCEPT !.people = @ - 1]
    /\ UNCHANGED <<rowVars, acked, handler, sweep, faults, history, excused>>

(* recordMessage: the thread is looked up ...                              *)
RecordLook(w) ==
    /\ rec[w].pc = "look"
    /\ rec' = [rec EXCEPT ![w] = [@ EXCEPT !.pc = "create", !.prev = IF w[1] = "in" THEN 0 ELSE thread.lastIn]]
    /\ UNCHANGED <<rowVars, acked, handler, sweep, faultVars, history, excused>>

(* ... the message is inserted, unless it is there ...                     *)
RecordCreate(w) ==
    /\ rec[w].pc = "create"
    /\ IF w \in {In(m) : m \in stored}
       THEN /\ rec' = [rec EXCEPT ![w] = NoRec]
            /\ acked' = acked \cup {w[2]}
            /\ UNCHANGED rowVars
       ELSE /\ rec' = [rec EXCEPT ![w].pc = "get"]
            /\ stored' = IF w[1] = "in" THEN stored \cup {w[2]} ELSE stored
            /\ bots' = IF w[1] = "bot" THEN bots + 1 ELSE bots
            /\ human' = (human \/ w = Team)
            /\ UNCHANGED <<thread, sdrLog, acked>>
    /\ UNCHANGED <<handler, sweep, faultVars, history, excused>>

(* ... and the thread is updated: read again, and written whole with what  *)
(* the message makes of it.  Its last inbound message is the new one, or   *)
(* the one of the first look.                                              *)
RecordGet(w) ==
    /\ rec[w].pc = "get"
    /\ rec' = [rec EXCEPT ![w] = [@ EXCEPT !.pc = "put", !.copy = thread]]
    /\ UNCHANGED <<rowVars, acked, handler, sweep, faultVars, history, excused>>

LastIn(w) == IF w[1] = "in" THEN w[2] ELSE rec[w].prev

(* What the write puts back or hides: a later copy, a later message, or a  *)
(* message that waits behind an answer to an earlier one.                  *)
Harm(w) ==
    {e \in {"crossed"} : thread # rec[w].copy \/ LastIn(w) < thread.lastIn}
    \cup {e \in {"hidden"} : w[1] = "bot" /\ ~Newest(w[2])}

(* After a part of an answer: the first the lead ever got is stamped, and  *)
(* the next part follows.                                                  *)
AfterPart(h) ==
    LET more == [h EXCEPT !.parts = @ - 1, !.pc = "turn"]
    IN  IF h.spoke = 1 /\ h.first /\ "touch" \notin h.log
        THEN [more EXCEPT !.pc = "logGet", !.mark = {"touch"}]
        ELSE IF h.parts > 1 THEN more ELSE Settled(h)

RecordPut(w) ==
    /\ rec[w].pc = "put"
    /\ thread' = [rec[w].copy EXCEPT !.lastIn = LastIn(w), !.lastDir = IF w[1] = "in" THEN "in" ELSE "out"]
    /\ Excuse(Harm(w))
    /\ rec' = [rec EXCEPT ![w] = IF w[1] = "in" THEN [NoRec EXCEPT !.pc = "told"] ELSE NoRec]
    /\ IF w[1] = "bot" THEN Decision(w[2], AfterPart(handler[w[2]])) ELSE UNCHANGED handler
    /\ UNCHANGED <<stored, bots, human, sdrLog, acked, sweep, faultVars, history>>

-----------------------------------------------------------------------------
(* handleInbound: one decision per message at a time in this process.      *)
(* A slip: a message may be decided by two at once.                        *)
NeverInflight(m) == FALSE
Inflight(m) == handler[m].pc # "idle"
Begin(m, resumed) ==
    IF Inflight(m) THEN UNCHANGED handler
    ELSE Decision(m, [NoDecision EXCEPT !.pc = "read", !.resumed = resumed])

(* The webhook starts it and answers Meta.                                 *)
Dispatch(m) ==
    /\ rec[In(m)].pc = "told"
    /\ rec' = [rec EXCEPT ![In(m)] = NoRec]
    /\ acked' = acked \cup {m}
    /\ Begin(m, FALSE)
    /\ UNCHANGED <<rowVars, sweep, faultVars, history, excused>>

(* The lead is read before the pause that lets a burst end; what makes the *)
(* conversation none of the robot's (gates, an opt-out ...) is a choice.   *)
ReadLead(m) ==
    LET h == handler[m]
    IN  /\ h.pc = "read"
        /\ \/ Decision(m, [h EXCEPT !.pc = "list", !.log = sdrLog, !.late = handedOff, !.seen = bots])
           \/ Decision(m, Settled(h))
        /\ UNCHANGED <<rowVars, rec, acked, sweep, faultVars, history, excused>>

(* A slip: the stamps of the lead are not looked at.                       *)
HandoffForgotten(h) == FALSE
HandoffHolds(h) == "handoff" \in h.log

(* A slip: the sweep is not told.                                          *)
LeaveUntold(m) == Decision(m, NoDecision) /\ UNCHANGED sweep

(* The decision is over for this process, and so is the sweep's wait.      *)
Leave(m) ==
    /\ Decision(m, NoDecision)
    /\ sweep' = IF handler[m].resumed THEN [pc |-> "idle", msg |-> 0] ELSE sweep

Superseded(m) == ~Newest(m)

(* After the pause: a burst is answered by its last message; a person who  *)
(* wrote, a handoff and the cap of the day keep the robot quiet.           *)
List(m) ==
    LET h == handler[m]
        full == bots >= DAILY_CAP
    IN  /\ h.pc = "list"
        /\ IF Superseded(m) THEN Leave(m)
           ELSE /\ UNCHANGED sweep
                /\ IF human \/ HandoffHolds(h) \/ (full /\ "cap" \in h.log)
                   THEN Decision(m, Settled(h))
                   ELSE IF ~full THEN Decision(m, [h EXCEPT !.pc = "think", !.first = (bots = 0)])
                   ELSE Decision(m, [h EXCEPT !.pc = "logGet", !.mark = {"cap", "handoff"}])
        /\ UNCHANGED <<rowVars, rec, acked, faultVars, history, excused>>

(* The language model and the rules around it: silence, an answer in some  *)
(* parts, or a handoff with or without a word of transition.               *)
Think(m) ==
    LET h == handler[m]
    IN  /\ h.pc = "think"
        /\ \/ Decision(m, Settled(h))
           \/ \E n \in 1..left.parts : Decision(m, [h EXCEPT !.pc = "turn", !.parts = n])
           \/ \E n \in {0, 1} :
                Decision(m, [h EXCEPT !.pc = "logGet", !.mark = {"handoff"}, !.parts = n])
        /\ UNCHANGED <<rowVars, rec, acked, sweep, faultVars, history, excused>>

(* stamp(): the log of the lead is read and written back with the mark.    *)
LogGet(m) ==
    /\ handler[m].pc = "logGet"
    /\ Decision(m, [handler[m] EXCEPT !.pc = "logPut", !.logCopy = sdrLog])
    /\ UNCHANGED <<rowVars, rec, acked, sweep, faultVars, history, excused>>

LogPut(m) ==
    LET h == handler[m]
        new == h.logCopy \cup h.mark
    IN  /\ h.pc = "logPut"
        /\ sdrLog' = new
        /\ Excuse({e \in {"forgotten"} : ~(sdrLog \subseteq new)})
        /\ handedOff' = (handedOff \/ "handoff" \in h.mark)
        /\ Decision(m, IF h.parts = 0 THEN Settled(h)
                       ELSE [h EXCEPT !.pc = "turn", !.log = new, !.mark = {}, !.logCopy = {}])
        /\ UNCHANGED <<thread, stored, bots, human, rec, acked, sweep, faultVars, answers, decided>>

(* Before each part: a newer message or a person takes the turn; another   *)
(* answer that went out meanwhile may.                                     *)
TurnLost(m) == ~Newest(m) \/ human

(* A slip: only the first part asks.                                       *)
TurnOnce(m) ==
    LET h == handler[m]
        lost == TurnLost(m) /\ h.spoke = 0
    IN  /\ h.pc = "turn"
        /\ IF lost THEN Decision(m, Settled(h)) ELSE Decision(m, [h EXCEPT !.pc = "send"])
        /\ UNCHANGED <<rowVars, rec, acked, sweep, faultVars, history, excused>>

Turn(m) ==
    LET h == handler[m]
    IN  /\ h.pc = "turn"
        /\ IF TurnLost(m) THEN Decision(m, Settled(h))
           ELSE \/ Decision(m, [h EXCEPT !.pc = "send"])
                \/ bots > h.seen + h.spoke /\ Decision(m, Settled(h))
        /\ UNCHANGED <<rowVars, rec, acked, sweep, faultVars, history, excused>>

(* A list that cannot be read does not hold the answer back.               *)
TurnUnknown(m) ==
    /\ handler[m].pc = "turn"
    /\ Error
    /\ Decision(m, [handler[m] EXCEPT !.pc = "send"])
    /\ UNCHANGED <<rowVars, rec, acked, sweep, history, excused>>

Accept(m) ==
    LET h == handler[m]
    IN  /\ answers' = [answers EXCEPT ![m] = IF h.spoke = 0 THEN @ + 1 ELSE @]
        /\ UNCHANGED <<decided, handedOff>>

(* wa.sendText, and the record of what was sent.                           *)
Send(m) ==
    LET h == handler[m]
    IN  /\ h.pc = "send"
        /\ Accept(m)
        /\ Decision(m, [h EXCEPT !.pc = "record", !.spoke = @ + 1,
                                 !.over = IF TurnLost(m) THEN @ + 1 ELSE @])
        /\ rec' = [rec EXCEPT ![Bot(m)].pc = "look"]
        /\ UNCHANGED <<rowVars, acked, sweep, faultVars, excused>>

(* A query or a call throws, before or after the message went out: the     *)
(* alert is stamped once, and the decision counts as an error.             *)
Fails(m) ==
    LET h == handler[m]
        tell == "alert" \notin sdrLog
    IN  /\ h.pc \in {"read", "list", "think", "send", "record"}
        /\ Error
        /\ Decision(m, [Settled(h) EXCEPT !.pc = IF tell THEN "logGet" ELSE @, !.action = "error",
                                          !.mark = IF tell THEN {"alert"} ELSE {}])
        /\ rec' = [rec EXCEPT ![Bot(m)] = NoRec]
        /\ (IF h.pc = "send" THEN Accept(m) ELSE FALSE) \/ UNCHANGED history
        /\ UNCHANGED <<rowVars, acked, sweep, excused>>

-----------------------------------------------------------------------------
(* The stamp of the decision: whether it repeats a failed one, then the    *)
(* update of the thread.                                                   *)
StampLook(m) ==
    LET h == handler[m]
        b == thread.brain
    IN  /\ h.pc = "stamp"
        /\ Decision(m, [h EXCEPT !.pc = "stampGet",
                                 !.retried = (b.msg = m /\ (b.retried \/ b.action = "error"))])
        /\ UNCHANGED <<rowVars, rec, acked, sweep, faultVars, history, excused>>

StampGet(m) ==
    /\ handler[m].pc = "stampGet"
    /\ Decision(m, [handler[m] EXCEPT !.pc = "stampPut", !.copy = thread])
    /\ UNCHANGED <<rowVars, rec, acked, sweep, faultVars, history, excused>>

StampPut(m) ==
    LET h == handler[m]
    IN  /\ h.pc = "stampPut"
        /\ thread' = [h.copy EXCEPT !.brain = [msg |-> m, action |-> h.action, retried |-> h.retried]]
        /\ decided' = [decided EXCEPT ![m] = @ \cup {h.action}]
        /\ Excuse({e \in {"crossed"} : thread # h.copy})
        /\ Leave(m)
        /\ UNCHANGED <<stored, bots, human, sdrLog, rec, acked, faultVars, answers, handedOff>>

(* The stamp is best effort.                                               *)
StampFails(m) ==
    /\ handler[m].pc \in {"stamp", "stampGet", "stampPut"}
    /\ Error
    /\ Leave(m)
    /\ UNCHANGED <<rowVars, rec, acked, history, excused>>

(* recordMessage throws in the webhook, which answers Meta all the same.   *)
RecordFails(m) ==
    /\ rec[In(m)].pc \in {"look", "create", "get", "put"}
    /\ Error
    /\ rec' = [rec EXCEPT ![In(m)] = NoRec]
    /\ acked' = acked \cup {m}
    /\ Excuse({e \in {"cut"} : m \in stored})
    /\ UNCHANGED <<rowVars, handler, sweep, history>>

-----------------------------------------------------------------------------
(* resumeStalled: the last message is the lead's and has no decision, or   *)
(* one that failed and was not repeated.  It is old enough for the webhook *)
(* to have ended.                                                          *)
(* A slip: only what failed is looked for.                                 *)
StalledIfFailed(m) ==
    /\ thread.lastDir = "in" /\ thread.lastIn = m
    /\ thread.brain.msg = m /\ thread.brain.action = "error" /\ ~thread.brain.retried

(* A slip: an error counts as a decision.                                  *)
StalledWithoutStamp(m) ==
    /\ thread.lastDir = "in" /\ thread.lastIn = m
    /\ thread.brain.msg # m

Stalled(m) ==
    /\ thread.lastDir = "in" /\ thread.lastIn = m
    /\ thread.brain.msg = m => thread.brain.action = "error" /\ ~thread.brain.retried

Sweep(m) ==
    /\ sweep.pc = "idle" /\ rec[In(m)].pc = "idle"
    /\ Stalled(m)
    /\ sweep' = [pc |-> "found", msg |-> m]
    /\ UNCHANGED <<rowVars, rec, acked, handler, faultVars, history, excused>>

(* Conversations are taken up one after the other, so this one may have    *)
(* been decided since it was found.                                        *)
Resume ==
    LET m == sweep.msg
    IN  /\ sweep.pc = "found"
        /\ Begin(m, TRUE)
        /\ sweep' = IF Inflight(m) THEN [pc |-> "idle", msg |-> 0] ELSE [sweep EXCEPT !.pc = "waits"]
        /\ Excuse({e \in {"stale"} : ~Inflight(m) /\ ~Stalled(m)})
        /\ UNCHANGED <<rowVars, rec, acked, faultVars, history>>

Restart ==
    /\ left.restarts > 0
    /\ left' = [left EXCEPT !.restarts = @ - 1]
    /\ faults' = faults + 1
    /\ rec' = [w \in Writers |-> NoRec]
    /\ handler' = [m \in Msgs |-> NoDecision]
    /\ sweep' = [pc |-> "idle", msg |-> 0]
    /\ Excuse({e \in {"cut"} : \E m \in Msgs : rec[In(m)].pc \in {"get", "put"}})
    /\ UNCHANGED <<rowVars, acked, history>>

Record(w) == RecordLook(w) \/ RecordCreate(w) \/ RecordGet(w) \/ RecordPut(w)
Decide(m) ==
    \/ ReadLead(m) \/ List(m) \/ Think(m) \/ LogGet(m) \/ LogPut(m) \/ Turn(m) \/ Send(m)
    \/ StampLook(m) \/ StampGet(m) \/ StampPut(m)
SweepStep == Resume \/ \E m \in Msgs : Sweep(m)

Next ==
    \/ HumanWrites \/ SweepStep \/ Restart
    \/ \E w \in Writers : Record(w)
    \/ \E m \in Msgs : Arrive(m) \/ Dispatch(m) \/ Decide(m)
    \/ \E m \in Msgs : TurnUnknown(m) \/ Fails(m) \/ StampFails(m) \/ RecordFails(m)

Spec == Init /\ [][Next]_vars

(* What was started runs on, and the sweep keeps looking.                  *)
Fairness ==
    /\ \A w \in Writers : WF_vars(Record(w))
    /\ \A m \in Msgs : WF_vars(Dispatch(m)) /\ WF_vars(Decide(m))
    /\ WF_vars(SweepStep)

FairSpec == Spec /\ Fairness
=============================================================================
