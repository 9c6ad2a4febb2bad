--------------------------- MODULE LinearMirror ---------------------------
(***************************************************************************)
(* One support ticket and its issue in Linear (support/ticket-linear.js,   *)
(* ticket-linear-runner.js, and the hook and lock of tickets-core.js).     *)
(*                                                                         *)
(* A write to the ticket marks a row of the outbox.  The drain, or the     *)
(* push button, reads the ticket, sends what differs from the mirror kept  *)
(* on it, without the ticket's lock, and stamps the result under it.       *)
(* Webhooks and the reconciliation apply what changed in Linear to the     *)
(* ticket.  `titleBack`, on by default, is on.                             *)
(***************************************************************************)
EXTENDS Integers, Sequences, FiniteSets, FiniteSetsExt, SequencesExt

CONSTANTS
    Messages,       \* messages the agents may add to the ticket
    Notes,          \* comments the developers may write on the issue
    Pushers,        \* push buttons pressed at once
    MAX_ATTEMPTS,   \* failures after which the drain gives a row up (10)
    MaxWrites,      \* bound: edits, messages and pushes of the agents
    MaxRemote,      \* bound: renames and comments of the developers
    MaxFaults       \* bound: failed calls and restarts of the process

ASSUME LinearAssumption ==
    /\ MAX_ATTEMPTS \in Nat \ {0}
    /\ {MaxWrites, MaxRemote, MaxFaults} \subseteq Nat
    /\ Messages \cap Notes = {} /\ "drain" \notin Pushers

VARIABLES
    ticket,    \* [subject, messages, issue, mirror, commented, seen]
    outbox,    \* the ticket's row: [st, attempts, dirty]
    issues,    \* what Linear holds: a sequence of [title, posted, notes, fresh]
    hooks,     \* webhooks on their way
    agent,     \* the write that holds the ticket's lock, and its mark
    sync,      \* worker -> the syncTicketToLinear it is in
    inbound,   \* "webhook", "reconcile" -> deliveries and the one in hand
    told,      \* comment -> linear_comment events on the ticket
    used,      \* writes, remote ones and faults so far
    excused    \* auxiliary: which promise the code has by now given away

vars == <<ticket, outbox, issues, hooks, agent, sync, inbound, told, used, excused>>

-----------------------------------------------------------------------------
Workers == {"drain"} \cup Pushers
Handlers == {"webhook", "reconcile"}
Subjects == 0..(MaxWrites + MaxRemote)
Comments == Messages \cup Notes
NoTitle == -1

NoSync == [pc |-> "idle"]
NoInbound == [pc |-> "idle", queue |-> <<>>, read |-> {}]
NoRow == [st |-> "none", attempts |-> 0, dirty |-> FALSE]
NewRow == [st |-> "queued", attempts |-> 0, dirty |-> FALSE]

(* A new ticket whose row has one attempt left; a later row has them all.  *)
Init ==
    /\ ticket = [subject |-> 0, messages |-> {}, issue |-> 0, mirror |-> NoTitle,
                 commented |-> {}, seen |-> {}]
    /\ outbox = [NewRow EXCEPT !.attempts = MAX_ATTEMPTS - 1]
    /\ issues = <<>> /\ hooks = {}
    /\ agent = "idle"
    /\ sync = [w \in Workers |-> NoSync]
    /\ inbound = [h \in Handlers |-> NoInbound]
    /\ told = [c \in Comments |-> 0]
    /\ used = [writes |-> 0, remote |-> 0, faults |-> 0]
    /\ excused = {}

Spend(k, bound) == used[k] < bound /\ used' = [used EXCEPT ![k] = @ + 1]
Excuse(e, when) == excused' = IF when THEN excused \cup {e} ELSE excused
Unlocked == agent = "idle"
NewTitle == used.writes + used.remote + 1

-----------------------------------------------------------------------------
(* A write by an agent: the ticket first, then, still under its lock, the  *)
(* mark.                                                                   *)
Write(t) ==
    /\ Unlocked
    /\ ticket' = t
    /\ agent' = "look"
    /\ UNCHANGED <<outbox, issues, hooks, sync, inbound, told, excused>>

EditSubject == Spend("writes", MaxWrites) /\ Write([ticket EXCEPT !.subject = NewTitle])

AddMessage ==
    \E m \in Messages \ ticket.messages :
        Spend("writes", MaxWrites) /\ Write([ticket EXCEPT !.messages = @ \cup {m}])

(* enqueueTicketSync: look for the row, then create or update it.          *)
MarkLook ==
    /\ agent = "look"
    /\ agent' = IF outbox.st = "none" THEN "create" ELSE "update"
    /\ UNCHANGED <<ticket, outbox, issues, hooks, sync, inbound, told, used, excused>>

(* The update of a row that is gone writes nothing; a dead one stays dead. *)
Mark ==
    /\ agent \in {"create", "update"}
    /\ agent' = "idle"
    /\ outbox' = CASE agent = "create"     -> NewRow
                   [] agent = "update"     -> [outbox EXCEPT !.dirty = outbox.st # "none"]
    /\ Excuse("apart", agent = "update" /\ outbox.st # "queued")
    /\ UNCHANGED <<ticket, issues, hooks, sync, inbound, told, used>>

-----------------------------------------------------------------------------
(* syncTicketToLinear.                                                     *)
Put(w, s) == sync' = [sync EXCEPT ![w] = s]
Goto(w, pc) == sync' = [sync EXCEPT ![w].pc = pc]

(* planTicketSync: create or rename the issue, then comment, or nothing.   *)
TitleDiffers == ticket.issue = 0 \/ ticket.subject # ticket.mirror
Pending == ticket.messages \ ticket.commented
FirstStep == IF TitleDiffers THEN "issue" ELSE IF Pending # {} THEN "comment" ELSE "done"

StartSync(w) ==
    /\ sync[w].pc = "idle"
    /\ IF w = "drain" THEN outbox.st = "queued" /\ UNCHANGED used
                      ELSE Spend("writes", MaxWrites)
    /\ Put(w, [pc |-> FirstStep, subject |-> ticket.subject, todo |-> Pending,
               commented |-> ticket.commented, issue |-> ticket.issue, created |-> FALSE,
               failed |-> FALSE, attempts |-> outbox.attempts])
    /\ outbox' = IF w = "drain" THEN [outbox EXCEPT !.dirty = FALSE] ELSE outbox
    /\ Excuse("twice", \E v \in Workers \ {w} : sync[v].pc # "idle")
    /\ UNCHANGED <<ticket, issues, hooks, agent, inbound, told>>

Issue(i, title) == [kind |-> "issue", issue |-> i, title |-> title]
Comment(i, c) == [kind |-> "comment", issue |-> i, note |-> c]

(* createIssue and updateIssue; the answer may be lost.                    *)
Created(title) == Append(issues, [title |-> title, posted |-> [m \in Messages |-> 0],
                                  notes |-> {}, fresh |-> TRUE])
Renamed(i, title) == [issues EXCEPT ![i].title = title, ![i].fresh = TRUE]

SendIssue(w) ==
    LET s == sync[w]
        new == s.issue = 0
        i == IF new THEN Len(issues) + 1 ELSE s.issue
    IN  /\ s.pc = "issue"
        /\ issues' = IF new THEN Created(s.subject) ELSE Renamed(i, s.subject)
        /\ hooks' = hooks \cup {Issue(i, s.subject)}
        /\ \/ /\ Put(w, [s EXCEPT !.pc = "comment", !.issue = i, !.created = new])
              /\ UNCHANGED <<used, excused>>
           \/ Goto(w, "fail") /\ Spend("faults", MaxFaults) /\ Excuse("twice", new)
        /\ UNCHANGED <<ticket, outbox, agent, inbound, told>>

(* createComment, message by message.                                      *)
SendComment(w) ==
    LET s == sync[w]
    IN  /\ s.pc = "comment"
        /\ \E m \in s.todo :
             /\ issues' = [issues EXCEPT ![s.issue].posted[m] = @ + 1, ![s.issue].fresh = TRUE]
             /\ hooks' = hooks \cup {Comment(s.issue, m)}
             /\ \/ /\ Put(w, [s EXCEPT !.todo = @ \ {m}, !.commented = @ \cup {m}])
                   /\ UNCHANGED <<used, excused>>
                \/ /\ Put(w, [s EXCEPT !.pc = "stamp", !.failed = TRUE])
                   /\ Spend("faults", MaxFaults) /\ Excuse("twice", TRUE)
        /\ UNCHANGED <<ticket, outbox, agent, inbound, told>>

(* A slip: a refused comment counts as done.                               *)
RefusalIgnored(w) ==
    /\ sync[w].pc = "issue" \/ (sync[w].pc = "comment" /\ sync[w].todo # {})
    /\ Spend("faults", MaxFaults)
    /\ Put(w, [sync[w] EXCEPT !.pc = IF @ = "issue" THEN "fail" ELSE "stamp"])
    /\ UNCHANGED <<ticket, outbox, issues, hooks, agent, inbound, told, excused>>

(* A call that Linear refused: the comments so far are still stamped.      *)
CallFails(w) ==
    /\ sync[w].pc = "issue" \/ (sync[w].pc = "comment" /\ sync[w].todo # {})
    /\ Spend("faults", MaxFaults)
    /\ Put(w, [sync[w] EXCEPT !.pc = IF @ = "issue" THEN "fail" ELSE "stamp", !.failed = TRUE])
    /\ UNCHANGED <<ticket, outbox, issues, hooks, agent, inbound, told, excused>>

(* A slip: the stamp holds the issue and forgets the comments.             *)
StampIssueOnly(w) ==
    LET s == sync[w]
    IN  /\ s.pc = "stamp" \/ (s.pc = "comment" /\ s.todo = {})
        /\ Unlocked
        /\ ticket' = [ticket EXCEPT !.issue = s.issue, !.mirror = s.subject]
        /\ Goto(w, IF s.failed THEN "fail" ELSE "done")
        /\ UNCHANGED <<outbox, issues, hooks, agent, inbound, told, used, excused>>

(* stampLinear with the plan's mirror.                                     *)
Stamp(w) ==
    LET s == sync[w]
    IN  /\ s.pc = "stamp" \/ (s.pc = "comment" /\ s.todo = {})
        /\ Unlocked
        /\ ticket' = [ticket EXCEPT !.issue = s.issue, !.mirror = s.subject, !.commented = s.commented]
        /\ Goto(w, IF s.failed THEN "fail" ELSE "done")
        /\ UNCHANGED <<outbox, issues, hooks, agent, inbound, told, used, excused>>

(* The drain removes the row, whatever was marked on it since.             *)
Finish(w) ==
    /\ sync[w].pc = "done"
    /\ Put(w, NoSync)
    /\ outbox' = IF w = "drain" THEN NoRow ELSE outbox
    /\ Excuse("apart", w = "drain" /\ outbox.dirty)
    /\ UNCHANGED <<ticket, issues, hooks, agent, inbound, told, used>>

(* A slip: the last attempt is not the last.                               *)
LastAttemptPlus(n) == n > MAX_ATTEMPTS
LastAttempt(n) == n >= MAX_ATTEMPTS

(* ... or counts the failure from its copy of the row; a push just fails.  *)
Retry(w) ==
    LET attempts == sync[w].attempts + 1
        dead == LastAttempt(attempts)
    IN  /\ sync[w].pc = "fail"
        /\ outbox' = IF w # "drain" THEN outbox
                     ELSE [outbox EXCEPT !.st = IF dead THEN "dead" ELSE "queued",
                                         !.attempts = attempts]
        /\ IF w = "drain" /\ dead THEN Goto(w, "giveup") ELSE Put(w, NoSync)
        /\ Excuse("apart", w = "drain" /\ dead)
        /\ UNCHANGED <<ticket, issues, hooks, agent, inbound, told, used>>

(* Giving up writes the error into the ticket's `linear` with no lock: a   *)
(* copy of it, then repo.update's own read and write.                      *)
GiveUp ==
    LET s == sync["drain"]
        own == [ticket EXCEPT !.issue = s.copy.issue, !.mirror = s.copy.mirror,
                              !.commented = s.copy.commented, !.seen = s.copy.seen]
    IN  /\ \/ s.pc = "giveup" /\ Put("drain", [pc |-> "again", copy |-> ticket])
           \/ s.pc = "again" /\ Put("drain", [pc |-> "put", copy |-> own])
           \/ s.pc = "put" /\ Put("drain", NoSync)
        /\ ticket' = IF s.pc = "put" THEN s.copy ELSE ticket
        /\ excused' = IF s.pc = "put" /\ ticket # s.copy
                      THEN excused \cup {"apart", "twice", "retold"} ELSE excused
        /\ UNCHANGED <<outbox, issues, hooks, agent, inbound, told, used>>

-----------------------------------------------------------------------------
(* The developers, in Linear.                                              *)
Rename ==
    \E i \in DOMAIN issues :
        /\ Spend("remote", MaxRemote)
        /\ issues' = Renamed(i, NewTitle)
        /\ hooks' = hooks \cup {Issue(i, NewTitle)}
        /\ UNCHANGED <<ticket, outbox, agent, sync, inbound, told, excused>>

WriteNote ==
    \E i \in DOMAIN issues, c \in Notes :
        /\ \A j \in DOMAIN issues : c \notin issues[j].notes
        /\ Spend("remote", MaxRemote)
        /\ issues' = [issues EXCEPT ![i].notes = @ \cup {c}, ![i].fresh = TRUE]
        /\ hooks' = hooks \cup {Comment(i, c)}
        /\ UNCHANGED <<ticket, outbox, agent, sync, inbound, told, excused>>

LoseHook ==
    /\ \E d \in hooks : hooks' = hooks \ {d}
    /\ UNCHANGED <<ticket, outbox, issues, agent, sync, inbound, told, used, excused>>

-----------------------------------------------------------------------------
(* What comes in: a webhook brings one delivery; the reconciliation reads  *)
(* every issue changed since its cursor, each followed by its comments.    *)
(* `fresh` is "changed since the cursor": the cursor is written at the end *)
(* of a reconciliation, here with its last application: one that stops     *)
(* half way leaves the cursor where it was.                                *)
Go(h, r) == inbound' = [inbound EXCEPT ![h] = r]

Delivery(h) == Head(inbound[h].queue)
With(pc, queue, read, known) == [pc |-> pc, queue |-> queue, read |-> read, known |-> known]
Proceed(queue, read) == IF queue = <<>> THEN NoInbound ELSE [pc |-> "next", queue |-> queue, read |-> read]
(* Of an issue that is passed over, the rest is passed over too: the       *)
(* deliveries of one issue follow each other.                              *)
OtherIssues(queue) ==
    LET n == SelectInSeq(queue, LAMBDA d : d.issue # Head(queue).issue)
    IN  IF n = 0 THEN <<>> ELSE SubSeq(queue, n, Len(queue))
Done(h) == Proceed(Tail(inbound[h].queue), inbound[h].read)
SaysNews(d) == IF d.kind = "issue" THEN d.title # ticket.subject ELSE d.note \in Notes

(* A slip: only what was posted from here is known.                        *)
KnownByPosting(c) == c \in ticket.commented
Known(c) == c \in ticket.commented \cup ticket.seen

(* findTicketByIssue, then the plan of applyLinearIssue or the checks of   *)
(* applyLinearComment, on the copy of the ticket just found: a title that  *)
(* is neither the ticket's nor the mirror's comes back; a comment posted   *)
(* from here or seen before does not.                                      *)
Open(h, queue, read) ==
    LET d == Head(queue)
        ours == d.issue = ticket.issue
        missed == ~ours /\ \E e \in ToSet(queue) : e.issue = d.issue /\ SaysNews(e)
    IN  /\ \/ ~ours /\ Go(h, Proceed(OtherIssues(queue), read))
           \/ /\ ours /\ d.kind = "issue"
              /\ Go(h, With(IF d.title \in {ticket.subject, ticket.mirror} THEN "stamp" ELSE "patch",
                            queue, read, ticket.subject))
           \/ /\ ours /\ d.kind = "comment"
              /\ Go(h, IF Known(d.note)
                       THEN Proceed(Tail(queue), read) ELSE With("seen", queue, read, ticket.seen))
        /\ excused' = IF missed THEN excused \cup {"apart", "untold"} ELSE excused
        /\ UNCHANGED <<ticket, outbox, agent, sync, told, used>>

Take ==
    /\ inbound["webhook"].pc = "idle"
    /\ \E d \in hooks : hooks' = hooks \ {d} /\ Open("webhook", <<d>>, {})
    /\ UNCHANGED issues

(* A slip: the issues are read without their comments.                     *)
DeliveryOf(i) == <<Issue(i, issues[i].title)>>

DeliveriesOf(i) ==
    LET comments == issues[i].notes \cup {m \in Messages : issues[i].posted[m] > 0}
    IN  <<Issue(i, issues[i].title)>> \o SetToSeq({Comment(i, c) : c \in comments})

Reconcile ==
    LET changed == {i \in DOMAIN issues : issues[i].fresh}
    IN  /\ inbound["reconcile"].pc = "idle" /\ changed # {}
        /\ Go("reconcile", [pc |-> "next", read |-> changed,
               queue |-> FoldSet(LAMBDA i, q : q \o DeliveriesOf(i), <<>>, changed)])
        /\ issues' = [i \in DOMAIN issues |-> [issues[i] EXCEPT !.fresh = FALSE]]
        /\ UNCHANGED <<ticket, outbox, hooks, agent, sync, told, used, excused>>

ReconcileNext ==
    /\ inbound["reconcile"].pc = "next"
    /\ Open("reconcile", inbound["reconcile"].queue, inbound["reconcile"].read)
    /\ UNCHANGED <<issues, hooks>>

(* patchTicket with the actor `linear`, which marks nothing.               *)
Patch(h) ==
    LET title == Delivery(h).title
    IN  /\ inbound[h].pc = "patch" /\ Unlocked
        /\ ticket' = [ticket EXCEPT !.subject = title]
        /\ Go(h, With("stamp", inbound[h].queue, inbound[h].read, title))
        /\ Excuse("apart", title # issues[Delivery(h).issue].title)
        /\ UNCHANGED <<outbox, issues, hooks, agent, sync, told, used>>

(* The mirror becomes the subject this delivery saw or wrote.              *)
StampMirror(h) ==
    /\ inbound[h].pc = "stamp" /\ Unlocked
    /\ ticket' = [ticket EXCEPT !.mirror = inbound[h].known]
    /\ Go(h, Done(h))
    /\ Excuse("apart", inbound[h].known # issues[Delivery(h).issue].title)
    /\ UNCHANGED <<outbox, issues, hooks, agent, sync, told, used>>

(* The comment is remembered, in a list rewritten from the copy, and then  *)
(* told on the ticket.                                                     *)
StampSeen(h) ==
    /\ inbound[h].pc = "seen" /\ Unlocked
    /\ ticket' = [ticket EXCEPT !.seen = inbound[h].known \cup {Delivery(h).note}]
    /\ inbound' = [inbound EXCEPT ![h].pc = "tell"]
    /\ Excuse("retold", inbound[h].known # ticket.seen)
    /\ UNCHANGED <<outbox, issues, hooks, agent, sync, told, used>>

Tell(h) ==
    /\ inbound[h].pc = "tell"
    /\ told' = [told EXCEPT ![Delivery(h).note] = @ + 1]
    /\ Go(h, Done(h))
    /\ UNCHANGED <<ticket, outbox, issues, hooks, agent, sync, used, excused>>

(* Applying throws: the rest of that issue is skipped, and the cursor      *)
(* moves past it all the same.                                             *)
ApplyFails(h) ==
    /\ inbound[h].pc \in {"patch", "stamp", "seen", "tell"}
    /\ Spend("faults", MaxFaults)
    /\ Go(h, Proceed(OtherIssues(inbound[h].queue), inbound[h].read))
    /\ excused' = excused \cup {"apart", "untold"}
    /\ UNCHANGED <<ticket, outbox, issues, hooks, agent, sync, told>>

-----------------------------------------------------------------------------
(* A restart forgets every operation that was under way.                   *)
Unrecorded(w) == sync[w].pc \in {"comment", "stamp"} /\ (sync[w].created \/ sync[w].commented # ticket.commented)

Restart ==
    /\ \/ agent # "idle" \/ \E w \in Workers : sync[w].pc # "idle"
       \/ \E h \in Handlers : inbound[h].pc # "idle"
    /\ Spend("faults", MaxFaults)
    /\ agent' = "idle"
    /\ sync' = [w \in Workers |-> NoSync]
    /\ inbound' = [h \in Handlers |-> NoInbound]
    /\ issues' = [i \in DOMAIN issues |->
                     [issues[i] EXCEPT !.fresh = @ \/ i \in inbound["reconcile"].read]]
    /\ excused' = excused
         \cup {e \in {"apart"} : agent # "idle"}
         \cup {e \in {"twice"} : \E w \in Workers : Unrecorded(w)}
         \cup {e \in {"untold"} : \E h \in Handlers : inbound[h].pc = "tell"}
    /\ UNCHANGED <<ticket, outbox, hooks, told>>

Sync(w) ==
    \/ StartSync(w) \/ SendIssue(w) \/ SendComment(w) \/ CallFails(w)
    \/ Stamp(w) \/ Finish(w) \/ Retry(w)
Inbound(h) ==
    Patch(h) \/ StampMirror(h) \/ StampSeen(h) \/ Tell(h) \/ ApplyFails(h)

Next ==
    \/ EditSubject \/ AddMessage \/ MarkLook \/ Mark
    \/ \E w \in Workers : Sync(w)
    \/ GiveUp
    \/ Rename \/ WriteNote \/ LoseHook \/ Take \/ Reconcile \/ ReconcileNext
    \/ \E h \in Handlers : Inbound(h)
    \/ Restart

Spec == Init /\ [][Next]_vars
=============================================================================
