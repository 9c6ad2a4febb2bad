------------------------- MODULE LinearMirrorProps -------------------------
(***************************************************************************)
(* What the mirror between a ticket and its issue is expected to keep.     *)
(***************************************************************************)
EXTENDS LinearMirror

TicketDoc == [subject : Subjects, messages : SUBSET Messages, issue : 0..Len(issues),
              mirror : Subjects \cup {NoTitle}, commented : SUBSET Messages,
              seen : SUBSET Comments]

(* The values each variable may hold; a ticket is linked to an issue that  *)
(* exists and holds as sent only messages it has, unless a stale copy of   *)
(* it was written, and a row that is queued has attempts left.             *)
TypeOK ==
    /\ ticket \in TicketDoc
    /\ "apart" \notin excused => ticket.commented \subseteq ticket.messages
    /\ outbox \in [st : {"none", "queued", "dead"}, attempts : 0..MAX_ATTEMPTS, dirty : BOOLEAN]
    /\ outbox.st = "queued" => outbox.attempts < MAX_ATTEMPTS
    /\ \A i \in DOMAIN issues : issues[i].title \in Subjects /\ issues[i].notes \subseteq Notes
    /\ agent \in {"idle", "look", "create", "update"}
    /\ told \in [Comments -> Nat]
    /\ \A w \in Workers : sync[w].pc \in
           {"idle", "issue", "comment", "stamp", "done", "fail", "giveup", "again", "put"}
    /\ \A h \in Handlers : inbound[h].pc \in {"idle", "next", "patch", "stamp", "seen", "tell"}

(* ticket-linear.js: one ticket has one issue, and each message one        *)
(* comment, unless two syncs of the ticket overlap, what was sent was      *)
(* never recorded, or the drain gave up writing a stale copy of the ticket.*)
SentOnce ==
    "twice" \notin excused =>
        /\ Len(issues) <= 1
        /\ \A i \in DOMAIN issues, m \in Messages : issues[i].posted[m] <= 1

(* applyLinearComment: webhook and reconciliation bring the same comment,  *)
(* and the ticket tells of it once, unless what it remembers was written   *)
(* back from a stale copy: by the other of the two, or by a drain giving up.*)
ToldOnce ==
    "retold" \notin excused => \A c \in Notes : told[c] <= 1

(* Nothing is on its way, and the reconciliation has nothing left to read. *)
AtRest ==
    /\ outbox.st = "none" /\ hooks = {} /\ agent = "idle"
    /\ \A w \in Workers : sync[w].pc = "idle"
    /\ \A h \in Handlers : inbound[h].pc = "idle"
    /\ \A i \in DOMAIN issues : ~issues[i].fresh

(* ticket-linear.js:21-23: the next cycle mends what was not delivered: at *)
(* rest both sides have one subject and every message is a comment, unless *)
(* a mark was lost, a row given up, an old title or a stale copy applied,  *)
(* or applying skipped.                                                    *)
AgreeAtRest ==
    AtRest /\ Len(issues) = 1 /\ "apart" \notin excused =>
        /\ ticket.issue = 1 /\ ticket.subject = issues[1].title
        /\ \A m \in ticket.messages : issues[1].posted[m] > 0

(* The reconciliation repeats what the webhook did not bring: at rest each *)
(* comment of the developers on the ticket's issue was told, unless        *)
(* applying it failed or it came before the link.                          *)
NotesAreTold ==
    AtRest /\ Len(issues) = 1 /\ "untold" \notin excused =>
        \A c \in issues[1].notes : told[c] > 0
=============================================================================
