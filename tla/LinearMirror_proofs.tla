------------------------- MODULE LinearMirror_proofs -------------------------
(***************************************************************************)
(* For any number of messages, notes, push buttons and faults, and up to   *)
(* what the code gives away: a ticket has one issue and each message one   *)
(* comment, each note is told once, the state has its types, and at rest   *)
(* the two sides agree and every note was told.                            *)
(***************************************************************************)
EXTENDS LinearMirrorProps, FiniteSetTheorems, WellFoundedInduction, NaturalsInduction,
        SequenceTheorems, TLAPS

TicketFields == {"subject", "messages", "issue", "mirror", "commented", "seen"}
SyncFields == {"pc", "subject", "todo", "commented", "issue", "created", "failed", "attempts"}

-----------------------------------------------------------------------------
(* What is told.  A note told, or about to be, is remembered on the        *)
(* ticket, and one about to be remembered was not when it was opened.      *)
Telling(h, c) == inbound[h].pc = "tell" /\ Delivery(h).note = c

NotesInv ==
    /\ DOMAIN ticket = TicketFields
    /\ DOMAIN inbound = Handlers /\ DOMAIN told = Comments
    /\ \A h \in Handlers : {"pc", "queue"} \subseteq DOMAIN inbound[h]
    /\ \A c \in Notes :
         /\ told[c] \in {0, 1}
         /\ told[c] = 1 => c \in ticket.seen
         /\ \A h \in Handlers :
              /\ Telling(h, c) => told[c] = 0 /\ c \in ticket.seen
              /\ inbound[h].pc = "seen" /\ Delivery(h).note = c => c \notin inbound[h].known
              /\ \A g \in Handlers : Telling(h, c) /\ Telling(g, c) => g = h

ToldInv == "retold" \notin excused => NotesInv

-----------------------------------------------------------------------------
(* What is sent.  A sync under way knows the issue and the comments there  *)
(* are, and when there is none the ticket does.                            *)
IsIssue(d) ==
    /\ DOMAIN d = {"title", "posted", "notes", "fresh"}
    /\ d.posted \in [Messages -> {0, 1}]

IssuesOK == issues = <<>> \/ \E d : issues = <<d>> /\ IsIssue(d)

Covers(issue, commented) ==
    /\ issue = Len(issues)
    /\ \A i \in DOMAIN issues, m \in Messages : issues[i].posted[m] > 0 => m \in commented

InSync(w) == sync[w].pc \in {"issue", "comment", "stamp"}

SyncOK(w) ==
    LET s == sync[w] IN
    /\ "pc" \in DOMAIN s
    /\ s.pc \in {"issue", "comment", "stamp", "done", "fail"} => DOMAIN s = SyncFields
    /\ InSync(w) =>
         /\ Covers(s.issue, s.commented)
         /\ s.todo \cap s.commented = {} /\ s.todo \subseteq Messages
         /\ s.created \in BOOLEAN
         /\ ~s.created => ticket.issue = s.issue
         /\ s.pc = "issue" => ~s.created /\ s.commented = ticket.commented

LinksInv ==
    /\ DOMAIN ticket = TicketFields /\ ticket.messages \subseteq Messages
    /\ DOMAIN sync = Workers
    /\ IssuesOK
    /\ \A v, w \in Workers : sync[v].pc # "idle" /\ sync[w].pc # "idle" => v = w
    /\ \A w \in Workers : SyncOK(w)
    /\ (\A w \in Workers : ~InSync(w)) => Covers(ticket.issue, ticket.commented)

SentInv == "twice" \notin excused => LinksInv

IInv == ToldInv /\ SentInv

-----------------------------------------------------------------------------
LEMMA InitInv == Init => IInv
  <1> SUFFICES ASSUME Init PROVE IInv
    OBVIOUS
  <1>1. NotesInv
    BY LinearAssumption DEF Init, NotesInv, TicketFields, NoInbound, Telling, Comments
  <1>2. LinksInv
    BY DEF Init, LinksInv, TicketFields, NoSync, SyncOK, InSync, IssuesOK, Covers
  <1>. QED  BY <1>1, <1>2 DEF IInv, ToldInv, SentInv

(* A promise given away is never taken back.                               *)
LEMMA ExcusedStays == Next => excused \subseteq excused'
  <1> SUFFICES ASSUME Next PROVE excused \subseteq excused'
    OBVIOUS
  <1> USE DEF Excuse
  <1>1. CASE EditSubject \/ AddMessage \/ MarkLook \/ Mark
    BY <1>1 DEF EditSubject, AddMessage, MarkLook, Mark, Write
  <1>2. ASSUME NEW w \in Workers, Sync(w) PROVE excused \subseteq excused'
    BY <1>2 DEF Sync, StartSync, SendIssue, SendComment, CallFails, Stamp, Finish, Retry
  <1>3. CASE GiveUp
    BY <1>3 DEF GiveUp
  <1>4. CASE Rename \/ WriteNote \/ LoseHook \/ Take \/ Reconcile \/ ReconcileNext
    BY <1>4 DEF Rename, WriteNote, LoseHook, Take, Reconcile, ReconcileNext, Open
  <1>5. ASSUME NEW h \in Handlers, Inbound(h) PROVE excused \subseteq excused'
    BY <1>5 DEF Inbound, Patch, StampMirror, StampSeen, Tell, ApplyFails
  <1>6. CASE Restart
    BY <1>6 DEF Restart
  <1>. QED  BY <1>1, <1>2, <1>3, <1>4, <1>5, <1>6 DEF Next

-----------------------------------------------------------------------------
(* Steps that neither open nor tell, and keep what the ticket remembers.   *)
LEMMA ToldElsewhere ==
  ASSUME NotesInv, UNCHANGED <<inbound, told>>, DOMAIN ticket' = TicketFields,
         ticket'.seen = ticket.seen
  PROVE  NotesInv'
  BY DEF NotesInv, Telling, Delivery

LEMMA ProceedShape ==
  ASSUME NEW queue, NEW read
  PROVE  {"pc", "queue"} \subseteq DOMAIN Proceed(queue, read)
         /\ Proceed(queue, read).pc \in {"idle", "next"}
  BY DEF Proceed, NoInbound

LEMMA WithShape ==
  ASSUME NEW pc, NEW queue, NEW read, NEW known
  PROVE  /\ {"pc", "queue"} \subseteq DOMAIN With(pc, queue, read, known)
         /\ With(pc, queue, read, known).pc = pc /\ With(pc, queue, read, known).known = known
         /\ With(pc, queue, read, known).queue = queue
  BY DEF With

LEMMA OpenTells ==
  ASSUME NotesInv, NEW h \in Handlers, NEW queue, NEW read, Open(h, queue, read)
  PROVE  NotesInv'
  <1>1. PICK r : /\ inbound' = [inbound EXCEPT ![h] = r] /\ UNCHANGED <<ticket, told>>
                 /\ {"pc", "queue"} \subseteq DOMAIN r /\ r.pc # "tell"
                 /\ r.pc = "seen" => r.known = ticket.seen /\ Head(r.queue).note \notin ticket.seen
    <2> DEFINE d == Head(queue)
    <2>1. UNCHANGED <<ticket, told>>
      BY DEF Open
    <2>2. CASE Go(h, Proceed(OtherIssues(queue), read))
      BY <2>1, <2>2, ProceedShape DEF Go
    <2>3. ASSUME NEW pc \in {"stamp", "patch"}, Go(h, With(pc, queue, read, ticket.subject))
          PROVE  \E r : /\ inbound' = [inbound EXCEPT ![h] = r] /\ UNCHANGED <<ticket, told>>
                        /\ {"pc", "queue"} \subseteq DOMAIN r /\ r.pc # "tell" /\ r.pc # "seen"
      <3> DEFINE r == With(pc, queue, read, ticket.subject)
      <3>1. {"pc", "queue"} \subseteq DOMAIN r /\ r.pc = pc
        BY WithShape
      <3>2. inbound' = [inbound EXCEPT ![h] = r]
        BY <2>3 DEF Go
      <3> HIDE DEF r
      <3>. QED  BY <2>1, <3>1, <3>2
    <2>4. CASE Go(h, Proceed(Tail(queue), read))
      BY <2>1, <2>4, ProceedShape DEF Go
    <2>5. CASE ~Known(d.note) /\ Go(h, With("seen", queue, read, ticket.seen))
      <3>1. d.note \notin ticket.seen
        BY <2>5 DEF Known
      <3> DEFINE r == With("seen", queue, read, ticket.seen)
      <3>2. {"pc", "queue"} \subseteq DOMAIN r /\ r.pc = "seen" /\ r.known = ticket.seen /\ r.queue = queue
        BY WithShape
      <3>3. inbound' = [inbound EXCEPT ![h] = r]
        BY <2>5 DEF Go
      <3> HIDE DEF r
      <3>. QED  BY <2>1, <3>1, <3>2, <3>3
    <2>6. \/ Go(h, Proceed(OtherIssues(queue), read))
          \/ \E pc \in {"stamp", "patch"} : Go(h, With(pc, queue, read, ticket.subject))
          \/ Go(h, Proceed(Tail(queue), read))
          \/ ~Known(d.note) /\ Go(h, With("seen", queue, read, ticket.seen))
      BY DEF Open
    <2>. QED  BY <2>2, <2>3, <2>4, <2>5, <2>6
  <1>. QED  BY <1>1 DEF NotesInv, Telling, Delivery

LEMMA InboundTells ==
  ASSUME NotesInv, NEW h \in Handlers, Inbound(h), "retold" \notin excused'
  PROVE  NotesInv'
  <1>0. {"pc", "queue"} \subseteq DOMAIN inbound[h] /\ DOMAIN inbound = Handlers
    BY DEF NotesInv
  <1>1. CASE Patch(h)
    <2>1. PICK r : inbound' = [inbound EXCEPT ![h] = r] /\ r.pc = "stamp"
                   /\ {"pc", "queue"} \subseteq DOMAIN r
      <3> DEFINE r == With("stamp", inbound[h].queue, inbound[h].read, Delivery(h).title)
      <3>1. inbound' = [inbound EXCEPT ![h] = r]
        BY <1>1 DEF Patch, Go
      <3>2. {"pc", "queue"} \subseteq DOMAIN r /\ r.pc = "stamp"
        BY WithShape
      <3> HIDE DEF r
      <3>. QED  BY <3>1, <3>2
    <2>2. DOMAIN ticket' = TicketFields /\ ticket'.seen = ticket.seen /\ told' = told
      BY <1>1 DEF Patch, NotesInv, TicketFields
    <2>. QED  BY <1>0, <2>1, <2>2 DEF NotesInv, Telling, Delivery
  <1>2. CASE StampMirror(h)
    <2>1. PICK r : inbound' = [inbound EXCEPT ![h] = r] /\ r.pc \in {"idle", "next"}
                   /\ {"pc", "queue"} \subseteq DOMAIN r
      BY <1>2, ProceedShape DEF StampMirror, Go, Done
    <2>2. DOMAIN ticket' = TicketFields /\ ticket'.seen = ticket.seen /\ told' = told
      BY <1>2 DEF StampMirror, NotesInv, TicketFields
    <2>. QED  BY <1>0, <2>1, <2>2 DEF NotesInv, Telling, Delivery
  <1>3. CASE StampSeen(h)
    <2> DEFINE c == Delivery(h).note
    <2>1. inbound[h].known = ticket.seen /\ inbound[h].pc = "seen"
      BY <1>3 DEF StampSeen, Excuse
    <2>2. /\ inbound' = [inbound EXCEPT ![h].pc = "tell"] /\ told' = told
          /\ DOMAIN ticket' = TicketFields /\ ticket'.seen = ticket.seen \cup {c}
      BY <1>3, <2>1 DEF StampSeen, NotesInv, TicketFields
    <2>3. /\ inbound'[h].pc = "tell" /\ Delivery(h)' = Delivery(h)
          /\ {"pc", "queue"} \subseteq DOMAIN inbound'[h]
          /\ \A g \in Handlers \ {h} : inbound'[g] = inbound[g]
      BY <1>0, <2>2 DEF Delivery
    <2>4. c \in Notes => c \notin ticket.seen
      BY <2>1 DEF NotesInv
    <2>. QED  BY <1>0, <2>1, <2>2, <2>3, <2>4 DEF NotesInv, Telling, Delivery
  <1>4. CASE Tell(h)
    <2> DEFINE c == Delivery(h).note
    <2>1. PICK r : inbound' = [inbound EXCEPT ![h] = r] /\ r.pc \in {"idle", "next"}
                   /\ {"pc", "queue"} \subseteq DOMAIN r
      BY <1>4, ProceedShape DEF Tell, Go, Done
    <2>2. Telling(h, c) /\ told' = [told EXCEPT ![c] = @ + 1] /\ ticket' = ticket
      BY <1>4 DEF Tell, Telling
    <2> HIDE DEF c
    <2>3. \A d \in Notes : told'[d] = IF d = c THEN 1 ELSE told[d]
      BY <2>2 DEF NotesInv, Comments
    <2>4. DOMAIN told' = Comments
      BY <2>2 DEF NotesInv
    <2>. QED  BY <1>0, <2>1, <2>2, <2>3, <2>4, SMTT(20) DEF NotesInv, Telling, Delivery
  <1>5. CASE ApplyFails(h)
    <2>1. PICK r : inbound' = [inbound EXCEPT ![h] = r] /\ r.pc \in {"idle", "next"}
                   /\ {"pc", "queue"} \subseteq DOMAIN r
      BY <1>5, ProceedShape, ZenonT(40) DEF ApplyFails, Go
    <2>2. UNCHANGED <<ticket, told>>
      BY <1>5 DEF ApplyFails
    <2>. QED  BY <1>0, <2>1, <2>2 DEF NotesInv, Telling, Delivery
  <1>. QED  BY <1>1, <1>2, <1>3, <1>4, <1>5 DEF Inbound

LEMMA ToldStep ==
  ASSUME ToldInv, Next
  PROVE  ToldInv'
  <1> SUFFICES ASSUME "retold" \notin excused' PROVE NotesInv'
    BY DEF ToldInv
  <1>0. NotesInv /\ DOMAIN ticket = TicketFields
    BY ExcusedStays DEF ToldInv, NotesInv
  <1>1. CASE EditSubject \/ AddMessage \/ MarkLook \/ Mark
    <2>1. UNCHANGED <<inbound, told>> /\ DOMAIN ticket' = TicketFields /\ ticket'.seen = ticket.seen
      BY <1>0, <1>1 DEF EditSubject, AddMessage, MarkLook, Mark, Write, TicketFields
    <2>. QED  BY <1>0, <2>1, ToldElsewhere
  <1>2. ASSUME NEW w \in Workers, Sync(w) PROVE NotesInv'
    <2>1. UNCHANGED <<inbound, told>> /\ DOMAIN ticket' = TicketFields /\ ticket'.seen = ticket.seen
      BY <1>0, <1>2 DEF Sync, StartSync, SendIssue, SendComment, CallFails, Stamp, Finish, Retry, TicketFields
    <2>. QED  BY <1>0, <2>1, ToldElsewhere
  <1>3. CASE GiveUp
    <2>1. UNCHANGED <<inbound, told>> /\ ticket' = ticket
      BY <1>3 DEF GiveUp
    <2>. QED  BY <1>0, <2>1, ToldElsewhere
  <1>4. CASE Rename \/ WriteNote \/ LoseHook
    <2>1. UNCHANGED <<inbound, told, ticket>>
      BY <1>4 DEF Rename, WriteNote, LoseHook
    <2>. QED  BY <1>0, <2>1, ToldElsewhere
  <1>5. CASE Take \/ ReconcileNext
    <2>1. PICK h \in Handlers : \E queue, read : Open(h, queue, read)
      BY <1>5 DEF Take, ReconcileNext, Handlers
    <2>. QED  BY <1>0, <2>1, OpenTells
  <1>6. CASE Reconcile
    <2>1. PICK r : inbound' = [inbound EXCEPT !["reconcile"] = r] /\ r.pc = "next"
                   /\ {"pc", "queue"} \subseteq DOMAIN r
      <3> DEFINE changed == {i \in DOMAIN issues : issues[i].fresh}
                 q == FoldSet(LAMBDA i, all : all \o DeliveriesOf(i), <<>>, changed)
      <3>1. inbound' = [inbound EXCEPT !["reconcile"] = [pc |-> "next", read |-> changed, queue |-> q]]
        BY <1>6 DEF Reconcile, Go
      <3> HIDE DEF q, changed
      <3>2. PICK r : r = [pc |-> "next", read |-> changed, queue |-> q]
        OBVIOUS
      <3>3. r.pc = "next" /\ {"pc", "queue"} \subseteq DOMAIN r
        BY <3>2
      <3>. QED  BY <3>1, <3>2, <3>3
    <2>2. UNCHANGED <<ticket, told>>
      BY <1>6 DEF Reconcile
    <2>. QED  BY <1>0, <2>1, <2>2 DEF NotesInv, Telling, Delivery
  <1>7. ASSUME NEW h \in Handlers, Inbound(h) PROVE NotesInv'
    BY <1>0, <1>7, InboundTells
  <1>8. CASE Restart
    BY <1>0, <1>8 DEF Restart, NotesInv, Telling, NoInbound
  <1>. QED  BY <1>1, <1>2, <1>3, <1>4, <1>5, <1>6, <1>7, <1>8 DEF Next

-----------------------------------------------------------------------------
(* What is sent.  First the issues: a rename, a note and a reading keep    *)
(* how many there are and what was posted on them.                         *)
SamePosts ==
    /\ IssuesOK'
    /\ Len(issues') = Len(issues) /\ DOMAIN issues' = DOMAIN issues
    /\ \A i \in DOMAIN issues : issues'[i].posted = issues[i].posted

LEMMA OnePosts ==
  ASSUME NEW d, NEW e, issues = <<d>>, issues' = <<e>>, IsIssue(e), e.posted = d.posted
  PROVE  SamePosts
  <1>1. IssuesOK'
    BY DEF IssuesOK
  <1>2. DOMAIN issues = {1} /\ DOMAIN issues' = {1} /\ Len(issues) = 1 /\ Len(issues') = 1
        /\ issues[1] = d /\ issues'[1] = e
    OBVIOUS
  <1>. QED  BY <1>1, <1>2 DEF SamePosts

LEMMA OneIssue ==
  ASSUME IssuesOK, NEW i \in DOMAIN issues
  PROVE  \E d : i = 1 /\ issues = <<d>> /\ IsIssue(d)
  BY DEF IssuesOK

LEMMA RenamedPosts ==
  ASSUME IssuesOK, NEW i \in DOMAIN issues, NEW title, issues' = Renamed(i, title)
  PROVE  SamePosts
  <1>1. PICK d : i = 1 /\ issues = <<d>> /\ IsIssue(d)
    BY OneIssue
  <1>2. PICK e : e = [d EXCEPT !.title = title, !.fresh = TRUE]
    OBVIOUS
  <1>3. issues' = <<e>>
    BY <1>1, <1>2 DEF Renamed
  <1>4. IsIssue(e) /\ e.posted = d.posted
    BY <1>1, <1>2 DEF IsIssue
  <1>. QED  BY <1>1, <1>3, <1>4, OnePosts

LEMMA NotedPosts ==
  ASSUME IssuesOK, NEW i \in DOMAIN issues, NEW c,
         issues' = [issues EXCEPT ![i].notes = @ \cup {c}, ![i].fresh = TRUE]
  PROVE  SamePosts
  <1>1. PICK d : i = 1 /\ issues = <<d>> /\ IsIssue(d)
    BY OneIssue
  <1>2. PICK e : e = [d EXCEPT !.notes = @ \cup {c}, !.fresh = TRUE]
    OBVIOUS
  <1>3. issues' = <<e>>
    BY <1>1, <1>2
  <1>4. IsIssue(e) /\ e.posted = d.posted
    BY <1>1, <1>2 DEF IsIssue
  <1>. QED  BY <1>1, <1>3, <1>4, OnePosts

LEMMA ReadPosts ==
  ASSUME IssuesOK, NEW f, issues' = [i \in DOMAIN issues |-> [issues[i] EXCEPT !.fresh = f[i]]]
  PROVE  SamePosts
  <1>1. CASE issues = <<>>
    <2>1. issues' = <<>>
      BY <1>1
    <2>. QED  BY <1>1, <2>1 DEF SamePosts, IssuesOK
  <1>2. CASE \E d : issues = <<d>> /\ IsIssue(d)
    <2>1. PICK d : issues = <<d>> /\ IsIssue(d)
      BY <1>2
    <2>2. PICK e : e = [d EXCEPT !.fresh = f[1]]
      OBVIOUS
    <2>3. issues' = <<e>>
      BY <2>1, <2>2
    <2>4. IsIssue(e) /\ e.posted = d.posted
      BY <2>1, <2>2 DEF IsIssue
    <2>. QED  BY <2>1, <2>3, <2>4, OnePosts
  <1>. QED  BY <1>1, <1>2 DEF IssuesOK

(* Steps of others than the syncs.                                         *)
LEMMA LinksElsewhere ==
  ASSUME LinksInv, SamePosts, sync' = sync, DOMAIN ticket' = TicketFields,
         ticket'.issue = ticket.issue, ticket'.commented = ticket.commented,
         ticket'.messages \subseteq Messages
  PROVE  LinksInv'
  <1>1. \A n, set : Covers(n, set) => Covers(n, set)'
    BY DEF SamePosts, Covers
  <1>2. ASSUME NEW w \in Workers PROVE SyncOK(w)' /\ (InSync(w)' <=> InSync(w))
    <2>1. SyncOK(w) /\ sync'[w] = sync[w]
      BY DEF LinksInv
    <2>. QED  BY <1>1, <2>1 DEF SyncOK, InSync
  <1>3. (\A w \in Workers : ~InSync(w)') => Covers(ticket.issue, ticket.commented)'
    BY <1>1, <1>2 DEF LinksInv
  <1>. QED  BY <1>2, <1>3 DEF LinksInv, SamePosts

(* A step of the only worker, that leaves the issues to `next`.            *)
LEMMA WorkerMoves ==
  ASSUME LinksInv, NEW w \in Workers, sync[w].pc # "idle", NEW s,
         sync' = [sync EXCEPT ![w] = s],
         "pc" \in DOMAIN s, DOMAIN ticket' = TicketFields, ticket'.messages \subseteq Messages,
         IssuesOK', SyncOK(w)',
         ~InSync(w)' => Covers(ticket.issue, ticket.commented)'
  PROVE  LinksInv'
  <1>1. \A v \in Workers \ {w} : sync[v].pc = "idle" /\ sync'[v] = sync[v]
    BY DEF LinksInv
  <1>2. ASSUME NEW v \in Workers \ {w} PROVE SyncOK(v)' /\ ~InSync(v)'
    <2>1. SyncOK(v) /\ sync'[v] = sync[v] /\ sync[v].pc = "idle"
      BY <1>1 DEF LinksInv
    <2>. QED  BY <2>1 DEF SyncOK, InSync
  <1>. QED  BY <1>1, <1>2 DEF LinksInv

LEMMA SamePostsStays == ASSUME IssuesOK, issues' = issues PROVE SamePosts
  BY DEF SamePosts, IssuesOK

(* The agents, the developers and what comes in.                           *)
LEMMA OthersSend ==
  ASSUME LinksInv, "twice" \notin excused',
         \/ EditSubject \/ AddMessage \/ MarkLook \/ Mark
         \/ Rename \/ WriteNote \/ LoseHook \/ Take \/ Reconcile \/ ReconcileNext
         \/ \E h \in Handlers : Inbound(h)
  PROVE  LinksInv'
  <1>1. DOMAIN ticket = TicketFields /\ ticket.messages \subseteq Messages /\ IssuesOK
    BY DEF LinksInv
  <1>2. /\ DOMAIN ticket' = TicketFields /\ ticket'.issue = ticket.issue
        /\ ticket'.commented = ticket.commented /\ ticket'.messages \subseteq Messages
    <2>1. CASE EditSubject \/ AddMessage \/ MarkLook \/ Mark
      BY <1>1, <2>1 DEF EditSubject, AddMessage, MarkLook, Mark, Write, TicketFields
    <2>2. CASE Rename \/ WriteNote \/ LoseHook \/ Take \/ Reconcile \/ ReconcileNext
      BY <1>1, <2>2 DEF Rename, WriteNote, LoseHook, Take, Reconcile, ReconcileNext, Open
    <2>3. ASSUME NEW h \in Handlers, Inbound(h)
          PROVE  /\ DOMAIN ticket' = TicketFields /\ ticket'.issue = ticket.issue
                 /\ ticket'.commented = ticket.commented /\ ticket'.messages \subseteq Messages
      BY <1>1, <2>3 DEF Inbound, Patch, StampMirror, StampSeen, Tell, ApplyFails, TicketFields
    <2>. QED  BY <2>1, <2>2, <2>3
  <1>3. SamePosts
    <2>1. CASE \/ EditSubject \/ AddMessage \/ MarkLook \/ Mark \/ LoseHook \/ Take \/ ReconcileNext
               \/ \E h \in Handlers : Inbound(h)
      <3>1. issues' = issues
        BY <2>1 DEF EditSubject, AddMessage, MarkLook, Mark, Write, LoseHook, Take, ReconcileNext,
                    Inbound, Patch, StampMirror, StampSeen, Tell, ApplyFails
      <3>. QED  BY <1>1, <3>1, SamePostsStays
    <2>2. CASE Rename
      BY <1>1, <2>2, RenamedPosts DEF Rename
    <2>3. CASE WriteNote
      BY <1>1, <2>3, NotedPosts DEF WriteNote
    <2>4. CASE Reconcile
      <3>1. PICK f : f = [i \in DOMAIN issues |-> FALSE]
        OBVIOUS
      <3>2. issues' = [i \in DOMAIN issues |-> [issues[i] EXCEPT !.fresh = f[i]]]
        BY <2>4, <3>1 DEF Reconcile
      <3>. QED  BY <1>1, <3>2, ReadPosts
    <2>. QED  BY <2>1, <2>2, <2>3, <2>4
  <1>4. sync' = sync
    BY DEF EditSubject, AddMessage, MarkLook, Mark, Write, Rename, WriteNote, LoseHook, Take,
           Reconcile, ReconcileNext, Open, Inbound, Patch, StampMirror, StampSeen, Tell, ApplyFails
  <1>. QED  BY <1>2, <1>3, <1>4, LinksElsewhere

(* A sync begins while no other is under way.                              *)
LEMMA CoversStays ==
  ASSUME SamePosts PROVE \A n, set : Covers(n, set) => Covers(n, set)'
  BY DEF SamePosts, Covers

LEMMA StartSends ==
  ASSUME LinksInv, "twice" \notin excused', NEW w \in Workers, StartSync(w)
  PROVE  LinksInv'
  <1>0. PICK s : s = [pc |-> FirstStep, subject |-> ticket.subject, todo |-> Pending,
                      commented |-> ticket.commented, issue |-> ticket.issue, created |-> FALSE,
                      failed |-> FALSE, attempts |-> outbox.attempts]
    OBVIOUS
  <1>1. /\ sync' = [sync EXCEPT ![w] = s] /\ UNCHANGED <<ticket, issues>>
        /\ \A v \in Workers : v # w => sync[v].pc = "idle"
        /\ sync[w].pc = "idle"
    BY <1>0 DEF StartSync, Put, Excuse
  <1>2. /\ DOMAIN s = SyncFields /\ s.pc \in {"issue", "comment", "done"} /\ s.created = FALSE
        /\ s.issue = ticket.issue /\ s.commented = ticket.commented /\ s.todo = Pending
    BY <1>0 DEF FirstStep, SyncFields
  <1>3. Pending \subseteq Messages /\ Pending \cap ticket.commented = {}
    BY DEF Pending, LinksInv
  <1>4. Covers(ticket.issue, ticket.commented) /\ DOMAIN sync = Workers /\ IssuesOK
    BY <1>1 DEF LinksInv, InSync
  <1>5. Covers(s.issue, s.commented)' /\ Covers(ticket.issue, ticket.commented)'
    <2>1. Covers(s.issue, s.commented)
      BY <1>2, <1>4
    <2>. QED  BY <1>1, <1>4, <2>1, CoversStays, SamePostsStays
  <1>6. sync'[w] = s /\ \A v \in Workers \ {w} : sync'[v] = sync[v]
    BY <1>1, <1>4
  <1>7. SyncOK(w)'
    BY <1>1, <1>2, <1>3, <1>5, <1>6 DEF SyncOK, InSync, SyncFields
  <1>8. ASSUME NEW v \in Workers \ {w} PROVE SyncOK(v)' /\ sync'[v].pc = "idle"
    BY <1>1, <1>6 DEF LinksInv, SyncOK, InSync
  <1>9. IssuesOK' /\ DOMAIN ticket' = TicketFields /\ ticket'.messages \subseteq Messages
    BY <1>1 DEF LinksInv, IssuesOK
  <1>. QED  BY <1>1, <1>4, <1>5, <1>7, <1>8, <1>9 DEF LinksInv

(* What its steps add.                                                     *)
LEMMA SendSteps ==
  ASSUME LinksInv, "twice" \notin excused', NEW w \in Workers,
         SendIssue(w) \/ SendComment(w) \/ CallFails(w)
  PROVE  LinksInv'
  <1>0. PICK s : s = sync[w]
    OBVIOUS
  <1>1. /\ s.pc \in {"issue", "comment"} /\ DOMAIN s = SyncFields /\ SyncOK(w) /\ InSync(w)
        /\ UNCHANGED ticket /\ DOMAIN ticket = TicketFields /\ ticket.messages \subseteq Messages
        /\ DOMAIN sync = Workers /\ IssuesOK
    BY <1>0 DEF SendIssue, SendComment, CallFails, LinksInv, SyncOK, InSync
  <1>2. /\ Covers(s.issue, s.commented)
        /\ s.todo \cap s.commented = {} /\ s.todo \subseteq Messages
        /\ s.created \in BOOLEAN
        /\ ~s.created => ticket.issue = s.issue
        /\ s.pc = "issue" => ~s.created /\ s.commented = ticket.commented
    BY <1>0, <1>1 DEF SyncOK
  <1>3. ASSUME NEW r, sync' = [sync EXCEPT ![w] = r], DOMAIN r = SyncFields, IssuesOK',
               \/ r.pc = "fail" /\ Covers(ticket.issue, ticket.commented)'
               \/ /\ r.pc \in {"comment", "stamp"} /\ Covers(r.issue, r.commented)'
                  /\ r.todo \cap r.commented = {} /\ r.todo \subseteq Messages
                  /\ r.created \in BOOLEAN /\ (~r.created => ticket.issue = r.issue)
        PROVE  LinksInv'
    <2>1. sync'[w] = r /\ "pc" \in DOMAIN r /\ sync[w].pc # "idle"
      BY <1>0, <1>1, <1>3 DEF SyncFields
    <2>2. SyncOK(w)' /\ (~InSync(w)' => Covers(ticket.issue, ticket.commented)')
      BY <1>1, <1>3, <2>1 DEF SyncOK, InSync
    <2>. QED  BY <1>1, <1>3, <2>1, <2>2, WorkerMoves
  <1>4. CASE SendIssue(w)
    <2>1. s.pc = "issue" /\ s.issue = ticket.issue /\ s.commented = ticket.commented /\ ~s.created
      BY <1>0, <1>2, <1>4 DEF SendIssue
    <2>2. CASE s.issue = 0
      <3>1. PICK r : r = [s EXCEPT !.pc = "comment", !.issue = Len(issues) + 1, !.created = TRUE]
        OBVIOUS
      <3>2. sync' = [sync EXCEPT ![w] = r] /\ issues' = Created(s.subject)
        BY <1>0, <2>2, <1>4, <3>1 DEF SendIssue, Put, Excuse
      <3>3. issues = <<>> /\ Len(issues) = 0
        <4>1. Len(issues) = 0
          BY <1>2, <2>2 DEF Covers
        <4>2. \A d : issues = <<d>> => Len(issues) = 1
          OBVIOUS
        <4>. QED  BY <1>1, <4>1, <4>2 DEF IssuesOK
      <3>4. PICK d : d = [title |-> s.subject, posted |-> [m \in Messages |-> 0], notes |-> {}, fresh |-> TRUE]
        OBVIOUS
      <3>5. issues' = <<d>>
        BY <3>2, <3>3, <3>4 DEF Created
      <3>6. IsIssue(d) /\ d.posted = [m \in Messages |-> 0]
        BY <3>4 DEF IsIssue
      <3>7. IssuesOK' /\ Covers(1, s.commented)'
        BY <3>5, <3>6 DEF IssuesOK, Covers
      <3>8. DOMAIN r = SyncFields /\ r.pc = "comment" /\ r.issue = 1 /\ r.created = TRUE
            /\ r.todo = s.todo /\ r.commented = s.commented
        BY <1>1, <3>1, <3>3 DEF SyncFields
      <3>. QED  BY <1>2, <1>3, <3>2, <3>7, <3>8
    <2>3. CASE s.issue # 0
      <3>1. issues' = Renamed(s.issue, s.subject)
        BY <1>0, <2>3, <1>4 DEF SendIssue
      <3>2. s.issue \in DOMAIN issues
        BY <1>1, <1>2, <2>3 DEF Covers, IssuesOK
      <3>3. SamePosts
        BY <1>1, <3>1, <3>2, RenamedPosts
      <3>4. Covers(s.issue, s.commented)' /\ IssuesOK'
        BY <1>2, <3>3, CoversStays DEF SamePosts
      <3>5. PICK r : /\ sync' = [sync EXCEPT ![w] = r]
                     /\ \/ r = [s EXCEPT !.pc = "comment", !.issue = s.issue, !.created = FALSE]
                        \/ r = [s EXCEPT !.pc = "fail"]
        BY <1>0, <2>3, <1>4 DEF SendIssue, Put, Goto
      <3>6. CASE r = [s EXCEPT !.pc = "comment", !.issue = s.issue, !.created = FALSE]
        <4>1. DOMAIN r = SyncFields /\ r.pc = "comment" /\ r.issue = s.issue /\ r.created = FALSE
              /\ r.todo = s.todo /\ r.commented = s.commented
          BY <1>1, <3>6 DEF SyncFields
        <4>. QED  BY <1>2, <1>3, <2>1, <3>4, <3>5, <4>1
      <3>7. CASE r = [s EXCEPT !.pc = "fail"]
        <4>1. DOMAIN r = SyncFields /\ r.pc = "fail"
          BY <1>1, <3>7 DEF SyncFields
        <4>2. Covers(ticket.issue, ticket.commented)'
          BY <1>1, <2>1, <3>4
        <4>. QED  BY <1>3, <3>4, <3>5, <4>1, <4>2
      <3>. QED  BY <3>5, <3>6, <3>7
    <2>. QED  BY <2>2, <2>3
  <1>5. CASE SendComment(w)
    <2>1. PICK m \in s.todo :
            /\ issues' = [issues EXCEPT ![s.issue].posted[m] = @ + 1, ![s.issue].fresh = TRUE]
            /\ sync' = [sync EXCEPT ![w] = [s EXCEPT !.todo = @ \ {m}, !.commented = @ \cup {m}]]
      BY <1>0, <1>5 DEF SendComment, Put, Excuse
    <2>2. s.pc = "comment"
      BY <1>0, <1>5 DEF SendComment
    <2>3. PICK r : r = [s EXCEPT !.todo = @ \ {m}, !.commented = @ \cup {m}]
      OBVIOUS
    <2>4. DOMAIN r = SyncFields /\ r.pc = "comment" /\ r.issue = s.issue /\ r.created = s.created
          /\ r.todo = s.todo \ {m} /\ r.commented = s.commented \cup {m}
      BY <1>1, <2>2, <2>3 DEF SyncFields
    <2>5. IssuesOK' /\ Covers(r.issue, r.commented)'
      <3>1. CASE issues = <<>>
        <4>1. issues' = <<>>
          BY <2>1, <3>1
        <4>. QED  BY <1>2, <2>4, <3>1, <4>1 DEF Covers, IssuesOK
      <3>2. CASE \E d : issues = <<d>> /\ IsIssue(d)
        <4>1. PICK d : issues = <<d>> /\ IsIssue(d)
          BY <3>2
        <4>2. PICK e : e = [d EXCEPT !.posted[m] = @ + 1, !.fresh = TRUE]
          OBVIOUS
        <4>3. s.issue = 1 /\ m \in Messages /\ m \notin s.commented
          BY <1>2, <4>1 DEF Covers
        <4>4. issues' = <<e>>
          BY <2>1, <4>1, <4>2, <4>3
        <4>5. d.posted[m] = 0
          BY <1>2, <4>1, <4>3 DEF Covers, IsIssue
        <4>6. IsIssue(e) /\ e.posted = [d.posted EXCEPT ![m] = 1]
          BY <4>1, <4>2, <4>3, <4>5 DEF IsIssue
        <4>7. \A n \in Messages : e.posted[n] > 0 => n \in r.commented
          BY <1>2, <2>4, <4>1, <4>6 DEF Covers, IsIssue
        <4>8. Len(issues') = 1 /\ DOMAIN issues' = {1} /\ issues'[1] = e
          BY <4>4
        <4>9. IssuesOK'
          BY <4>4, <4>6 DEF IssuesOK
        <4>. QED  BY <2>4, <4>3, <4>7, <4>8, <4>9 DEF Covers
      <3>. QED  BY <1>1, <3>1, <3>2 DEF IssuesOK
    <2>. QED  BY <1>2, <1>3, <2>1, <2>3, <2>4, <2>5
  <1>6. CASE CallFails(w)
    <2>1. PICK r : r = [s EXCEPT !.pc = IF @ = "issue" THEN "fail" ELSE "stamp", !.failed = TRUE]
      OBVIOUS
    <2>2. sync' = [sync EXCEPT ![w] = r] /\ UNCHANGED issues
      BY <1>0, <1>6, <2>1 DEF CallFails, Put
    <2>3. DOMAIN r = SyncFields /\ r.pc = (IF s.pc = "issue" THEN "fail" ELSE "stamp") /\ r.issue = s.issue
          /\ r.created = s.created /\ r.todo = s.todo /\ r.commented = s.commented
      BY <1>1, <2>1 DEF SyncFields
    <2>4. Covers(s.issue, s.commented)' /\ IssuesOK'
      BY <1>1, <1>2, <2>2, CoversStays, SamePostsStays DEF SamePosts
    <2>5. s.pc = "issue" => Covers(ticket.issue, ticket.commented)'
      BY <1>1, <1>2, <2>4
    <2>. QED  BY <1>1, <1>2, <1>3, <2>2, <2>3, <2>4, <2>5
  <1>. QED  BY <1>4, <1>5, <1>6

LEMMA OtherSyncSteps ==
  ASSUME LinksInv, "twice" \notin excused',
         GiveUp \/ \E w \in Workers : Stamp(w) \/ Finish(w) \/ Retry(w)
  PROVE  LinksInv'
  <1>1. /\ DOMAIN ticket = TicketFields /\ ticket.messages \subseteq Messages
        /\ DOMAIN sync = Workers /\ IssuesOK
        /\ \A v, w \in Workers : sync[v].pc # "idle" /\ sync[w].pc # "idle" => v = w
    BY DEF LinksInv
  <1>2. issues' = issues
    BY DEF GiveUp, Stamp, Finish, Retry
  <1>3. SamePosts /\ IssuesOK' /\ \A n, set : Covers(n, set) => Covers(n, set)'
    BY <1>1, <1>2, SamePostsStays, CoversStays DEF SamePosts
  <1>4. ASSUME NEW w \in Workers, Stamp(w) PROVE LinksInv'
    <2>1. PICK s : s = sync[w]
      OBVIOUS
    <2>2. InSync(w) /\ DOMAIN s = SyncFields /\ s.pc # "idle" /\ Covers(s.issue, s.commented)
      BY <1>4, <2>1 DEF Stamp, LinksInv, SyncOK, InSync
    <2>3. PICK r : r = [s EXCEPT !.pc = IF s.failed THEN "fail" ELSE "done"]
      OBVIOUS
    <2>4. sync' = [sync EXCEPT ![w] = r] /\ DOMAIN r = SyncFields /\ r.pc \in {"fail", "done"}
      BY <1>4, <2>1, <2>2, <2>3 DEF Stamp, Goto, SyncFields
    <2>5. /\ DOMAIN ticket' = TicketFields /\ ticket'.messages \subseteq Messages
          /\ ticket'.issue = s.issue /\ ticket'.commented = s.commented
      BY <1>1, <1>4, <2>1 DEF Stamp, TicketFields
    <2>6. Covers(ticket.issue, ticket.commented)'
      BY <1>3, <2>2, <2>5
    <2>7. SyncOK(w)' /\ "pc" \in DOMAIN r
      BY <1>1, <2>4 DEF SyncOK, InSync, SyncFields
    <2>. QED  BY <1>3, <2>1, <2>2, <2>4, <2>5, <2>6, <2>7, WorkerMoves
  <1>5. ASSUME NEW w \in Workers, NEW r, sync' = [sync EXCEPT ![w] = r], "pc" \in DOMAIN r,
               sync[w].pc \notin {"idle", "issue", "comment", "stamp"},
               r.pc \notin {"issue", "comment", "stamp", "done", "fail"}, ticket' = ticket
        PROVE  LinksInv'
    <2>1. \A v \in Workers : ~InSync(v)
      BY <1>1, <1>5 DEF InSync
    <2>2. Covers(ticket.issue, ticket.commented)'
      BY <1>3, <1>5, <2>1 DEF LinksInv
    <2>3. SyncOK(w)'
      BY <1>1, <1>5 DEF SyncOK, InSync
    <2>. QED  BY <1>1, <1>3, <1>5, <2>2, <2>3, WorkerMoves
  <1>6. ASSUME NEW w \in Workers, Finish(w) PROVE LinksInv'
    <2>1. sync[w].pc = "done" /\ sync' = [sync EXCEPT ![w] = NoSync] /\ ticket' = ticket
      BY <1>6 DEF Finish, Put
    <2>2. "pc" \in DOMAIN NoSync /\ NoSync.pc = "idle"
      BY DEF NoSync
    <2>. QED  BY <1>5, <2>1, <2>2
  <1>7. ASSUME NEW w \in Workers, Retry(w) PROVE LinksInv'
    <2>1. sync[w].pc = "fail" /\ ticket' = ticket
      BY <1>7 DEF Retry
    <2>2. PICK r : /\ sync' = [sync EXCEPT ![w] = r]
                   /\ \/ r = NoSync
                      \/ r = [sync[w] EXCEPT !.pc = "giveup"]
      BY <1>7 DEF Retry, Put, Goto
    <2>3. DOMAIN sync[w] = SyncFields
      BY <2>1 DEF LinksInv, SyncOK
    <2>4. "pc" \in DOMAIN r /\ r.pc \in {"idle", "giveup"}
      BY <2>2, <2>3 DEF NoSync, SyncFields
    <2>. QED  BY <1>5, <2>1, <2>2, <2>4
  <1>8. CASE GiveUp
    <2>1. ticket' = ticket
      BY <1>8 DEF GiveUp
    <2>2. PICK r : sync' = [sync EXCEPT !["drain"] = r] /\ "pc" \in DOMAIN r
                   /\ r.pc \in {"again", "put", "idle"}
                   /\ sync["drain"].pc \in {"giveup", "again", "put"}
      <3>1. CASE sync["drain"].pc = "giveup"
        <4>1. PICK r : r = [pc |-> "again", copy |-> ticket]
          OBVIOUS
        <4>. QED  BY <1>8, <3>1, <4>1 DEF GiveUp, Put
      <3>2. CASE sync["drain"].pc = "again"
        <4>1. PICK r : r = [pc |-> "put",
                 copy |-> [ticket EXCEPT !.issue = sync["drain"].copy.issue,
                             !.mirror = sync["drain"].copy.mirror,
                             !.commented = sync["drain"].copy.commented,
                             !.seen = sync["drain"].copy.seen]]
          OBVIOUS
        <4>2. sync' = [sync EXCEPT !["drain"] = r]
          BY <1>8, <3>2, <4>1 DEF GiveUp, Put
        <4>3. "pc" \in DOMAIN r /\ r.pc = "put"
          BY <4>1
        <4>. QED  BY <3>2, <4>2, <4>3
      <3>3. CASE sync["drain"].pc = "put"
        <4>1. sync' = [sync EXCEPT !["drain"] = NoSync]
          BY <1>8, <3>3 DEF GiveUp, Put
        <4>2. "pc" \in DOMAIN NoSync /\ NoSync.pc = "idle"
          BY DEF NoSync
        <4>. QED  BY <3>3, <4>1, <4>2
      <3>. QED  BY <1>8, <3>1, <3>2, <3>3 DEF GiveUp
    <2>. QED  BY <1>5, <2>1, <2>2 DEF Workers
  <1>. QED  BY <1>4, <1>6, <1>7, <1>8

(* After a stop the ticket has recorded all that was sent.                 *)
LEMMA RestartSends ==
  ASSUME LinksInv, "twice" \notin excused', Restart
  PROVE  LinksInv'
  <1>1. \A w \in Workers : ~Unrecorded(w)
    BY DEF Restart
  <1>2. SamePosts
    <2>1. PICK f : f = [i \in DOMAIN issues |-> issues[i].fresh \/ i \in inbound["reconcile"].read]
      OBVIOUS
    <2>2. issues' = [i \in DOMAIN issues |-> [issues[i] EXCEPT !.fresh = f[i]]]
      BY <2>1 DEF Restart
    <2>. QED  BY <2>2, ReadPosts DEF LinksInv
  <1>3. Covers(ticket.issue, ticket.commented)
    <2>1. CASE \A w \in Workers : ~InSync(w)
      BY <2>1 DEF LinksInv
    <2>2. ASSUME NEW w \in Workers, InSync(w) PROVE Covers(ticket.issue, ticket.commented)
      BY <1>1, <2>2 DEF LinksInv, SyncOK, InSync, Unrecorded
    <2>. QED  BY <2>1, <2>2
  <1>4. Covers(ticket.issue, ticket.commented)' /\ IssuesOK'
    <2>1. ticket' = ticket
      BY DEF Restart
    <2>. QED  BY <1>2, <1>3, <2>1, CoversStays DEF SamePosts
  <1>5. \A w \in Workers : sync'[w] = NoSync /\ SyncOK(w)'
    BY DEF Restart, SyncOK, InSync, NoSync
  <1>6. DOMAIN sync' = Workers /\ DOMAIN ticket' = TicketFields /\ ticket'.messages \subseteq Messages
    BY DEF Restart, LinksInv
  <1>. QED  BY <1>4, <1>5, <1>6 DEF LinksInv, NoSync

LEMMA SentStep ==
  ASSUME SentInv, Next
  PROVE  SentInv'
  <1> SUFFICES ASSUME "twice" \notin excused' PROVE LinksInv'
    BY DEF SentInv
  <1>1. LinksInv
    BY ExcusedStays DEF SentInv
  <1>. QED  BY <1>1, OthersSend, StartSends, SendSteps, OtherSyncSteps, RestartSends DEF Next, Sync

-----------------------------------------------------------------------------
(* The inductive invariant: what is told and what is sent, each up to the  *)
(* step that gave it away.                                                 *)
THEOREM Invariance == Spec => []IInv
  <1>1. IInv /\ [Next]_vars => IInv'
    <2> SUFFICES ASSUME IInv, [Next]_vars PROVE IInv'
      OBVIOUS
    <2>1. CASE Next
      BY <2>1, ToldStep, SentStep DEF IInv
    <2>2. CASE UNCHANGED vars
      <3>1. ToldInv'
        BY <2>2 DEF vars, IInv, ToldInv, NotesInv, Telling, Delivery
      <3>2. SentInv'
        BY <2>2 DEF vars, IInv, SentInv, LinksInv, SyncOK, InSync, Covers, IssuesOK
      <3>. QED  BY <3>1, <3>2 DEF IInv
    <2>. QED  BY <2>1, <2>2
  <1>. QED  BY InitInv, <1>1, PTL DEF Spec

(* Whatever the webhook and the reconciliation bring again, the ticket     *)
(* tells of a comment once, unless the two had it in hand at once.         *)
THEOREM ToldOnceHolds == Spec => []ToldOnce
  <1>1. IInv => ToldOnce
    <2> SUFFICES ASSUME IInv, "retold" \notin excused, NEW c \in Notes PROVE told[c] <= 1
      BY DEF ToldOnce
    <2>1. told[c] \in {0, 1}
      BY DEF IInv, ToldInv, NotesInv
    <2>. QED  BY <2>1
  <1>. QED  BY <1>1, Invariance, PTL

(* A ticket has one issue and each message one comment, unless two syncs   *)
(* overlapped or what was sent was never recorded.                         *)
THEOREM SentOnceHolds == Spec => []SentOnce
  <1>1. IInv => SentOnce
    <2> SUFFICES ASSUME IInv, "twice" \notin excused
                 PROVE  Len(issues) <= 1
                        /\ \A i \in DOMAIN issues, m \in Messages : issues[i].posted[m] <= 1
      BY DEF SentOnce
    <2>1. IssuesOK
      BY DEF IInv, SentInv, LinksInv
    <2>2. CASE issues = <<>>
      BY <2>2
    <2>3. ASSUME NEW d, issues = <<d>>, IsIssue(d)
          PROVE  Len(issues) <= 1
                 /\ \A i \in DOMAIN issues, m \in Messages : issues[i].posted[m] <= 1
      BY <2>3 DEF IsIssue
    <2>. QED  BY <2>1, <2>2, <2>3 DEF IssuesOK
  <1>. QED  BY <1>1, Invariance, PTL

-----------------------------------------------------------------------------
(* The values the state may hold when k titles were given out and there    *)
(* are n issues.                                                           *)
Drafted == used.writes + used.remote
Usage == [writes : 0..MaxWrites, remote : 0..MaxRemote, faults : 0..MaxFaults]
Tickets(k, n) ==
    [subject : 0..k, messages : SUBSET Messages, issue : 0..n, mirror : (0..k) \cup {NoTitle},
     commented : SUBSET Messages, seen : SUBSET Comments]
IssueDocs(k) ==
    {d \in [title : 0..k, posted : [Messages -> Nat], notes : SUBSET Notes, fresh : BOOLEAN] :
        IsFiniteSet(d.notes) /\ IsFiniteSet({m \in Messages : d.posted[m] > 0})}
Deliveries(k, n) ==
    [kind : {"issue"}, issue : 1..n, title : 0..k]
    \cup [kind : {"comment"}, issue : 1..n, note : Comments]

RowTyped(row) ==
    /\ row \in [st : {"none", "queued", "dead"}, attempts : 0..MAX_ATTEMPTS, dirty : BOOLEAN]
    /\ row.st = "queued" => row.attempts < MAX_ATTEMPTS

SyncDocs(k, n) ==
    [pc : {"issue", "comment", "stamp", "done", "fail", "giveup"}, subject : 0..k,
     todo : SUBSET Messages, commented : SUBSET Messages, issue : 0..n, created : BOOLEAN,
     failed : BOOLEAN, attempts : 0..MAX_ATTEMPTS]
SyncTyped(s, w, k, n) ==
    \/ s = NoSync
    \/ /\ s \in SyncDocs(k, n)
       /\ s.pc \in {"comment", "stamp"} => s.issue # 0
       /\ s.pc = "stamp" => s.failed = TRUE
       /\ w = "drain" => s.attempts < MAX_ATTEMPTS
       /\ w # "drain" => s.pc # "giveup"
    \/ w = "drain" /\ s \in [pc : {"again", "put"}, copy : Tickets(k, n)]

Queues(k, n) == Seq(Deliveries(k, n)) \ {<<>>}
Reads(h, n) == {read \in SUBSET (1..n) : h = "reconcile" => read # {}}
InboundTyped(r, h, k, n) ==
    \/ r = NoInbound
    \/ r \in [pc : {"next"}, queue : Queues(k, n), read : Reads(h, n)]
    \/ /\ r \in [pc : {"patch", "stamp"}, queue : Queues(k, n), read : Reads(h, n), known : 0..k]
       /\ Head(r.queue).kind = "issue"
    \/ /\ r \in [pc : {"seen", "tell"}, queue : Queues(k, n), read : Reads(h, n), known : SUBSET Comments]
       /\ Head(r.queue).kind = "comment"

Typed ==
    /\ used \in Usage
    /\ issues \in Seq(IssueDocs(Drafted))
    /\ ticket \in Tickets(Drafted, Len(issues))
    /\ RowTyped(outbox)
    /\ hooks \subseteq Deliveries(Drafted, Len(issues))
    /\ agent \in {"idle", "look", "create", "update"}
    /\ DOMAIN sync = Workers /\ \A w \in Workers : SyncTyped(sync[w], w, Drafted, Len(issues))
    /\ DOMAIN inbound = Handlers
    /\ \A h \in Handlers : InboundTyped(inbound[h], h, Drafted, Len(issues))
    /\ told \in [Comments -> Nat]

-----------------------------------------------------------------------------
(* More titles and more issues leave every value one it may hold.          *)
LEMMA WiderTickets ==
  ASSUME NEW k \in Nat, NEW n \in Nat, NEW j \in Nat, NEW m \in Nat, k <= j, n <= m
  PROVE  Tickets(k, n) \subseteq Tickets(j, m)
  <1>1. 0..k \subseteq 0..j /\ 0..n \subseteq 0..m
    OBVIOUS
  <1>. QED  BY <1>1, ZenonT(30) DEF Tickets

LEMMA WiderIssues ==
  ASSUME NEW k \in Nat, NEW j \in Nat, k <= j
  PROVE  IssueDocs(k) \subseteq IssueDocs(j)
  <1>1. 0..k \subseteq 0..j
    OBVIOUS
  <1>. QED  BY <1>1 DEF IssueDocs

LEMMA WiderDeliveries ==
  ASSUME NEW k \in Nat, NEW n \in Nat, NEW j \in Nat, NEW m \in Nat, k <= j, n <= m
  PROVE  Deliveries(k, n) \subseteq Deliveries(j, m)
  <1>1. 0..k \subseteq 0..j /\ 1..n \subseteq 1..m
    OBVIOUS
  <1>. QED  BY <1>1 DEF Deliveries

LEMMA WiderSync ==
  ASSUME NEW k \in Nat, NEW n \in Nat, NEW j \in Nat, NEW m \in Nat, k <= j, n <= m,
         NEW s, NEW w, SyncTyped(s, w, k, n)
  PROVE  SyncTyped(s, w, j, m)
  <1>1. 0..k \subseteq 0..j /\ 0..n \subseteq 0..m
    OBVIOUS
  <1>2. SyncDocs(k, n) \subseteq SyncDocs(j, m)
    BY <1>1, ZenonT(30) DEF SyncDocs
  <1>3. [pc : {"again", "put"}, copy : Tickets(k, n)] \subseteq [pc : {"again", "put"}, copy : Tickets(j, m)]
    BY WiderTickets
  <1>. QED  BY <1>2, <1>3, ZenonT(30) DEF SyncTyped

LEMMA WiderInbound ==
  ASSUME NEW k \in Nat, NEW n \in Nat, NEW j \in Nat, NEW m \in Nat, k <= j, n <= m,
         NEW r, NEW h, InboundTyped(r, h, k, n)
  PROVE  InboundTyped(r, h, j, m)
  <1>1. 0..k \subseteq 0..j /\ 1..n \subseteq 1..m
    OBVIOUS
  <1>2. Reads(h, n) \subseteq Reads(h, m)
    BY <1>1 DEF Reads
  <1>3. Queues(k, n) \subseteq Queues(j, m)
    <2>1. \A S, T : S \subseteq T => Seq(S) \subseteq Seq(T)
      OBVIOUS
    <2>. QED  BY <2>1, WiderDeliveries DEF Queues
  <1>. QED  BY <1>1, <1>2, <1>3, ZenonT(30) DEF InboundTyped

UsedGrows == used' \in Usage /\ used.writes <= used'.writes /\ used.remote <= used'.remote
SyncsTyped ==
    /\ DOMAIN sync' = Workers
    /\ \A w \in Workers : sync'[w] = sync[w] \/ SyncTyped(sync'[w], w, Drafted', Len(issues'))
InboundsTyped ==
    /\ DOMAIN inbound' = Handlers
    /\ \A h \in Handlers :
         inbound'[h] = inbound[h] \/ InboundTyped(inbound'[h], h, Drafted', Len(issues'))

(* What a step must show of what it changes.                               *)
LEMMA TypedStays ==
  ASSUME Typed,
         used' = used \/ UsedGrows,
         issues' = issues \/ (issues' \in Seq(IssueDocs(Drafted')) /\ Len(issues) <= Len(issues')),
         ticket' = ticket \/ ticket' \in Tickets(Drafted', Len(issues')),
         outbox' = outbox \/ RowTyped(outbox'),
         hooks' \subseteq hooks \cup Deliveries(Drafted', Len(issues')),
         agent' = agent \/ agent' \in {"idle", "look", "create", "update"},
         sync' = sync \/ SyncsTyped,
         inbound' = inbound \/ InboundsTyped,
         told' = told \/ told' \in [Comments -> Nat]
  PROVE  Typed'
  <1>0. /\ used' \in Usage /\ used.writes <= used'.writes /\ used.remote <= used'.remote
        /\ used.writes \in Nat /\ used.remote \in Nat /\ used'.writes \in Nat /\ used'.remote \in Nat
    <2>1. used \in Usage
      BY DEF Typed
    <2>2. used' \in Usage
      BY <2>1 DEF UsedGrows
    <2>3. \A u \in Usage : u.writes \in Nat /\ u.remote \in Nat
      BY DEF Usage
    <2>. QED  BY <2>1, <2>2, <2>3 DEF UsedGrows
  <1>01. Drafted \in Nat /\ Drafted' \in Nat /\ Drafted <= Drafted'
    BY <1>0 DEF Drafted
  <1>02. issues' \in Seq(IssueDocs(Drafted')) /\ Len(issues) <= Len(issues')
    <2>1. issues \in Seq(IssueDocs(Drafted)) /\ Len(issues) \in Nat
      BY DEF Typed
    <2>2. IssueDocs(Drafted) \subseteq IssueDocs(Drafted')
      BY <1>01, WiderIssues
    <2>. QED  BY <2>1, <2>2
  <1>03. /\ DOMAIN sync' = Workers
         /\ \A w \in Workers : sync'[w] = sync[w] \/ SyncTyped(sync'[w], w, Drafted', Len(issues'))
    BY DEF SyncsTyped, Typed
  <1>04. /\ DOMAIN inbound' = Handlers
         /\ \A h \in Handlers :
              inbound'[h] = inbound[h] \/ InboundTyped(inbound'[h], h, Drafted', Len(issues'))
    BY DEF InboundsTyped, Typed
  <1>1. PICK k, j, n, m : k = Drafted /\ j = Drafted' /\ n = Len(issues) /\ m = Len(issues')
    OBVIOUS
  <1>2. k \in Nat /\ j \in Nat /\ n \in Nat /\ m \in Nat /\ k <= j /\ n <= m
    <2>1. Len(issues) \in Nat /\ Len(issues') \in Nat
      BY <1>02 DEF Typed
    <2>. QED  BY <1>1, <1>01, <1>02, <2>1
  <1>3. ticket' \in Tickets(j, m) /\ hooks' \subseteq Deliveries(j, m)
    BY <1>1, <1>2, WiderTickets, WiderDeliveries DEF Typed
  <1>4. \A w \in Workers : SyncTyped(sync'[w], w, j, m)
    BY <1>1, <1>2, <1>03, WiderSync DEF Typed
  <1>5. \A h \in Handlers : InboundTyped(inbound'[h], h, j, m)
    BY <1>1, <1>2, <1>04, WiderInbound DEF Typed
  <1>6. RowTyped(outbox')
    BY DEF Typed
  <1>7. agent' \in {"idle", "look", "create", "update"} /\ told' \in [Comments -> Nat]
    BY DEF Typed
  <1>. QED  BY <1>0, <1>02, <1>03, <1>04, <1>1, <1>3, <1>4, <1>5, <1>6, <1>7 DEF Typed

LEMMA InitTyped == Init => Typed
  <1> SUFFICES ASSUME Init PROVE Typed
    OBVIOUS
  <1>1. used \in Usage /\ Drafted = 0
    BY LinearAssumption DEF Init, Usage, Drafted
  <1>2. issues \in Seq(IssueDocs(Drafted)) /\ Len(issues) = 0
    BY DEF Init
  <1>3. ticket \in Tickets(Drafted, Len(issues))
    <2>1. ticket \in Tickets(0, 0)
      BY DEF Init, Tickets
    <2>. QED  BY <1>1, <1>2, <2>1
  <1>4. RowTyped(outbox)
    <2>1. MAX_ATTEMPTS \in Nat /\ MAX_ATTEMPTS # 0
      BY LinearAssumption
    <2>2. outbox = [st |-> "queued", attempts |-> MAX_ATTEMPTS - 1, dirty |-> FALSE]
      BY DEF Init, NewRow
    <2>3. MAX_ATTEMPTS - 1 \in 0..MAX_ATTEMPTS /\ MAX_ATTEMPTS - 1 < MAX_ATTEMPTS
      BY <2>1
    <2>. QED  BY <2>2, <2>3 DEF RowTyped
  <1>5. told \in [Comments -> Nat]
    BY DEF Init
  <1>. QED  BY <1>1, <1>2, <1>3, <1>4, <1>5 DEF Init, Typed, SyncTyped, InboundTyped

LEMMA Counted ==
  ASSUME Typed
  PROVE  /\ used.writes \in Nat /\ used.remote \in Nat /\ used.faults \in Nat
         /\ Drafted \in Nat /\ Len(issues) \in Nat /\ DOMAIN issues = 1..Len(issues)
  <1>1. used \in Usage /\ issues \in Seq(IssueDocs(Drafted))
    BY DEF Typed
  <1>. QED  BY <1>1 DEF Usage, Drafted

LEMMA SpendTyped ==
  ASSUME Typed, NEW k, NEW b, Spend(k, b),
         <<k, b>> \in {<<"writes", MaxWrites>>, <<"remote", MaxRemote>>, <<"faults", MaxFaults>>}
  PROVE  /\ UsedGrows
         /\ Drafted' = IF k = "faults" THEN Drafted ELSE NewTitle
  <1>1. used \in Usage /\ {MaxWrites, MaxRemote, MaxFaults} \subseteq Nat
    BY LinearAssumption DEF Typed
  <1>2. CASE k = "writes" /\ b = MaxWrites
    BY <1>1, <1>2 DEF Spend, UsedGrows, Usage, Drafted, NewTitle
  <1>3. CASE k = "remote" /\ b = MaxRemote
    BY <1>1, <1>3 DEF Spend, UsedGrows, Usage, Drafted, NewTitle
  <1>4. CASE k = "faults" /\ b = MaxFaults
    BY <1>1, <1>4 DEF Spend, UsedGrows, Usage, Drafted, NewTitle
  <1>. QED  BY <1>2, <1>3, <1>4

LEMMA WorkerTyped ==
  ASSUME Typed, NEW w \in Workers, NEW r, sync' = [sync EXCEPT ![w] = r],
         SyncTyped(r, w, Drafted', Len(issues'))
  PROVE  SyncsTyped
  BY DEF Typed, SyncsTyped

LEMMA HandlerTyped ==
  ASSUME Typed, NEW h \in Handlers, NEW r, inbound' = [inbound EXCEPT ![h] = r],
         InboundTyped(r, h, Drafted', Len(issues'))
  PROVE  InboundsTyped
  BY DEF Typed, InboundsTyped

(* The ticket with one field written.                                      *)
LEMMA TicketWrites ==
  ASSUME NEW k \in Nat, NEW n \in Nat, NEW t \in Tickets(k, n)
  PROVE  /\ \A x \in 0..k : [t EXCEPT !.subject = x] \in Tickets(k, n)
         /\ \A x \in SUBSET Messages : [t EXCEPT !.messages = x] \in Tickets(k, n)
         /\ \A x \in (0..k) \cup {NoTitle} : [t EXCEPT !.mirror = x] \in Tickets(k, n)
         /\ \A x \in SUBSET Comments : [t EXCEPT !.seen = x] \in Tickets(k, n)
  BY DEF Tickets

LEMMA AgentTypes ==
  ASSUME Typed, EditSubject \/ AddMessage \/ MarkLook \/ Mark
  PROVE  Typed'
  <1>0. Drafted \in Nat /\ Len(issues) \in Nat /\ ticket \in Tickets(Drafted, Len(issues)) /\ RowTyped(outbox)
    BY Counted DEF Typed
  <1>1. CASE EditSubject
    <2>1. UsedGrows /\ Drafted' = NewTitle /\ NewTitle = Drafted + 1
      BY <1>1, SpendTyped, Counted DEF EditSubject, Drafted, NewTitle
    <2>2. ticket \in Tickets(Drafted', Len(issues))
      BY <1>0, <2>1, WiderTickets
    <2>3. ticket' = [ticket EXCEPT !.subject = NewTitle]
          /\ agent' = "look" /\ UNCHANGED <<outbox, issues, hooks, sync, inbound, told>>
      BY <1>1 DEF EditSubject, Write
    <2>4. ticket' \in Tickets(Drafted', Len(issues'))
      <3>1. Drafted' \in Nat /\ Len(issues') = Len(issues) /\ NewTitle \in 0..Drafted'
        BY <1>0, <2>1, <2>3
      <3>2. [ticket EXCEPT !.subject = NewTitle] \in Tickets(Drafted', Len(issues))
        BY <1>0, <2>2, <3>1, TicketWrites
      <3>. QED  BY <2>3, <3>1, <3>2
    <2>. QED  BY <2>1, <2>3, <2>4, TypedStays
  <1>2. CASE AddMessage
    <2>1. PICK m \in Messages : /\ Spend("writes", MaxWrites)
                                /\ ticket' = [ticket EXCEPT !.messages = @ \cup {m}]
                                /\ agent' = "look" /\ UNCHANGED <<outbox, issues, hooks, sync, inbound, told>>
      BY <1>2 DEF AddMessage, Write
    <2>2. UsedGrows /\ Drafted' = NewTitle /\ NewTitle = Drafted + 1
      BY <2>1, SpendTyped, Counted DEF Drafted, NewTitle
    <2>3. ticket \in Tickets(Drafted', Len(issues)) /\ ticket.messages \in SUBSET Messages
      <3>1. ticket \in Tickets(Drafted', Len(issues))
        BY <1>0, <2>2, WiderTickets
      <3>. QED  BY <3>1 DEF Tickets
    <2>4. ticket' \in Tickets(Drafted', Len(issues'))
      <3>1. Drafted' \in Nat /\ Len(issues') = Len(issues)
        BY <1>0, <2>1, <2>2
      <3>2. [ticket EXCEPT !.messages = ticket.messages \cup {m}] \in Tickets(Drafted', Len(issues))
        BY <1>0, <2>3, <3>1, TicketWrites
      <3>. QED  BY <2>1, <3>1, <3>2
    <2>. QED  BY <2>1, <2>2, <2>4, TypedStays
  <1>3. CASE MarkLook
    <2>1. agent' \in {"create", "update"} /\ UNCHANGED <<ticket, outbox, issues, hooks, sync, inbound, told, used>>
      BY <1>3 DEF MarkLook
    <2>. QED  BY <2>1, TypedStays
  <1>4. CASE Mark
    <2>1. agent' = "idle" /\ UNCHANGED <<ticket, issues, hooks, sync, inbound, told, used>>
      BY <1>4 DEF Mark
    <2>2. outbox' = NewRow \/ outbox' = [outbox EXCEPT !.dirty = outbox.st # "none"]
      BY <1>4 DEF Mark
    <2>3. RowTyped(outbox')
      <3>1. RowTyped(NewRow)
        <4>1. MAX_ATTEMPTS \in Nat /\ 0 < MAX_ATTEMPTS
          BY LinearAssumption
        <4>2. NewRow.st = "queued" /\ NewRow.attempts = 0
              /\ NewRow \in [st : {"none", "queued", "dead"}, attempts : {0}, dirty : BOOLEAN]
          BY DEF NewRow
        <4>. QED  BY <4>1, <4>2 DEF RowTyped
      <3>2. \A b \in BOOLEAN : RowTyped([outbox EXCEPT !.dirty = b])
        BY <1>0 DEF RowTyped
      <3>. QED  BY <2>2, <3>1, <3>2
    <2>. QED  BY <2>1, <2>3, TypedStays
  <1>. QED  BY <1>1, <1>2, <1>3, <1>4

LEMMA StartTypes ==
  ASSUME Typed, NEW w \in Workers, StartSync(w)
  PROVE  Typed'
  <1>0. /\ Drafted \in Nat /\ Len(issues) \in Nat /\ ticket \in Tickets(Drafted, Len(issues))
        /\ RowTyped(outbox)
    BY Counted DEF Typed
  <1>1. UNCHANGED <<ticket, issues, hooks, agent, inbound, told>>
    BY DEF StartSync
  <1>2. used' = used \/ UsedGrows
    BY SpendTyped DEF StartSync
  <1>3. RowTyped(outbox')
    <2>1. outbox' \in {outbox, [outbox EXCEPT !.dirty = FALSE]}
      BY DEF StartSync
    <2>2. \A b \in BOOLEAN : RowTyped([outbox EXCEPT !.dirty = b])
      BY <1>0 DEF RowTyped
    <2>. QED  BY <1>0, <2>1, <2>2
  <1>4. PICK r : /\ sync' = [sync EXCEPT ![w] = r]
                 /\ r = [pc |-> FirstStep, subject |-> ticket.subject, todo |-> Pending,
                         commented |-> ticket.commented, issue |-> ticket.issue, created |-> FALSE,
                         failed |-> FALSE, attempts |-> outbox.attempts]
    BY DEF StartSync, Put
  <1>5. SyncTyped(r, w, Drafted, Len(issues))
    <2>1. /\ FirstStep \in {"issue", "comment", "done"}
          /\ FirstStep = "comment" => ticket.issue # 0
      BY DEF FirstStep, TitleDiffers
    <2>2. /\ ticket.subject \in 0..Drafted /\ ticket.commented \in SUBSET Messages
          /\ ticket.issue \in 0..Len(issues) /\ Pending \in SUBSET Messages
          /\ outbox.attempts \in 0..MAX_ATTEMPTS
      BY <1>0 DEF Tickets, Pending, RowTyped
    <2>3. w = "drain" => outbox.attempts < MAX_ATTEMPTS
      BY <1>0 DEF StartSync, RowTyped
    <2>4. r \in SyncDocs(Drafted, Len(issues))
      BY <1>4, <2>1, <2>2 DEF SyncDocs
    <2>. QED  BY <1>4, <2>1, <2>3, <2>4 DEF SyncTyped
  <1>6. SyncTyped(r, w, Drafted', Len(issues'))
    <2>1. Drafted' \in Nat /\ Drafted <= Drafted'
      <3>1. used \in Usage
        BY DEF Typed
      <3>2. \A u \in Usage : u.writes \in Nat /\ u.remote \in Nat
        BY DEF Usage
      <3>. QED  BY <1>2, <3>1, <3>2 DEF UsedGrows, Drafted
    <2>. QED  BY <1>0, <1>1, <1>5, <2>1, WiderSync
  <1>. QED  BY <1>1, <1>2, <1>3, <1>4, <1>6, WorkerTyped, TypedStays

(* A sync that moves on, that fails, that has its issue, and that sends a   *)
(* message.                                                                *)
LEMMA SyncMoves ==
  ASSUME NEW k \in Nat, NEW n \in Nat, NEW s \in SyncDocs(k, n), NEW w, w = "drain" => s.attempts < MAX_ATTEMPTS,
         NEW pc \in {"done", "fail", "giveup"}, pc = "giveup" => w = "drain"
  PROVE  SyncTyped([s EXCEPT !.pc = pc], w, k, n)
  <1>1. PICK r : r = [s EXCEPT !.pc = pc]
    OBVIOUS
  <1>2. r \in SyncDocs(k, n)
    BY <1>1, ZenonT(60) DEF SyncDocs
  <1>3. r.pc = pc /\ r.attempts = s.attempts
    BY <1>1 DEF SyncDocs
  <1>. QED  BY <1>1, <1>2, <1>3 DEF SyncTyped

LEMMA SyncHalts ==
  ASSUME NEW k \in Nat, NEW n \in Nat, NEW s \in SyncDocs(k, n), NEW w, w = "drain" => s.attempts < MAX_ATTEMPTS,
         NEW pc \in {"fail", "stamp"}, pc = "stamp" => s.issue # 0
  PROVE  SyncTyped([s EXCEPT !.pc = pc, !.failed = TRUE], w, k, n)
  <1>1. PICK r : r = [s EXCEPT !.pc = pc, !.failed = TRUE]
    OBVIOUS
  <1>2. r \in SyncDocs(k, n)
    BY <1>1, ZenonT(60) DEF SyncDocs
  <1>3. r.pc = pc /\ r.attempts = s.attempts /\ r.issue = s.issue /\ r.failed = TRUE
    BY <1>1 DEF SyncDocs
  <1>. QED  BY <1>1, <1>2, <1>3 DEF SyncTyped

LEMMA SyncHasIssue ==
  ASSUME NEW k \in Nat, NEW n \in Nat, NEW s \in SyncDocs(k, n), NEW w, w = "drain" => s.attempts < MAX_ATTEMPTS,
         NEW i \in 1..n, NEW b \in BOOLEAN
  PROVE  SyncTyped([s EXCEPT !.pc = "comment", !.issue = i, !.created = b], w, k, n)
  <1>0. i \in 0..n /\ i # 0
    OBVIOUS
  <1>1. PICK r : r = [s EXCEPT !.pc = "comment", !.issue = i, !.created = b]
    OBVIOUS
  <1>2. r \in SyncDocs(k, n)
    BY <1>0, <1>1, ZenonT(60) DEF SyncDocs
  <1>3. r.pc = "comment" /\ r.attempts = s.attempts /\ r.issue = i
    BY <1>1 DEF SyncDocs
  <1>. QED  BY <1>0, <1>1, <1>2, <1>3 DEF SyncTyped

LEMMA SyncSends ==
  ASSUME NEW k \in Nat, NEW n \in Nat, NEW s \in SyncDocs(k, n), NEW w, w = "drain" => s.attempts < MAX_ATTEMPTS,
         s.pc = "comment", s.issue # 0, NEW x \in SUBSET Messages, NEW y \in SUBSET Messages
  PROVE  SyncTyped([s EXCEPT !.todo = x, !.commented = y], w, k, n)
  <1>1. PICK r : r = [s EXCEPT !.todo = x, !.commented = y]
    OBVIOUS
  <1>2. r \in SyncDocs(k, n)
    BY <1>1, ZenonT(60) DEF SyncDocs
  <1>3. r.pc = "comment" /\ r.attempts = s.attempts /\ r.issue = s.issue
    BY <1>1 DEF SyncDocs
  <1>. QED  BY <1>1, <1>2, <1>3 DEF SyncTyped

LEMMA Syncing ==
  ASSUME Typed, NEW w \in Workers, sync[w].pc \in {"issue", "comment", "stamp", "done", "fail", "giveup"}
  PROVE  /\ sync[w] \in SyncDocs(Drafted, Len(issues))
         /\ sync[w].pc \in {"comment", "stamp"} => sync[w].issue # 0
         /\ sync[w].pc = "stamp" => sync[w].failed = TRUE
         /\ w = "drain" => sync[w].attempts < MAX_ATTEMPTS
  <1>1. SyncTyped(sync[w], w, Drafted, Len(issues))
    BY DEF Typed
  <1>2. sync[w] # NoSync
    BY DEF NoSync
  <1>3. sync[w] \notin [pc : {"again", "put"}, copy : Tickets(Drafted, Len(issues))]
    OBVIOUS
  <1>. QED  BY <1>1, <1>2, <1>3 DEF SyncTyped

LEMMA IssueWrites ==
  ASSUME NEW k \in Nat
  PROVE  /\ \A t \in 0..k : [title |-> t, posted |-> [m \in Messages |-> 0], notes |-> {}, fresh |-> TRUE] \in IssueDocs(k)
         /\ \A d \in IssueDocs(k) :
              /\ \A t \in 0..k : [d EXCEPT !.title = t, !.fresh = TRUE] \in IssueDocs(k)
              /\ \A m \in Messages : [d EXCEPT !.posted[m] = @ + 1, !.fresh = TRUE] \in IssueDocs(k)
              /\ \A c \in Notes : [d EXCEPT !.notes = @ \cup {c}, !.fresh = TRUE] \in IssueDocs(k)
              /\ \A b \in BOOLEAN : [d EXCEPT !.fresh = b] \in IssueDocs(k)
  <1> DEFINE Docs == [title : 0..k, posted : [Messages -> Nat], notes : SUBSET Notes, fresh : BOOLEAN]
             On(p) == {m \in Messages : p[m] > 0}
  <1>0. \A d : d \in IssueDocs(k) <=> d \in Docs /\ IsFiniteSet(d.notes) /\ IsFiniteSet(On(d.posted))
    BY DEF IssueDocs
  <1>1. ASSUME NEW t \in 0..k
        PROVE  [title |-> t, posted |-> [m \in Messages |-> 0], notes |-> {}, fresh |-> TRUE] \in IssueDocs(k)
    <2>1. PICK d : d = [title |-> t, posted |-> [m \in Messages |-> 0], notes |-> {}, fresh |-> TRUE]
      OBVIOUS
    <2>2. d \in Docs /\ d.notes = {} /\ On(d.posted) = {}
      BY <2>1
    <2>3. d \in IssueDocs(k)
      <3> HIDE DEF Docs, On
      <3>. QED  BY <1>0, <2>2, FS_EmptySet
    <2>. QED  BY <2>1, <2>3
  <1>2. ASSUME NEW d \in IssueDocs(k), NEW e \in Docs, IsFiniteSet(e.notes), e.posted = d.posted
        PROVE  e \in IssueDocs(k)
    <2> HIDE DEF Docs, On
    <2>. QED  BY <1>0, <1>2
  <1>3. ASSUME NEW d \in IssueDocs(k), NEW t \in 0..k
        PROVE  [d EXCEPT !.title = t, !.fresh = TRUE] \in IssueDocs(k)
    <2>1. PICK e : e = [d EXCEPT !.title = t, !.fresh = TRUE]
      OBVIOUS
    <2>2. e \in Docs /\ e.notes = d.notes /\ e.posted = d.posted
      <3>1. d \in Docs
        BY <1>0
      <3>. QED  BY <2>1, <3>1
    <2> HIDE DEF Docs, On
    <2>. QED  BY <1>0, <1>2, <2>1, <2>2
  <1>4. ASSUME NEW d \in IssueDocs(k), NEW b \in BOOLEAN
        PROVE  [d EXCEPT !.fresh = b] \in IssueDocs(k)
    <2>1. PICK e : e = [d EXCEPT !.fresh = b]
      OBVIOUS
    <2>2. e \in Docs /\ e.notes = d.notes /\ e.posted = d.posted
      <3>1. d \in Docs
        BY <1>0
      <3>. QED  BY <2>1, <3>1
    <2> HIDE DEF Docs, On
    <2>. QED  BY <1>0, <1>2, <2>1, <2>2
  <1>5. ASSUME NEW d \in IssueDocs(k), NEW c \in Notes
        PROVE  [d EXCEPT !.notes = @ \cup {c}, !.fresh = TRUE] \in IssueDocs(k)
    <2>1. PICK e : e = [d EXCEPT !.notes = @ \cup {c}, !.fresh = TRUE]
      OBVIOUS
    <2>2. e \in Docs /\ e.notes = d.notes \cup {c} /\ e.posted = d.posted
      <3>1. d \in Docs
        BY <1>0
      <3>. QED  BY <2>1, <3>1
    <2>3. IsFiniteSet(e.notes)
      <3> HIDE DEF Docs, On
      <3>. QED  BY <1>0, <2>2, FS_AddElement
    <2> HIDE DEF Docs, On
    <2>. QED  BY <1>2, <2>1, <2>2, <2>3
  <1>6. ASSUME NEW d \in IssueDocs(k), NEW m \in Messages
        PROVE  [d EXCEPT !.posted[m] = @ + 1, !.fresh = TRUE] \in IssueDocs(k)
    <2>1. PICK e : e = [d EXCEPT !.posted[m] = @ + 1, !.fresh = TRUE]
      OBVIOUS
    <2>2. e \in Docs /\ e.notes = d.notes /\ e.posted = [d.posted EXCEPT ![m] = @ + 1] /\ d.posted \in [Messages -> Nat]
      <3>1. d \in Docs
        BY <1>0
      <3>2. PICK p : p = [d.posted EXCEPT ![m] = @ + 1]
        OBVIOUS
      <3>3. e = [d EXCEPT !.posted = p, !.fresh = TRUE]
        BY <2>1, <3>1, <3>2
      <3>4. p \in [Messages -> Nat] /\ d.posted \in [Messages -> Nat]
        BY <3>1, <3>2
      <3>. QED  BY <3>1, <3>2, <3>3, <3>4
    <2>3. On(e.posted) \subseteq On(d.posted) \cup {m}
      BY <2>2
    <2>4. IsFiniteSet(On(d.posted) \cup {m})
      <3> HIDE DEF On
      <3>. QED  BY <1>0, FS_AddElement
    <2>5. IsFiniteSet(On(e.posted))
      <3> HIDE DEF On
      <3>. QED  BY <2>3, <2>4, FS_Subset
    <2> HIDE DEF Docs, On
    <2>. QED  BY <1>0, <2>1, <2>2, <2>5
  <1> HIDE DEF Docs, On
  <1>. QED  BY <1>1, <1>3, <1>4, <1>5, <1>6

(* One issue written.                                                      *)
LEMMA OneIssueWrites ==
  ASSUME NEW k, NEW q \in Seq(IssueDocs(k)), NEW i \in DOMAIN q, NEW d \in IssueDocs(k)
  PROVE  [q EXCEPT ![i] = d] \in Seq(IssueDocs(k)) /\ Len([q EXCEPT ![i] = d]) = Len(q)
  OBVIOUS

LEMMA SendIssueTypes ==
  ASSUME Typed, NEW w \in Workers, SendIssue(w)
  PROVE  Typed'
  <1>1. PICK s, k, n : s = sync[w] /\ k = Drafted /\ n = Len(issues)
    OBVIOUS
  <1>2. s.pc = "issue" /\ s \in SyncDocs(k, n) /\ (w = "drain" => s.attempts < MAX_ATTEMPTS)
    BY <1>1, Syncing DEF SendIssue
  <1>3. k \in Nat /\ n \in Nat /\ DOMAIN issues = 1..n /\ issues \in Seq(IssueDocs(k))
        /\ s.subject \in 0..k /\ s.issue \in 0..n
    BY <1>1, <1>2, Counted DEF Typed, SyncDocs
  <1>4. PICK i : i = IF s.issue = 0 THEN n + 1 ELSE s.issue
    OBVIOUS
  <1>5. UNCHANGED <<ticket, outbox, agent, inbound, told>> /\ hooks' = hooks \cup {Issue(i, s.subject)}
    BY <1>1, <1>4 DEF SendIssue
  <1>6. (used' = used \/ UsedGrows) /\ Drafted' = k
    <2>1. used' = used \/ Spend("faults", MaxFaults)
      BY DEF SendIssue
    <2>. QED  BY <1>1, <2>1, SpendTyped DEF Drafted
  <1>7. issues' \in Seq(IssueDocs(k)) /\ Len(issues') >= n /\ Len(issues') \in Nat /\ i \in 1..Len(issues')
    <2>1. CASE s.issue = 0
      <3>1. PICK d \in IssueDocs(k) : issues' = Append(issues, d)
        BY <1>1, <1>3, <2>1, IssueWrites DEF SendIssue, Created
      <3>. QED  BY <1>1, <1>3, <1>4, <2>1, <3>1
    <2>2. CASE s.issue # 0
      <3>1. i \in DOMAIN issues /\ issues[i] \in IssueDocs(k)
        BY <1>3, <1>4, <2>2
      <3>2. PICK d \in IssueDocs(k) : d = [issues[i] EXCEPT !.title = s.subject, !.fresh = TRUE]
        BY <1>3, <3>1, IssueWrites
      <3>3. issues' = [issues EXCEPT ![i] = d]
        BY <1>1, <1>4, <2>2, <3>2 DEF SendIssue, Renamed
      <3>. QED  BY <1>1, <1>3, <3>1, <3>3, OneIssueWrites
    <2>. QED  BY <2>1, <2>2
  <1>8. Issue(i, s.subject) \in Deliveries(Drafted', Len(issues'))
    BY <1>3, <1>6, <1>7 DEF Issue, Deliveries
  <1>9. PICK r : sync' = [sync EXCEPT ![w] = r] /\ SyncTyped(r, w, Drafted', Len(issues'))
    <2>1. s \in SyncDocs(k, Len(issues'))
      <3>1. 0..n \subseteq 0..Len(issues')
        BY <1>3, <1>7
      <3>. QED  BY <1>2, <3>1, ZenonT(30) DEF SyncDocs
    <2>2. PICK b \in BOOLEAN : b = (s.issue = 0)
      OBVIOUS
    <2>3. PICK r : /\ sync' = [sync EXCEPT ![w] = r]
                   /\ \/ r = [s EXCEPT !.pc = "comment", !.issue = i, !.created = b]
                      \/ r = [s EXCEPT !.pc = "fail"]
      BY <1>1, <1>4, <2>2, Zenon DEF SendIssue, Put, Goto
    <2>4. SyncTyped(r, w, k, Len(issues'))
      <3>1. CASE r = [s EXCEPT !.pc = "comment", !.issue = i, !.created = b]
        BY <1>2, <1>3, <1>7, <2>1, <2>2, <3>1, SyncHasIssue
      <3>2. CASE r = [s EXCEPT !.pc = "fail"]
        BY <1>2, <1>3, <1>7, <2>1, <3>2, SyncMoves
      <3>. QED  BY <2>3, <3>1, <3>2
    <2>. QED  BY <1>6, <2>3, <2>4
  <1>10. SyncsTyped
    BY <1>9, WorkerTyped
  <1>. QED  BY <1>1, <1>5, <1>6, <1>7, <1>8, <1>10, TypedStays

LEMMA SendCommentTypes ==
  ASSUME Typed, NEW w \in Workers, SendComment(w)
  PROVE  Typed'
  <1>1. PICK s, k, n : s = sync[w] /\ k = Drafted /\ n = Len(issues)
    OBVIOUS
  <1>2. s.pc = "comment" /\ s \in SyncDocs(k, n) /\ s.issue # 0 /\ (w = "drain" => s.attempts < MAX_ATTEMPTS)
    BY <1>1, Syncing DEF SendComment
  <1>3. k \in Nat /\ n \in Nat /\ DOMAIN issues = 1..n /\ issues \in Seq(IssueDocs(k))
        /\ s.todo \in SUBSET Messages /\ s.commented \in SUBSET Messages /\ s.issue \in 1..n
    BY <1>1, <1>2, Counted DEF Typed, SyncDocs
  <1>4. PICK m \in s.todo :
          /\ issues' = [issues EXCEPT ![s.issue].posted[m] = @ + 1, ![s.issue].fresh = TRUE]
          /\ hooks' = hooks \cup {Comment(s.issue, m)}
          /\ \/ sync' = [sync EXCEPT ![w] = [s EXCEPT !.todo = @ \ {m}, !.commented = @ \cup {m}]]
                /\ used' = used
             \/ sync' = [sync EXCEPT ![w] = [s EXCEPT !.pc = "stamp", !.failed = TRUE]]
                /\ Spend("faults", MaxFaults)
    BY <1>1 DEF SendComment, Put
  <1>5. UNCHANGED <<ticket, outbox, agent, inbound, told>>
    BY DEF SendComment
  <1>6. (used' = used \/ UsedGrows) /\ Drafted' = k
    BY <1>1, <1>4, SpendTyped DEF Drafted
  <1>7. issues' \in Seq(IssueDocs(k)) /\ Len(issues') = n
    <2>0. s.issue \in DOMAIN issues /\ m \in Messages
      BY <1>3
    <2>1. issues[s.issue] \in IssueDocs(k) /\ s.issue \in DOMAIN issues /\ m \in Messages
      BY <1>3, <2>0
    <2>2. PICK d \in IssueDocs(k) : d = [issues[s.issue] EXCEPT !.posted[m] = @ + 1, !.fresh = TRUE]
      BY <1>3, <2>1, IssueWrites
    <2>3. issues' = [issues EXCEPT ![s.issue] = d]
      BY <1>4, <2>1, <2>2
    <2>. QED  BY <1>1, <1>3, <2>1, <2>3, OneIssueWrites
  <1>8. Comment(s.issue, m) \in Deliveries(Drafted', Len(issues'))
    BY <1>3, <1>6, <1>7 DEF Comment, Deliveries, Comments
  <1>9. PICK r : sync' = [sync EXCEPT ![w] = r] /\ SyncTyped(r, w, Drafted', Len(issues'))
    <2>1. PICK x, y : x = s.todo \ {m} /\ y = s.commented \cup {m} /\ x \in SUBSET Messages /\ y \in SUBSET Messages
      <3>1. m \in Messages
        BY <1>3
      <3>2. s.todo \ {m} \in SUBSET Messages /\ s.commented \cup {m} \in SUBSET Messages
        BY <1>3, <3>1
      <3>. QED  BY <3>2
    <2>2. PICK r : /\ sync' = [sync EXCEPT ![w] = r]
                   /\ \/ r = [s EXCEPT !.todo = x, !.commented = y]
                      \/ r = [s EXCEPT !.pc = "stamp", !.failed = TRUE]
      BY <1>4, <2>1
    <2>3. s.issue # 0
      BY <1>3
    <2>4. SyncTyped(r, w, k, n)
      <3>1. CASE r = [s EXCEPT !.todo = x, !.commented = y]
        BY <1>2, <1>3, <2>1, <2>3, <3>1, SyncSends
      <3>2. CASE r = [s EXCEPT !.pc = "stamp", !.failed = TRUE]
        BY <1>2, <1>3, <2>3, <3>2, SyncHalts
      <3>. QED  BY <2>2, <3>1, <3>2
    <2>. QED  BY <1>6, <1>7, <2>2, <2>4
  <1>10. SyncsTyped
    BY <1>9, WorkerTyped
  <1>. QED  BY <1>1, <1>5, <1>6, <1>7, <1>4, <1>8, <1>10, TypedStays

LEMMA CallFailsTypes ==
  ASSUME Typed, NEW w \in Workers, CallFails(w)
  PROVE  Typed'
  <1>1. PICK s, k, n : s = sync[w] /\ k = Drafted /\ n = Len(issues)
    OBVIOUS
  <1>2. s.pc \in {"issue", "comment"} /\ s \in SyncDocs(k, n) /\ (s.pc = "comment" => s.issue # 0)
        /\ (w = "drain" => s.attempts < MAX_ATTEMPTS)
    BY <1>1, Syncing DEF CallFails
  <1>3. k \in Nat /\ n \in Nat
    BY <1>1, Counted
  <1>4. UNCHANGED <<ticket, outbox, issues, hooks, agent, inbound, told>> /\ UsedGrows /\ Drafted' = k
    BY <1>1, SpendTyped DEF CallFails
  <1>5. PICK pc \in {"fail", "stamp"} :
          sync' = [sync EXCEPT ![w] = [s EXCEPT !.pc = pc, !.failed = TRUE]] /\ (pc = "stamp" => s.issue # 0)
    BY <1>1, <1>2 DEF CallFails, Put
  <1>6. PICK r : r = [s EXCEPT !.pc = pc, !.failed = TRUE]
    OBVIOUS
  <1>7. SyncTyped(r, w, k, n)
    BY <1>2, <1>3, <1>5, <1>6, SyncHalts
  <1>8. SyncsTyped
    BY <1>1, <1>4, <1>5, <1>6, <1>7, WorkerTyped
  <1>. QED  BY <1>4, <1>8, TypedStays

LEMMA StampTypes ==
  ASSUME Typed, NEW w \in Workers, Stamp(w)
  PROVE  Typed'
  <1>1. PICK s, k, n : s = sync[w] /\ k = Drafted /\ n = Len(issues)
    OBVIOUS
  <1>2. s.pc \in {"comment", "stamp"} /\ s \in SyncDocs(k, n) /\ (w = "drain" => s.attempts < MAX_ATTEMPTS)
    BY <1>1, Syncing DEF Stamp
  <1>3. k \in Nat /\ n \in Nat /\ ticket \in Tickets(k, n)
    BY <1>1, Counted DEF Typed
  <1>4. UNCHANGED <<outbox, issues, hooks, agent, inbound, told, used>>
        /\ ticket' = [ticket EXCEPT !.issue = s.issue, !.mirror = s.subject, !.commented = s.commented]
    BY <1>1 DEF Stamp
  <1>5. ticket' \in Tickets(k, n)
    <2>1. s.issue \in 0..n /\ s.subject \in 0..k /\ s.commented \in SUBSET Messages
      BY <1>2 DEF SyncDocs
    <2>. QED  BY <1>3, <1>4, <2>1 DEF Tickets
  <1>6. PICK pc \in {"fail", "done"} : sync' = [sync EXCEPT ![w] = [s EXCEPT !.pc = pc]]
    BY <1>1 DEF Stamp, Goto
  <1>7. PICK r : r = [s EXCEPT !.pc = pc]
    OBVIOUS
  <1>8. SyncTyped(r, w, k, n)
    BY <1>2, <1>3, <1>6, <1>7, SyncMoves
  <1>9. Drafted' = k /\ Len(issues') = n
    BY <1>1, <1>4 DEF Drafted
  <1>10. SyncsTyped
    BY <1>6, <1>7, <1>8, <1>9, WorkerTyped
  <1>. QED  BY <1>4, <1>5, <1>9, <1>10, TypedStays

LEMMA FinishTypes ==
  ASSUME Typed, NEW w \in Workers, Finish(w)
  PROVE  Typed'
  <1>1. sync' = [sync EXCEPT ![w] = NoSync] /\ UNCHANGED <<ticket, issues, hooks, agent, inbound, told, used>>
        /\ outbox' \in {outbox, NoRow}
    BY DEF Finish, Put
  <1>2. RowTyped(NoRow)
    <2>1. MAX_ATTEMPTS \in Nat
      BY LinearAssumption
    <2>. QED  BY <2>1 DEF RowTyped, NoRow
  <1>3. SyncsTyped
    BY <1>1, WorkerTyped DEF SyncTyped
  <1>. QED  BY <1>1, <1>2, <1>3, TypedStays

LEMMA RetryTypes ==
  ASSUME Typed, NEW w \in Workers, Retry(w)
  PROVE  Typed'
  <1>1. PICK s, k, n : s = sync[w] /\ k = Drafted /\ n = Len(issues)
    OBVIOUS
  <1>2. s.pc = "fail" /\ s \in SyncDocs(k, n) /\ (w = "drain" => s.attempts < MAX_ATTEMPTS)
    BY <1>1, Syncing DEF Retry
  <1>3. k \in Nat /\ n \in Nat /\ s.attempts \in Nat /\ MAX_ATTEMPTS \in Nat
    BY <1>1, <1>2, Counted, LinearAssumption DEF SyncDocs
  <1>4. UNCHANGED <<ticket, issues, hooks, agent, inbound, told, used>> /\ Drafted' = k /\ Len(issues') = n
    BY <1>1 DEF Retry, Drafted
  <1>5. outbox' = outbox \/ RowTyped(outbox')
    <2>1. CASE w # "drain"
      BY <2>1 DEF Retry
    <2>2. CASE w = "drain"
      <3>1. PICK a, st : a = s.attempts + 1 /\ st = IF a >= MAX_ATTEMPTS THEN "dead" ELSE "queued"
        OBVIOUS
      <3>2. outbox' = [outbox EXCEPT !.st = st, !.attempts = a]
        BY <1>1, <2>2, <3>1 DEF Retry, LastAttempt
      <3>3. a \in 0..MAX_ATTEMPTS /\ st \in {"dead", "queued"} /\ (st = "queued" => a < MAX_ATTEMPTS)
        BY <1>2, <1>3, <2>2, <3>1
      <3>4. outbox \in [st : {"none", "queued", "dead"}, attempts : 0..MAX_ATTEMPTS, dirty : BOOLEAN]
        BY DEF Typed, RowTyped
      <3>. QED  BY <3>2, <3>3, <3>4 DEF RowTyped
    <2>. QED  BY <2>1, <2>2
  <1>6. PICK r : /\ sync' = [sync EXCEPT ![w] = r]
                 /\ r = NoSync \/ (w = "drain" /\ r = [s EXCEPT !.pc = "giveup"])
    BY <1>1 DEF Retry, Put, Goto
  <1>7. SyncTyped(r, w, k, n)
    <2>1. CASE r = NoSync
      BY <2>1 DEF SyncTyped
    <2>2. CASE w = "drain" /\ r = [s EXCEPT !.pc = "giveup"]
      BY <1>2, <1>3, <2>2, SyncMoves
    <2>. QED  BY <1>6, <2>1, <2>2
  <1>8. SyncsTyped
    BY <1>4, <1>6, <1>7, WorkerTyped
  <1>. QED  BY <1>4, <1>5, <1>8, TypedStays

LEMMA GiveUpTypes ==
  ASSUME Typed, GiveUp
  PROVE  Typed'
  <1>1. PICK s, k, n : s = sync["drain"] /\ k = Drafted /\ n = Len(issues)
    OBVIOUS
  <1>2. k \in Nat /\ n \in Nat /\ ticket \in Tickets(k, n) /\ "drain" \in Workers
    BY <1>1, Counted DEF Typed, Workers
  <1>3. UNCHANGED <<outbox, issues, hooks, agent, inbound, told, used>> /\ Drafted' = k /\ Len(issues') = n
    BY <1>1 DEF GiveUp, Drafted
  <1>4. s.pc \in {"again", "put"} => s.copy \in Tickets(k, n)
    <2>1. SyncTyped(s, "drain", k, n)
      BY <1>1, <1>2 DEF Typed
    <2>. QED  BY <2>1 DEF SyncTyped, NoSync, SyncDocs
  <1>5. ticket' \in Tickets(k, n)
    BY <1>1, <1>2, <1>4 DEF GiveUp
  <1>6. PICK r : sync' = [sync EXCEPT !["drain"] = r] /\ SyncTyped(r, "drain", k, n)
    <2>1. CASE s.pc = "giveup"
      <3>1. PICK r : r = [pc |-> "again", copy |-> ticket]
        OBVIOUS
      <3>2. SyncTyped(r, "drain", k, n)
        BY <1>2, <3>1 DEF SyncTyped
      <3>. QED  BY <1>1, <2>1, <3>1, <3>2 DEF GiveUp, Put
    <2>2. CASE s.pc = "again"
      <3>1. PICK own : own = [ticket EXCEPT !.issue = s.copy.issue, !.mirror = s.copy.mirror,
                                        !.commented = s.copy.commented, !.seen = s.copy.seen]
        OBVIOUS
      <3>2. own \in Tickets(k, n)
        <4>1. s.copy \in Tickets(k, n)
          BY <1>4, <2>2
        <4>. QED  BY <1>2, <3>1, <4>1 DEF Tickets
      <3>3. PICK r : r = [pc |-> "put", copy |-> own]
        OBVIOUS
      <3>4. SyncTyped(r, "drain", k, n)
        BY <3>2, <3>3 DEF SyncTyped
      <3>. QED  BY <1>1, <2>2, <3>1, <3>3, <3>4 DEF GiveUp, Put
    <2>3. CASE s.pc = "put"
      BY <1>1, <2>3 DEF GiveUp, Put, SyncTyped
    <2>. QED  BY <1>1, <2>1, <2>2, <2>3 DEF GiveUp
  <1>7. SyncsTyped
    BY <1>2, <1>3, <1>6, WorkerTyped
  <1>. QED  BY <1>3, <1>5, <1>7, TypedStays

-----------------------------------------------------------------------------
(* What the reconciliation reads.                                          *)
AllOf(S) == FoldSet(LAMBDA i, q : q \o DeliveriesOf(i), <<>>, S)

LEMMA NatMin == ASSUME NEW T \in SUBSET Nat, T # {} PROVE \E x \in T : \A y \in T : x <= y
  <1> DEFINE R == OpToRel(<, Nat)
  <1>1. IsWellFoundedOn(R, Nat)
    BY NatLessThanWellFounded
  <1>2. \A a, b \in Nat : a < b => <<a, b>> \in R
    BY DEF OpToRel
  <1> HIDE DEF R
  <1>3. PICK x \in T : \A y \in T : ~ (<<y, x>> \in R)
    BY <1>1, WFMin
  <1>4. \A y \in T : ~ (y < x)
    BY <1>2, <1>3
  <1>. QED  BY <1>4

One(s) == CHOOSE x \in s : TRUE
Read(f, s) == IF s = {} THEN <<>> ELSE f[s \ {One(s)}] \o DeliveriesOf(One(s))
Folded(f, T) == f = [s \in T |-> Read(f, s)]

LEMMA AllDef == ASSUME NEW S PROVE AllOf(S) = (CHOOSE f : Folded(f, SUBSET S))[S]
  BY DEF AllOf, FoldSet, MapThenFoldSet, Folded, Read, One

LEMMA FoldedIs == ASSUME NEW S, IsFiniteSet(S) PROVE \E f : Folded(f, SUBSET S)
  <1> DEFINE Upto(n) == {s \in SUBSET S : Cardinality(s) <= n}
             Bad == {n \in Nat : \A f : ~Folded(f, Upto(n))}
  <1>0. \A s \in SUBSET S : /\ Cardinality(s) \in Nat /\ Cardinality(s) <= Cardinality(S)
                            /\ s # {} => One(s) \in s /\ Cardinality(s \ {One(s)}) = Cardinality(s) - 1
    <2> TAKE s \in SUBSET S
    <2>1. IsFiniteSet(s)
      BY FS_Subset
    <2>2. s # {} => One(s) \in s
      BY DEF One
    <2>. QED  BY <2>1, <2>2, FS_Subset, FS_CardinalityType, FS_RemoveElement
  <1>1. Bad = {}
    <2> SUFFICES ASSUME Bad # {} PROVE FALSE
      OBVIOUS
    <2>1. PICK m \in Bad : \A k \in Bad : m <= k
      <3> Bad \in SUBSET Nat
        OBVIOUS
      <3> HIDE DEF Bad
      <3>. QED  BY NatMin
    <2>2. m # 0
      <3>1. \A s \in Upto(0) : s = {}
        <4> SUFFICES ASSUME NEW s \in SUBSET S, Cardinality(s) <= 0 PROVE s = {}
          OBVIOUS
        <4>1. IsFiniteSet(s)
          BY FS_Subset
        <4>2. Cardinality(s) \in Nat
          BY <1>0
        <4>3. Cardinality(s) = 0
          BY <4>2
        <4>. QED  BY <4>1, <4>3, FS_EmptySet
      <3>2. \A f, s : s = {} => Read(f, s) = <<>>
        BY DEF Read
      <3> HIDE DEF Upto
      <3>3. Folded([s \in Upto(0) |-> <<>>], Upto(0))
        BY <3>1, <3>2 DEF Folded
      <3>. QED  BY <3>3
    <2>3. m \in Nat /\ m - 1 \in Nat /\ m - 1 \notin Bad
      <3>1. m \in Nat
        BY <2>1
      <3> HIDE DEF Bad
      <3>. QED  BY <3>1, <2>1, <2>2
    <2>4. PICK f : Folded(f, Upto(m - 1))
      BY <2>3
    <2>5. PICK g : g = [s \in Upto(m) |-> Read(f, s)]
      OBVIOUS
    <2>6. Upto(m - 1) \subseteq Upto(m)
      <3>1. \A s \in Upto(m - 1) : s \in SUBSET S /\ Cardinality(s) \in Nat /\ Cardinality(s) <= m - 1
        BY <1>0
      <3>2. \A s \in Upto(m - 1) : Cardinality(s) <= m
        BY <2>3, <3>1
      <3>. QED  BY <3>1, <3>2
    <2>7. \A s \in Upto(m) : s # {} => s \ {One(s)} \in Upto(m - 1)
      <3> TAKE s \in Upto(m)
      <3>1. s # {} => Cardinality(s) \in Nat /\ Cardinality(s) <= m /\ Cardinality(s \ {One(s)}) = Cardinality(s) - 1
        BY <1>0
      <3>2. s # {} => Cardinality(s \ {One(s)}) <= m - 1
        BY <2>3, <3>1
      <3>. QED  BY <3>2
    <2> HIDE DEF Upto
    <2>8. \A s \in Upto(m - 1) : g[s] = f[s]
      BY <2>4, <2>5, <2>6 DEF Folded
    <2>9. \A s \in Upto(m) : Read(f, s) = Read(g, s)
      BY <2>7, <2>8 DEF Read
    <2>10. Folded(g, Upto(m))
      BY <2>5, <2>9 DEF Folded
    <2>. QED  BY <2>1, <2>10
  <1>2. Cardinality(S) \notin Bad /\ Upto(Cardinality(S)) = SUBSET S
    BY <1>0, <1>1
  <1>. QED  BY <1>0, <1>2

LEMMA AllReads ==
  ASSUME NEW S, IsFiniteSet(S)
  PROVE  \E f : AllOf(S) = f[S] /\ \A s \in SUBSET S : f[s] = Read(f, s)
  <1>1. PICK f : f = (CHOOSE g : Folded(g, SUBSET S))
    OBVIOUS
  <1>2. Folded(f, SUBSET S)
    BY <1>1, FoldedIs
  <1>. QED  BY <1>1, <1>2, AllDef DEF Folded
LEMMA SetAsSeq ==
  ASSUME NEW S, IsFiniteSet(S)
  PROVE  SetToSeq(S) \in Seq(S) /\ \A x \in S : \E k \in DOMAIN SetToSeq(S) : SetToSeq(S)[k] = x
  <1>1. PICK n \in Nat : n = Cardinality(S) /\ ExistsBijection(1..n, S)
    BY FS_CardinalityType
  <1>2. \E f \in [1..n -> S] : IsInjective(f)
    BY <1>1 DEF ExistsBijection, Bijection, Injection
  <1>3. PICK f : f = SetToSeq(S)
    OBVIOUS
  <1>4. f \in [1..n -> S] /\ IsInjective(f)
    BY <1>1, <1>2, <1>3 DEF SetToSeq
  <1>5. f \in Injection(1..n, S)
    BY <1>4 DEF Injection
  <1>6. Cardinality(1..n) = n
    BY FS_Interval
  <1>7. f \in Surjection(1..n, S)
    BY <1>1, <1>5, <1>6, FS_Injection
  <1>8. f \in Seq(S) /\ DOMAIN f = 1..n
    BY <1>4
  <1>. QED  BY <1>3, <1>7, <1>8 DEF Surjection

LEMMA ImageFinite ==
  ASSUME NEW i, NEW S, IsFiniteSet(S)
  PROVE  IsFiniteSet({Comment(i, c) : c \in S})
  <1> DEFINE T == {Comment(i, c) : c \in S}
  <1>1. PICK f : f = [c \in S |-> Comment(i, c)]
    OBVIOUS
  <1>2. f \in [S -> T] /\ \A t \in T : \E c \in S : f[c] = t
    BY <1>1
  <1> HIDE DEF T
  <1>3. f \in Surjection(S, T)
    BY <1>2 DEF Surjection
  <1>4. IsFiniteSet(T)
    BY <1>3, FS_Surjection
  <1>. QED  BY <1>4 DEF T

LEMMA OthersOk ==
  ASSUME NEW S, NEW q \in Seq(S)
  PROVE  OtherIssues(q) \in Seq(S)
  <1> DEFINE I == {i \in 1..Len(q) : q[i].issue # Head(q).issue}
             n == IF I # {} THEN Min(I) ELSE 0
  <1>1. OtherIssues(q) = IF n = 0 THEN <<>> ELSE SubSeq(q, n, Len(q))
    BY DEF OtherIssues, SelectInSeq
  <1>2. I # {} => n \in 1..Len(q)
    <2>1. I \in SUBSET Nat
      OBVIOUS
    <2> HIDE DEF I
    <2>2. I # {} => Min(I) \in I
      BY <2>1, NatMin DEF Min
    <2>3. I \in SUBSET (1..Len(q))
      BY DEF I
    <2>. QED  BY <2>2, <2>3
  <1> HIDE DEF n, I
  <1>3. n = 0 \/ n \in 1..Len(q)
    BY <1>2 DEF n
  <1>4. n \in 1..Len(q) => SubSeq(q, n, Len(q)) \in Seq(S)
    BY SubSeqProperties
  <1>. QED  BY <1>1, <1>3, <1>4

LEMMA IssueReads ==
  ASSUME Typed, NEW i \in DOMAIN issues
  PROVE  /\ DeliveriesOf(i) \in Queues(Drafted, Len(issues))
         /\ Head(DeliveriesOf(i)) = Issue(i, issues[i].title)
         /\ \A c \in issues[i].notes : \E k \in DOMAIN DeliveriesOf(i) : DeliveriesOf(i)[k] = Comment(i, c)
  <1>1. PICK k, n : k = Drafted /\ n = Len(issues)
    OBVIOUS
  <1>2. k \in Nat /\ n \in Nat /\ i \in 1..n /\ issues[i] \in IssueDocs(k)
    BY <1>1, Counted DEF Typed
  <1>3. PICK cs : cs = issues[i].notes \cup {m \in Messages : issues[i].posted[m] > 0}
    OBVIOUS
  <1>4. IsFiniteSet(cs) /\ cs \subseteq Comments
    <2>1. /\ IsFiniteSet(issues[i].notes) /\ IsFiniteSet({m \in Messages : issues[i].posted[m] > 0})
          /\ issues[i].notes \subseteq Notes
      BY <1>2, ZenonT(30) DEF IssueDocs
    <2>. QED  BY <1>3, <2>1, FS_Union DEF Comments
  <1>5. PICK S : S = {Comment(i, c) : c \in cs}
    OBVIOUS
  <1>6. IsFiniteSet(S) /\ S \subseteq Deliveries(k, n)
    <2>1. IsFiniteSet(S)
      BY <1>4, <1>5, ImageFinite
    <2>2. \A c \in cs : Comment(i, c) \in Deliveries(k, n)
      BY <1>2, <1>4 DEF Comment, Deliveries
    <2>. QED  BY <1>5, <2>1, <2>2
  <1>7. PICK q : q = SetToSeq(S)
    OBVIOUS
  <1>8. q \in Seq(S) /\ \A x \in S : \E j \in DOMAIN q : q[j] = x
    BY <1>6, <1>7, SetAsSeq
  <1>9. PICK d : d = Issue(i, issues[i].title)
    OBVIOUS
  <1>10. d \in Deliveries(k, n)
    <2>1. issues[i].title \in 0..k
      BY <1>2 DEF IssueDocs
    <2>. QED  BY <1>2, <1>9, <2>1 DEF Issue, Deliveries
  <1>11. DeliveriesOf(i) = <<d>> \o q
    BY <1>3, <1>5, <1>7, <1>9 DEF DeliveriesOf
  <1>12. q \in Seq(Deliveries(k, n))
    BY <1>6, <1>8
  <1>13. /\ <<d>> \o q \in Seq(Deliveries(k, n)) /\ <<d>> \o q # <<>> /\ Head(<<d>> \o q) = d
         /\ \A j \in DOMAIN q : j + 1 \in DOMAIN (<<d>> \o q) /\ (<<d>> \o q)[j + 1] = q[j]
    BY <1>10, <1>12
  <1>14. \A c \in issues[i].notes : \E j \in DOMAIN (<<d>> \o q) : (<<d>> \o q)[j] = Comment(i, c)
    <2> TAKE c \in issues[i].notes
    <2>1. Comment(i, c) \in S
      BY <1>3, <1>5
    <2>2. PICK j \in DOMAIN q : q[j] = Comment(i, c)
      BY <1>8, <2>1
    <2>. QED  BY <1>13, <2>2
  <1>. QED  BY <1>1, <1>9, <1>11, <1>13, <1>14 DEF Queues

LEMMA AllTyped ==
  ASSUME Typed, NEW S \in SUBSET DOMAIN issues, S # {}
  PROVE  AllOf(S) \in Queues(Drafted, Len(issues))
  <1>1. PICK D : D = Deliveries(Drafted, Len(issues))
    OBVIOUS
  <1>2. IsFiniteSet(S)
    <2>1. DOMAIN issues = 1..Len(issues) /\ Len(issues) \in Int /\ 1 \in Int
      BY Counted
    <2>2. IsFiniteSet(1..Len(issues))
      BY <2>1, FS_Interval
    <2>. QED  BY <2>1, <2>2, FS_Subset
  <1>3. PICK f : AllOf(S) = f[S] /\ \A s \in SUBSET S : f[s] = Read(f, s)
    BY <1>2, AllReads
  <1>4. \A s \in SUBSET S : s # {} => /\ One(s) \in s
                                      /\ DeliveriesOf(One(s)) \in Seq(D) /\ DeliveriesOf(One(s)) # <<>>
    <2> TAKE s \in SUBSET S
    <2>1. s # {} => One(s) \in s
      BY DEF One
    <2>. QED  BY <1>1, <2>1, IssueReads DEF Queues
  <1> DEFINE Bad == {m \in Nat : \E s \in SUBSET S : Cardinality(s) = m /\ f[s] \notin Seq(D)}
  <1>5. Bad = {}
    <2> SUFFICES ASSUME Bad # {} PROVE FALSE
      OBVIOUS
    <2>1. PICK m \in Bad : \A j \in Bad : m <= j
      <3> Bad \in SUBSET Nat
        OBVIOUS
      <3> HIDE DEF Bad
      <3>. QED  BY NatMin
    <2>2. PICK s \in SUBSET S : Cardinality(s) = m /\ f[s] \notin Seq(D)
      BY <2>1
    <2>3. s # {}
      <3>1. s = {} => f[s] = <<>>
        BY <1>3 DEF Read
      <3>2. <<>> \in Seq(D)
        OBVIOUS
      <3> HIDE DEF Bad
      <3>. QED  BY <2>2, <3>1, <3>2
    <2>4. m \in Nat /\ One(s) \in s /\ Cardinality(s \ {One(s)}) = m - 1 /\ m - 1 \in Nat
      <3>1. IsFiniteSet(s) /\ IsFiniteSet(s \ {One(s)})
        BY <1>2, FS_Subset
      <3>2. One(s) \in s
        BY <1>4, <2>3
      <3>3. Cardinality(s \ {One(s)}) = Cardinality(s) - 1 /\ Cardinality(s \ {One(s)}) \in Nat
        BY <3>1, <3>2, FS_RemoveElement, FS_CardinalityType
      <3>. QED  BY <2>1, <2>2, <3>2, <3>3
    <2>5. f[s \ {One(s)}] \in Seq(D)
      <3>1. m - 1 \notin Bad
        <4> HIDE DEF Bad
        <4>. QED  BY <2>1, <2>4
      <3>2. s \ {One(s)} \in SUBSET S
        OBVIOUS
      <3>. QED  BY <2>4, <3>1, <3>2
    <2>6. f[s] = f[s \ {One(s)}] \o DeliveriesOf(One(s))
      BY <1>3, <2>3 DEF Read
    <2>7. f[s] \in Seq(D)
      BY <1>4, <2>3, <2>5, <2>6
    <2>. QED  BY <2>2, <2>7
  <1>6. \A s \in SUBSET S : f[s] \in Seq(D)
    <2> TAKE s \in SUBSET S
    <2>1. Cardinality(s) \in Nat
      BY <1>2, FS_Subset, FS_CardinalityType
    <2>. QED  BY <1>5, <2>1
  <1>7. f[S] # <<>>
    <2>1. f[S] = f[S \ {One(S)}] \o DeliveriesOf(One(S))
      BY <1>3 DEF Read
    <2>2. f[S \ {One(S)}] \in Seq(D) /\ DeliveriesOf(One(S)) \in Seq(D) /\ DeliveriesOf(One(S)) # <<>>
      BY <1>4, <1>6
    <2>. QED  BY <2>1, <2>2
  <1>. QED  BY <1>1, <1>3, <1>6, <1>7 DEF Queues

(* One issue read.                                                         *)
LEMMA OneRead ==
  ASSUME Typed, 1 \in DOMAIN issues
  PROVE  AllOf({1}) = DeliveriesOf(1)
  <1>1. PICK f : AllOf({1}) = f[{1}] /\ \A s \in SUBSET {1} : f[s] = Read(f, s)
    BY AllReads, FS_Singleton
  <1>2. One({1}) = 1 /\ {1} \ {1} = {}
    BY DEF One
  <1>3. f[{}] = <<>>
    BY <1>1 DEF Read
  <1>4. f[{1}] = <<>> \o DeliveriesOf(1)
    BY <1>1, <1>2, <1>3 DEF Read
  <1>5. DeliveriesOf(1) \in Seq(Deliveries(Drafted, Len(issues)))
    BY IssueReads DEF Queues
  <1>. QED  BY <1>1, <1>4, <1>5

-----------------------------------------------------------------------------
(* What comes in.                                                          *)
LEMMA QueueTyped ==
  ASSUME NEW k \in Nat, NEW n \in Nat, NEW q \in Queues(k, n)
  PROVE  /\ Head(q) \in Deliveries(k, n) /\ Tail(q) \in Seq(Deliveries(k, n))
         /\ OtherIssues(q) \in Seq(Deliveries(k, n))
         /\ Head(q).issue \in 1..n
         /\ Head(q).kind = "issue" => Head(q).title \in 0..k
         /\ Head(q).kind = "comment" => Head(q).note \in Comments
  <1>1. q \in Seq(Deliveries(k, n)) /\ q # <<>>
    BY DEF Queues
  <1>2. Head(q) \in Deliveries(k, n) /\ Tail(q) \in Seq(Deliveries(k, n)) /\ OtherIssues(q) \in Seq(Deliveries(k, n))
    BY <1>1, OthersOk
  <1>3. \A d \in Deliveries(k, n) : /\ d.issue \in 1..n
                                    /\ d.kind = "issue" => d.title \in 0..k
                                    /\ d.kind = "comment" => d.note \in Comments
    BY DEF Deliveries
  <1>. QED  BY <1>2, <1>3

LEMMA ProceedTyped ==
  ASSUME NEW k \in Nat, NEW n \in Nat, NEW h, NEW q \in Seq(Deliveries(k, n)), NEW read \in Reads(h, n)
  PROVE  InboundTyped(Proceed(q, read), h, k, n)
  <1>1. CASE q = <<>>
    BY <1>1 DEF Proceed, InboundTyped
  <1>2. CASE q # <<>>
    <2>1. PICK r : r = [pc |-> "next", queue |-> q, read |-> read]
      OBVIOUS
    <2>2. r \in [pc : {"next"}, queue : Queues(k, n), read : Reads(h, n)]
      BY <1>2, <2>1 DEF Queues
    <2>. QED  BY <1>2, <2>1, <2>2 DEF Proceed, InboundTyped
  <1>. QED  BY <1>1, <1>2

LEMMA WithTyped ==
  ASSUME NEW k \in Nat, NEW n \in Nat, NEW h, NEW q \in Queues(k, n), NEW read \in Reads(h, n), NEW pc, NEW known,
         \/ pc \in {"patch", "stamp"} /\ known \in 0..k /\ Head(q).kind = "issue"
         \/ pc \in {"seen", "tell"} /\ known \in SUBSET Comments /\ Head(q).kind = "comment"
  PROVE  InboundTyped(With(pc, q, read, known), h, k, n)
  <1>1. PICK r : r = [pc |-> pc, queue |-> q, read |-> read, known |-> known]
    OBVIOUS
  <1>2. CASE pc \in {"patch", "stamp"} /\ known \in 0..k /\ Head(q).kind = "issue"
    <2>1. r \in [pc : {"patch", "stamp"}, queue : Queues(k, n), read : Reads(h, n), known : 0..k] /\ r.queue = q
      BY <1>1, <1>2
    <2>. QED  BY <1>1, <1>2, <2>1 DEF With, InboundTyped
  <1>3. CASE pc \in {"seen", "tell"} /\ known \in SUBSET Comments /\ Head(q).kind = "comment"
    <2>1. r \in [pc : {"seen", "tell"}, queue : Queues(k, n), read : Reads(h, n), known : SUBSET Comments] /\ r.queue = q
      BY <1>1, <1>3
    <2>. QED  BY <1>1, <1>3, <2>1 DEF With, InboundTyped
  <1>. QED  BY <1>2, <1>3

LEMMA InHand ==
  ASSUME NEW k \in Nat, NEW n \in Nat, NEW h, NEW r, InboundTyped(r, h, k, n), r.pc # "idle"
  PROVE  /\ r.pc \in {"next", "patch", "stamp", "seen", "tell"}
         /\ r.queue \in Queues(k, n) /\ r.read \in Reads(h, n)
         /\ r.pc \in {"patch", "stamp"} => r.known \in 0..k /\ Head(r.queue).kind = "issue"
         /\ r.pc \in {"seen", "tell"} => /\ r.known \in SUBSET Comments /\ Head(r.queue).kind = "comment"
                                         /\ r = [pc |-> r.pc, queue |-> r.queue, read |-> r.read, known |-> r.known]
  BY DEF InboundTyped, NoInbound

LEMMA OpenTyped ==
  ASSUME Typed, NEW h \in Handlers, NEW q \in Queues(Drafted, Len(issues)), NEW read \in Reads(h, Len(issues)),
         Open(h, q, read), issues' = issues, hooks' \subseteq hooks
  PROVE  Typed'
  <1>1. PICK k, n : k = Drafted /\ n = Len(issues)
    OBVIOUS
  <1>2. k \in Nat /\ n \in Nat /\ ticket \in Tickets(k, n) /\ q \in Queues(k, n) /\ read \in Reads(h, n)
    BY <1>1, Counted DEF Typed
  <1>3. UNCHANGED <<ticket, outbox, agent, sync, told, used>> /\ Drafted' = k /\ Len(issues') = n
    BY <1>1 DEF Open, Drafted
  <1>4. PICK r : inbound' = [inbound EXCEPT ![h] = r] /\ InboundTyped(r, h, k, n)
    <2>1. CASE Go(h, Proceed(OtherIssues(q), read))
      <3>1. InboundTyped(Proceed(OtherIssues(q), read), h, k, n)
        BY <1>2, ProceedTyped, QueueTyped
      <3>. QED  BY <2>1, <3>1 DEF Go
    <2>2. ASSUME NEW pc \in {"stamp", "patch"}, Head(q).kind = "issue", Go(h, With(pc, q, read, ticket.subject))
          PROVE  \E r : inbound' = [inbound EXCEPT ![h] = r] /\ InboundTyped(r, h, k, n)
      <3>1. ticket.subject \in 0..k
        BY <1>2 DEF Tickets
      <3>2. InboundTyped(With(pc, q, read, ticket.subject), h, k, n)
        BY <1>2, <2>2, <3>1, WithTyped
      <3>. QED  BY <2>2, <3>2 DEF Go
    <2>3. CASE Go(h, Proceed(Tail(q), read))
      <3>1. InboundTyped(Proceed(Tail(q), read), h, k, n)
        BY <1>2, ProceedTyped, QueueTyped
      <3>. QED  BY <2>3, <3>1 DEF Go
    <2>4. CASE Head(q).kind = "comment" /\ Go(h, With("seen", q, read, ticket.seen))
      <3>1. ticket.seen \in SUBSET Comments
        BY <1>2 DEF Tickets
      <3>2. InboundTyped(With("seen", q, read, ticket.seen), h, k, n)
        BY <1>2, <2>4, <3>1, WithTyped
      <3>. QED  BY <2>4, <3>2 DEF Go
    <2>5. \/ Go(h, Proceed(OtherIssues(q), read))
          \/ Head(q).kind = "issue" /\ \E pc \in {"stamp", "patch"} : Go(h, With(pc, q, read, ticket.subject))
          \/ Go(h, Proceed(Tail(q), read))
          \/ Head(q).kind = "comment" /\ Go(h, With("seen", q, read, ticket.seen))
      BY DEF Open
    <2>. QED  BY <2>1, <2>2, <2>3, <2>4, <2>5
  <1>5. InboundsTyped
    BY <1>3, <1>4, HandlerTyped
  <1>. QED  BY <1>3, <1>5, TypedStays

LEMMA TakeTypes ==
  ASSUME Typed, Take
  PROVE  Typed'
  <1>1. PICK d \in hooks : hooks' = hooks \ {d} /\ Open("webhook", <<d>>, {})
    BY DEF Take
  <1>2. <<d>> \in Queues(Drafted, Len(issues))
    <2>1. d \in Deliveries(Drafted, Len(issues))
      BY DEF Typed
    <2>. QED  BY <2>1 DEF Queues
  <1>3. {} \in Reads("webhook", Len(issues)) /\ "webhook" \in Handlers
    BY DEF Reads, Handlers
  <1>4. issues' = issues /\ hooks' \subseteq hooks
    BY <1>1 DEF Take
  <1>. QED  BY <1>1, <1>2, <1>3, <1>4, OpenTyped

LEMMA ReconcileNextTypes ==
  ASSUME Typed, ReconcileNext
  PROVE  Typed'
  <1>1. "reconcile" \in Handlers /\ issues' = issues /\ hooks' \subseteq hooks
        /\ inbound["reconcile"].pc = "next"
        /\ Open("reconcile", inbound["reconcile"].queue, inbound["reconcile"].read)
    BY DEF Handlers, ReconcileNext
  <1>2. InboundTyped(inbound["reconcile"], "reconcile", Drafted, Len(issues))
    BY <1>1 DEF Typed
  <1>3. /\ inbound["reconcile"].queue \in Queues(Drafted, Len(issues))
        /\ inbound["reconcile"].read \in Reads("reconcile", Len(issues))
    <2>1. inbound["reconcile"].pc # "idle"
      BY <1>1
    <2>. QED  BY <1>2, <2>1, InHand, Counted
  <1>. QED  BY <1>1, <1>3, OpenTyped

LEMMA ReconcileTypes ==
  ASSUME Typed, Reconcile
  PROVE  Typed'
  <1>1. PICK S : S = {i \in DOMAIN issues : issues[i].fresh}
    OBVIOUS
  <1>2. /\ S # {} /\ inbound' = [inbound EXCEPT !["reconcile"] = [pc |-> "next", read |-> S, queue |-> AllOf(S)]]
        /\ issues' = [i \in DOMAIN issues |-> [issues[i] EXCEPT !.fresh = FALSE]]
        /\ UNCHANGED <<ticket, outbox, hooks, agent, sync, told, used>>
    BY <1>1 DEF Reconcile, Go, AllOf
  <1>3. PICK k, n : k = Drafted /\ n = Len(issues)
    OBVIOUS
  <1>4. k \in Nat /\ n \in Nat /\ DOMAIN issues = 1..n /\ issues \in Seq(IssueDocs(k))
    BY <1>3, Counted DEF Typed
  <1>5. issues' \in Seq(IssueDocs(k)) /\ Len(issues') = n
    <2>1. \A i \in 1..n : [issues[i] EXCEPT !.fresh = FALSE] \in IssueDocs(k)
      <3> TAKE i \in 1..n
      <3>1. issues[i] \in IssueDocs(k)
        BY <1>4
      <3>. QED  BY <1>4, <3>1, IssueWrites
    <2>2. PICK f : f = [i \in 1..n |-> [issues[i] EXCEPT !.fresh = FALSE]]
      OBVIOUS
    <2>3. f \in [1..n -> IssueDocs(k)]
      BY <2>1, <2>2
    <2>4. issues' = f
      BY <1>2, <1>4, <2>2
    <2>. QED  BY <1>4, <2>3, <2>4
  <1>6. PICK r : r = [pc |-> "next", read |-> S, queue |-> AllOf(S)]
    OBVIOUS
  <1>7. InboundTyped(r, "reconcile", k, n)
    <2>1. AllOf(S) \in Queues(k, n)
      BY <1>1, <1>2, <1>3, AllTyped
    <2>2. S \in Reads("reconcile", n)
      BY <1>1, <1>2, <1>4 DEF Reads
    <2>3. r \in [pc : {"next"}, queue : Queues(k, n), read : Reads("reconcile", n)]
      BY <1>6, <2>1, <2>2
    <2>. QED  BY <2>3 DEF InboundTyped
  <1>8. Drafted' = k
    BY <1>2, <1>3 DEF Drafted
  <1>9. InboundsTyped
    BY <1>2, <1>5, <1>6, <1>7, <1>8, HandlerTyped DEF Handlers
  <1>. QED  BY <1>2, <1>3, <1>4, <1>5, <1>8, <1>9, TypedStays

LEMMA InboundTypes ==
  ASSUME Typed, NEW h \in Handlers, Inbound(h)
  PROVE  Typed'
  <1>1. PICK k, n, q, read : k = Drafted /\ n = Len(issues) /\ q = inbound[h].queue /\ read = inbound[h].read
    OBVIOUS
  <1>2. k \in Nat /\ n \in Nat /\ ticket \in Tickets(k, n) /\ InboundTyped(inbound[h], h, k, n)
    BY <1>1, Counted DEF Typed
  <1>3. inbound[h].pc \in {"patch", "stamp", "seen", "tell"}
    BY DEF Inbound, Patch, StampMirror, StampSeen, Tell, ApplyFails
  <1>4. /\ q \in Queues(k, n) /\ read \in Reads(h, n)
        /\ inbound[h].pc \in {"patch", "stamp"} => inbound[h].known \in 0..k /\ Head(q).kind = "issue"
        /\ inbound[h].pc \in {"seen", "tell"} =>
             /\ inbound[h].known \in SUBSET Comments /\ Head(q).kind = "comment"
             /\ inbound[h] = [pc |-> inbound[h].pc, queue |-> q, read |-> read, known |-> inbound[h].known]
    <2>1. inbound[h].pc # "idle"
      BY <1>3
    <2>. QED  BY <1>1, <1>2, <1>3, <2>1, InHand
  <1>5. UNCHANGED <<outbox, issues, hooks, agent, sync>>
    BY DEF Inbound, Patch, StampMirror, StampSeen, Tell, ApplyFails
  <1>51. InboundTyped(Done(h), h, k, n)
    BY <1>1, <1>2, <1>4, ProceedTyped, QueueTyped DEF Done
  <1>6. CASE Patch(h)
    <2>1. Delivery(h).title \in 0..k /\ inbound[h].pc = "patch"
      <3>1. inbound[h].pc = "patch"
        BY <1>6 DEF Patch
      <3>2. Head(q).kind = "issue"
        BY <1>4, <3>1
      <3>. QED  BY <1>1, <1>2, <1>4, <3>1, <3>2, QueueTyped DEF Delivery
    <2>2. ticket' = [ticket EXCEPT !.subject = Delivery(h).title] /\ UNCHANGED <<told, used>> /\ Drafted' = k
      BY <1>1, <1>6 DEF Patch, Drafted
    <2>3. ticket' \in Tickets(k, n)
      BY <1>2, <2>1, <2>2, TicketWrites
    <2>4. InboundTyped(With("stamp", q, read, Delivery(h).title), h, k, n)
      BY <1>2, <1>4, <2>1, WithTyped
    <2>5. InboundsTyped
      <3>1. inbound' = [inbound EXCEPT ![h] = With("stamp", q, read, Delivery(h).title)]
        BY <1>1, <1>6 DEF Patch, Go
      <3>. QED  BY <1>1, <1>5, <2>2, <2>4, <3>1, HandlerTyped
    <2>. QED  BY <1>1, <1>5, <2>2, <2>3, <2>5, TypedStays
  <1>7. CASE StampMirror(h)
    <2>1. inbound[h].known \in 0..k
      BY <1>4, <1>7 DEF StampMirror
    <2>2. /\ ticket' = [ticket EXCEPT !.mirror = inbound[h].known] /\ UNCHANGED <<told, used>> /\ Drafted' = k
          /\ inbound' = [inbound EXCEPT ![h] = Done(h)]
      BY <1>1, <1>7 DEF StampMirror, Drafted, Go
    <2>3. ticket' \in Tickets(k, n)
      BY <1>2, <2>1, <2>2, TicketWrites
    <2>4. InboundsTyped
      BY <1>1, <1>5, <1>51, <2>2, HandlerTyped
    <2>. QED  BY <1>1, <1>5, <2>2, <2>3, <2>4, TypedStays
  <1>8. CASE StampSeen(h)
    <2>1. inbound[h].pc = "seen"
      BY <1>8 DEF StampSeen
    <2>2. inbound[h].known \in SUBSET Comments /\ Delivery(h).note \in Comments
      BY <1>1, <1>2, <1>4, <2>1, QueueTyped DEF Delivery
    <2>3. /\ ticket' = [ticket EXCEPT !.seen = inbound[h].known \cup {Delivery(h).note}]
          /\ inbound' = [inbound EXCEPT ![h].pc = "tell"] /\ UNCHANGED <<told, used>> /\ Drafted' = k
      BY <1>1, <1>8 DEF StampSeen, Drafted
    <2>4. ticket' \in Tickets(k, n)
      BY <1>2, <2>2, <2>3, TicketWrites
    <2>5. PICK r : r = With("tell", q, read, inbound[h].known)
      OBVIOUS
    <2>6. inbound' = [inbound EXCEPT ![h] = r]
      <3>1. [inbound[h] EXCEPT !.pc = "tell"] = r
        BY <1>4, <2>1, <2>5 DEF With
      <3>2. DOMAIN inbound = Handlers
        BY DEF Typed
      <3>. QED  BY <2>3, <3>1, <3>2
    <2>7. InboundTyped(r, h, k, n)
      BY <1>2, <1>4, <2>1, <2>2, <2>5, WithTyped
    <2>8. InboundsTyped
      BY <1>1, <1>5, <2>3, <2>6, <2>7, HandlerTyped
    <2>. QED  BY <1>1, <1>5, <2>3, <2>4, <2>8, TypedStays
  <1>9. CASE Tell(h)
    <2>1. inbound[h].pc = "tell"
      BY <1>9 DEF Tell
    <2>2. Delivery(h).note \in Comments
      BY <1>1, <1>2, <1>4, <2>1, QueueTyped DEF Delivery
    <2>3. /\ told' = [told EXCEPT ![Delivery(h).note] = @ + 1] /\ UNCHANGED <<ticket, used>> /\ Drafted' = k
          /\ inbound' = [inbound EXCEPT ![h] = Done(h)]
      BY <1>1, <1>9 DEF Tell, Drafted, Go
    <2>4. told' \in [Comments -> Nat]
      BY <2>2, <2>3 DEF Typed
    <2>5. InboundsTyped
      BY <1>1, <1>5, <1>51, <2>3, HandlerTyped
    <2>. QED  BY <1>5, <2>3, <2>4, <2>5, TypedStays
  <1>10. CASE ApplyFails(h)
    <2>1. UNCHANGED <<ticket, told>> /\ UsedGrows /\ Drafted' = k
      BY <1>1, <1>10, SpendTyped DEF ApplyFails
    <2>2. InboundTyped(Proceed(OtherIssues(q), read), h, k, n)
      BY <1>2, <1>4, ProceedTyped, QueueTyped
    <2>3. InboundsTyped
      <3>1. inbound' = [inbound EXCEPT ![h] = Proceed(OtherIssues(q), read)]
        BY <1>1, <1>10 DEF ApplyFails, Go
      <3>. QED  BY <1>1, <1>5, <2>1, <2>2, <3>1, HandlerTyped
    <2>. QED  BY <1>5, <2>1, <2>3, TypedStays
  <1>. QED  BY <1>6, <1>7, <1>8, <1>9, <1>10 DEF Inbound

LEMMA RemoteTypes ==
  ASSUME Typed, Rename \/ WriteNote \/ LoseHook
  PROVE  Typed'
  <1>1. PICK k, n : k = Drafted /\ n = Len(issues)
    OBVIOUS
  <1>2. k \in Nat /\ n \in Nat /\ DOMAIN issues = 1..n /\ issues \in Seq(IssueDocs(k)) /\ k + 1 \in Nat
    BY <1>1, Counted DEF Typed
  <1>3. issues \in Seq(IssueDocs(k + 1))
    <2>1. IssueDocs(k) \subseteq IssueDocs(k + 1)
      BY <1>2, WiderIssues
    <2>. QED  BY <1>2, <2>1
  <1>4. CASE Rename
    <2>1. PICK i \in DOMAIN issues :
             /\ Spend("remote", MaxRemote) /\ issues' = Renamed(i, NewTitle)
             /\ hooks' = hooks \cup {Issue(i, NewTitle)} /\ UNCHANGED <<ticket, outbox, agent, sync, inbound, told>>
      BY <1>4 DEF Rename
    <2>2. UsedGrows /\ Drafted' = k + 1 /\ NewTitle = k + 1
      BY <1>1, <2>1, SpendTyped, Counted DEF NewTitle, Drafted
    <2>3. NewTitle \in 0..(k + 1)
      BY <1>2, <2>2
    <2>4. PICK d \in IssueDocs(k + 1) : d = [issues[i] EXCEPT !.title = NewTitle, !.fresh = TRUE]
      <3>1. issues[i] \in IssueDocs(k + 1)
        BY <1>3
      <3>. QED  BY <1>2, <2>3, <3>1, IssueWrites
    <2>5. issues' = [issues EXCEPT ![i] = d]
      BY <2>1, <2>4 DEF Renamed
    <2>6. issues' \in Seq(IssueDocs(k + 1)) /\ Len(issues') = n
      BY <1>1, <1>3, <2>5, OneIssueWrites
    <2>7. Issue(i, NewTitle) \in Deliveries(k + 1, n)
      BY <1>2, <2>3 DEF Issue, Deliveries
    <2>. QED  BY <1>1, <1>2, <2>1, <2>2, <2>6, <2>7, TypedStays
  <1>5. CASE WriteNote
    <2>1. PICK i \in DOMAIN issues, c \in Notes :
             /\ Spend("remote", MaxRemote)
             /\ issues' = [issues EXCEPT ![i].notes = @ \cup {c}, ![i].fresh = TRUE]
             /\ hooks' = hooks \cup {Comment(i, c)} /\ UNCHANGED <<ticket, outbox, agent, sync, inbound, told>>
      BY <1>5 DEF WriteNote
    <2>2. UsedGrows /\ Drafted' = k + 1
      BY <1>1, <2>1, SpendTyped, Counted DEF NewTitle, Drafted
    <2>4. PICK d \in IssueDocs(k + 1) : d = [issues[i] EXCEPT !.notes = @ \cup {c}, !.fresh = TRUE]
      <3>1. issues[i] \in IssueDocs(k + 1)
        BY <1>3
      <3>. QED  BY <1>2, <3>1, IssueWrites
    <2>5. issues' = [issues EXCEPT ![i] = d]
      BY <2>1, <2>4
    <2>6. issues' \in Seq(IssueDocs(k + 1)) /\ Len(issues') = n
      BY <1>1, <1>3, <2>5, OneIssueWrites
    <2>7. Comment(i, c) \in Deliveries(k + 1, n)
      BY <1>2 DEF Comment, Deliveries, Comments
    <2>. QED  BY <1>1, <1>2, <2>1, <2>2, <2>6, <2>7, TypedStays
  <1>6. CASE LoseHook
    <2>1. hooks' \subseteq hooks /\ UNCHANGED <<ticket, outbox, issues, agent, sync, inbound, told, used>>
      BY <1>6 DEF LoseHook
    <2>. QED  BY <2>1, TypedStays
  <1>. QED  BY <1>4, <1>5, <1>6

LEMMA RestartTypes ==
  ASSUME Typed, Restart
  PROVE  Typed'
  <1>1. PICK k, n : k = Drafted /\ n = Len(issues)
    OBVIOUS
  <1>2. k \in Nat /\ n \in Nat /\ DOMAIN issues = 1..n /\ issues \in Seq(IssueDocs(k))
    BY <1>1, Counted DEF Typed
  <1>3. UNCHANGED <<ticket, outbox, hooks, told>> /\ agent' = "idle" /\ UsedGrows /\ Drafted' = k
    BY <1>1, SpendTyped DEF Restart
  <1>4. issues' \in Seq(IssueDocs(k)) /\ Len(issues') = n
    <2>1. PICK b : b = [i \in 1..n |-> issues[i].fresh \/ i \in inbound["reconcile"].read]
      OBVIOUS
    <2>2. \A i \in 1..n : b[i] \in BOOLEAN
      BY <2>1
    <2>3. PICK f : f = [i \in 1..n |-> [issues[i] EXCEPT !.fresh = b[i]]]
      OBVIOUS
    <2>4. \A i \in 1..n : [issues[i] EXCEPT !.fresh = b[i]] \in IssueDocs(k)
      <3> TAKE i \in 1..n
      <3>1. issues[i] \in IssueDocs(k) /\ b[i] \in BOOLEAN
        BY <1>2, <2>2
      <3>. QED  BY <1>2, <3>1, IssueWrites
    <2>5. f \in [1..n -> IssueDocs(k)]
      BY <2>3, <2>4
    <2>6. issues' = f
      BY <1>2, <2>1, <2>3 DEF Restart
    <2>. QED  BY <1>2, <2>5, <2>6
  <1>5. SyncsTyped
    BY DEF Restart, SyncsTyped, SyncTyped
  <1>6. InboundsTyped
    BY DEF Restart, InboundsTyped, InboundTyped
  <1>. QED  BY <1>1, <1>2, <1>3, <1>4, <1>5, <1>6, TypedStays

LEMMA TypedStep ==
  ASSUME Typed, [Next]_vars
  PROVE  Typed'
  <1>1. CASE UNCHANGED vars
    BY <1>1, TypedStays DEF vars
  <1>2. ASSUME NEW w \in Workers, Sync(w) PROVE Typed'
    BY <1>2, StartTypes, SendIssueTypes, SendCommentTypes, CallFailsTypes, StampTypes, FinishTypes, RetryTypes DEF Sync
  <1>. QED  BY <1>1, <1>2, AgentTypes, GiveUpTypes, RemoteTypes, TakeTypes, ReconcileTypes, ReconcileNextTypes,
               InboundTypes, RestartTypes DEF Next

-----------------------------------------------------------------------------
(* What is sent, and recorded as sent, is a message of the ticket.         *)
KnownMessages ==
    /\ ticket.commented \subseteq ticket.messages
    /\ \A w \in Workers : InSync(w) => sync[w].todo \cup sync[w].commented \subseteq ticket.messages

LEMMA KnownElsewhere ==
  ASSUME KnownMessages, sync' = sync,
         ticket'.commented = ticket.commented, ticket.messages \subseteq ticket'.messages
  PROVE  KnownMessages'
  BY DEF KnownMessages, InSync

LEMMA KnownWorker ==
  ASSUME KnownMessages, DOMAIN sync = Workers, NEW w \in Workers, NEW r, sync' = [sync EXCEPT ![w] = r],
         r.pc \in {"issue", "comment", "stamp"} => r.todo \cup r.commented \subseteq ticket.messages,
         ticket'.commented \subseteq ticket.messages, ticket'.messages = ticket.messages
  PROVE  KnownMessages'
  BY DEF KnownMessages, InSync

(* A worker that sent an issue comments next or fails, and still has in     *)
(* hand what it had.                                                       *)
LEMMA IssueSent ==
  ASSUME Typed, NEW w \in Workers, SendIssue(w)
  PROVE  \E r : /\ sync' = [sync EXCEPT ![w] = r] /\ r.pc \in {"comment", "fail"}
               /\ r.todo = sync[w].todo /\ r.commented = sync[w].commented
  <1>1. PICK s, t, i : s = sync[w] /\ t = (s.issue = 0) /\ i = (IF t THEN Len(issues) + 1 ELSE s.issue)
    OBVIOUS
  <1>2. s \in SyncDocs(Drafted, Len(issues))
    BY <1>1, Syncing DEF SendIssue
  <1>3. \/ sync' = [sync EXCEPT ![w] = [s EXCEPT !.pc = "comment", !.issue = i, !.created = t]]
        \/ sync' = [sync EXCEPT ![w].pc = "fail"]
    BY <1>1, ZenonT(40) DEF SendIssue, Put, Goto
  <1>4. PICK r : /\ sync' = [sync EXCEPT ![w] = r]
                 /\ \/ r = [s EXCEPT !.pc = "comment", !.issue = i, !.created = t]
                    \/ r = [s EXCEPT !.pc = "fail"]
    BY <1>1, <1>3
  <1>5. r.pc \in {"comment", "fail"} /\ r.todo = s.todo /\ r.commented = s.commented
    BY <1>2, <1>4 DEF SyncDocs
  <1>. QED  BY <1>1, <1>4, <1>5

LEMMA KnownStep ==
  ASSUME Typed, KnownMessages, Next, "apart" \notin excused'
  PROVE  KnownMessages'
  <1>0. DOMAIN sync = Workers /\ ticket \in Tickets(Drafted, Len(issues))
    BY DEF Typed
  <1>01. \A f \in {"subject", "messages", "issue", "mirror", "commented", "seen"} : f \in DOMAIN ticket
    BY <1>0 DEF Tickets
  <1>1. CASE \/ EditSubject \/ AddMessage \/ MarkLook \/ Mark
             \/ Rename \/ WriteNote \/ LoseHook \/ Take \/ Reconcile \/ ReconcileNext
             \/ \E h \in Handlers : Inbound(h)
    <2>1. sync' = sync
      BY <1>1 DEF EditSubject, AddMessage, MarkLook, Mark, Write, Rename, WriteNote, LoseHook, Take,
             Reconcile, ReconcileNext, Open, Inbound, Patch, StampMirror, StampSeen, Tell, ApplyFails
    <2>2. ticket'.commented = ticket.commented /\ ticket.messages \subseteq ticket'.messages
      <3>1. CASE EditSubject \/ AddMessage \/ MarkLook \/ Mark
        BY <1>01, <3>1 DEF EditSubject, AddMessage, MarkLook, Mark, Write
      <3>2. CASE Rename \/ WriteNote \/ LoseHook \/ Take \/ Reconcile \/ ReconcileNext
        BY <3>2 DEF Rename, WriteNote, LoseHook, Take, Reconcile, ReconcileNext, Open
      <3>3. ASSUME NEW h \in Handlers, Inbound(h)
            PROVE  ticket'.commented = ticket.commented /\ ticket.messages \subseteq ticket'.messages
        BY <1>01, <3>3 DEF Inbound, Patch, StampMirror, StampSeen, Tell, ApplyFails
      <3>. QED  BY <1>1, <3>1, <3>2, <3>3
    <2>. QED  BY <2>1, <2>2, KnownElsewhere
  <1>2. ASSUME NEW w \in Workers, StartSync(w) PROVE KnownMessages'
    <2>1. PICK r : r = [pc |-> FirstStep, subject |-> ticket.subject, todo |-> Pending,
                        commented |-> ticket.commented, issue |-> ticket.issue, created |-> FALSE,
                        failed |-> FALSE, attempts |-> outbox.attempts]
      OBVIOUS
    <2>2. sync' = [sync EXCEPT ![w] = r] /\ ticket' = ticket
      BY <1>2, <2>1 DEF StartSync, Put
    <2>3. r.todo \cup r.commented \subseteq ticket.messages
      BY <2>1 DEF KnownMessages, Pending
    <2>. QED  BY <1>0, <2>2, <2>3, KnownWorker DEF KnownMessages
  <1>3. ASSUME NEW w \in Workers, SendIssue(w) \/ SendComment(w) \/ CallFails(w) PROVE KnownMessages'
    <2>1. PICK s : s = sync[w]
      OBVIOUS
    <2>2. /\ s \in SyncDocs(Drafted, Len(issues)) /\ s.todo \cup s.commented \subseteq ticket.messages
      <3>1. s.pc \in {"issue", "comment"}
        BY <1>3, <2>1 DEF SendIssue, SendComment, CallFails
      <3>. QED  BY <2>1, <3>1, Syncing DEF KnownMessages, InSync
    <2>3. ticket' = ticket
      BY <1>3 DEF SendIssue, SendComment, CallFails
    <2>4. PICK r : sync' = [sync EXCEPT ![w] = r] /\ r.todo \cup r.commented \subseteq s.todo \cup s.commented
      <3>1. CASE SendIssue(w)
        <4>2. PICK r : /\ sync' = [sync EXCEPT ![w] = r] /\ r.pc \in {"comment", "fail"}
                       /\ r.todo = s.todo /\ r.commented = s.commented
          BY <2>1, <3>1, IssueSent
        <4>. QED  BY <4>2
      <3>2. CASE SendComment(w)
        <4>0. PICK m \in s.todo : \/ sync' = [sync EXCEPT ![w] = [s EXCEPT !.todo = @ \ {m}, !.commented = @ \cup {m}]]
                                  \/ sync' = [sync EXCEPT ![w] = [s EXCEPT !.pc = "stamp", !.failed = TRUE]]
          BY <2>1, <3>2 DEF SendComment, Put
        <4>1. PICK r : /\ sync' = [sync EXCEPT ![w] = r]
                       /\ \/ r = [s EXCEPT !.todo = @ \ {m}, !.commented = @ \cup {m}]
                          \/ r = [s EXCEPT !.pc = "stamp", !.failed = TRUE]
          BY <4>0
        <4>2. \/ r.todo = s.todo \ {m} /\ r.commented = s.commented \cup {m}
              \/ r.todo = s.todo /\ r.commented = s.commented
          BY <2>2, <4>1 DEF SyncDocs
        <4>3. r.todo \cup r.commented \subseteq s.todo \cup s.commented
          BY <4>2
        <4>. QED  BY <4>1, <4>3
      <3>3. CASE CallFails(w)
        <4>1. PICK r : /\ sync' = [sync EXCEPT ![w] = r]
                       /\ r = [s EXCEPT !.pc = IF @ = "issue" THEN "fail" ELSE "stamp", !.failed = TRUE]
          BY <2>1, <3>3 DEF CallFails, Put
        <4>2. r.todo = s.todo /\ r.commented = s.commented
          BY <2>2, <4>1 DEF SyncDocs
        <4>. QED  BY <4>1, <4>2
      <3>. QED  BY <1>3, <3>1, <3>2, <3>3
    <2>. QED  BY <1>0, <2>2, <2>3, <2>4, KnownWorker DEF KnownMessages
  <1>4. ASSUME NEW w \in Workers, Stamp(w) PROVE KnownMessages'
    <2>1. PICK s, pc : /\ s = sync[w] /\ pc \in {"fail", "done"} /\ s.pc \in {"comment", "stamp"}
                       /\ sync' = [sync EXCEPT ![w].pc = pc]
                       /\ ticket' = [ticket EXCEPT !.issue = s.issue, !.mirror = s.subject, !.commented = s.commented]
      BY <1>4 DEF Stamp, Goto
    <2>2. s \in SyncDocs(Drafted, Len(issues)) /\ s.commented \subseteq ticket.messages
      BY <2>1, Syncing DEF KnownMessages, InSync
    <2>3. PICK r : sync' = [sync EXCEPT ![w] = r] /\ r.pc = pc
      <3>1. [s EXCEPT !.pc = pc].pc = pc
        BY <2>2 DEF SyncDocs
      <3>. QED  BY <2>1, <3>1
    <2>4. ticket'.commented = s.commented /\ ticket'.messages = ticket.messages
      BY <1>01, <2>1
    <2>. QED  BY <1>0, <2>1, <2>2, <2>3, <2>4, KnownWorker
  <1>5. ASSUME NEW w \in Workers, Finish(w) \/ Retry(w) PROVE KnownMessages'
    <2>1. ticket' = ticket
      BY <1>5 DEF Finish, Retry
    <2>2. PICK r : sync' = [sync EXCEPT ![w] = r] /\ r.pc \in {"idle", "giveup"}
      <3>1. CASE sync' = [sync EXCEPT ![w] = NoSync]
        <4>1. NoSync.pc = "idle"
          BY DEF NoSync
        <4>. QED  BY <3>1, <4>1
      <3>2. CASE Retry(w) /\ sync' = [sync EXCEPT ![w].pc = "giveup"]
        <4>1. sync[w] \in SyncDocs(Drafted, Len(issues))
          BY <3>2, Syncing DEF Retry
        <4>2. [sync[w] EXCEPT !.pc = "giveup"].pc = "giveup"
          BY <4>1 DEF SyncDocs
        <4>. QED  BY <3>2, <4>2
      <3>. QED  BY <1>5, <3>1, <3>2 DEF Finish, Retry, Put, Goto
    <2>. QED  BY <1>0, <2>1, <2>2, KnownWorker DEF KnownMessages
  <1>6. CASE GiveUp
    <2>1. ticket' = ticket
      BY <1>6 DEF GiveUp
    <2>2. PICK r : sync' = [sync EXCEPT !["drain"] = r] /\ r.pc \in {"again", "put", "idle"}
      <3>1. CASE sync["drain"].pc = "giveup"
        <4>1. PICK r : r = [pc |-> "again", copy |-> ticket]
          OBVIOUS
        <4>. QED  BY <1>6, <3>1, <4>1 DEF GiveUp, Put
      <3>2. CASE sync["drain"].pc = "again"
        <4>1. PICK own : sync' = [sync EXCEPT !["drain"] = [pc |-> "put", copy |-> own]]
          BY <1>6, <3>2 DEF GiveUp, Put
        <4>2. PICK r : r = [pc |-> "put", copy |-> own]
          OBVIOUS
        <4>3. r.pc = "put"
          BY <4>2
        <4>. QED  BY <4>1, <4>2, <4>3
      <3>3. CASE sync["drain"].pc = "put"
        BY <1>6, <3>3 DEF GiveUp, Put, NoSync
      <3>. QED  BY <1>6, <3>1, <3>2, <3>3 DEF GiveUp
    <2>. QED  BY <1>0, <2>1, <2>2, KnownWorker DEF KnownMessages, Workers
  <1>7. CASE Restart
    BY <1>7 DEF Restart, KnownMessages, InSync, NoSync
  <1>. QED  BY <1>1, <1>2, <1>3, <1>4, <1>5, <1>6, <1>7 DEF Next, Sync

KnownInv == "apart" \notin excused => KnownMessages

(* Every value of the state is one the code writes, whatever the order of  *)
(* the steps, and what is recorded as sent is a message of the ticket.     *)
THEOREM TypesInv == Spec => [](Typed /\ KnownInv)
  <1>1. Init => Typed /\ KnownInv
    <2>1. Init => KnownInv
      BY DEF Init, KnownInv, KnownMessages, InSync, NoSync
    <2>. QED  BY <2>1, InitTyped
  <1>2. Typed /\ KnownInv /\ [Next]_vars => (Typed /\ KnownInv)'
    <2> SUFFICES ASSUME Typed, KnownInv, [Next]_vars PROVE Typed' /\ KnownInv'
      OBVIOUS
    <2>1. CASE Next
      <3>1. KnownInv'
        BY <2>1, ExcusedStays, KnownStep DEF KnownInv
      <3>. QED  BY <3>1, TypedStep
    <2>2. CASE UNCHANGED vars
      <3>1. KnownInv'
        BY <2>2 DEF vars, KnownInv, KnownMessages, InSync
      <3>. QED  BY <3>1, TypedStep
    <2>. QED  BY <2>1, <2>2
  <1>. QED  BY <1>1, <1>2, PTL DEF Spec

(* ... so a ticket is linked to an issue that exists, a queued row has     *)
(* attempts left, and what the ticket holds as sent are its own messages.  *)
THEOREM TypesHold == Spec => []TypeOK
  <1>1. Typed /\ KnownInv => TypeOK
    <2> SUFFICES ASSUME Typed, KnownInv PROVE TypeOK
      OBVIOUS
    <2>1. Drafted \in Subjects /\ 0..Drafted \subseteq Subjects
      <3>1. used.writes \in 0..MaxWrites /\ used.remote \in 0..MaxRemote
        BY DEF Typed, Usage
      <3>2. MaxWrites \in Nat /\ MaxRemote \in Nat
        BY LinearAssumption
      <3>. QED  BY <3>1, <3>2 DEF Drafted, Subjects
    <2>2. ticket \in TicketDoc
      <3>1. ticket \in Tickets(Drafted, Len(issues))
        BY DEF Typed
      <3>. QED  BY <2>1, <3>1, ZenonT(40) DEF Tickets, TicketDoc
    <2>3. "apart" \notin excused => ticket.commented \subseteq ticket.messages
      BY DEF KnownInv, KnownMessages
    <2>4. /\ outbox \in [st : {"none", "queued", "dead"}, attempts : 0..MAX_ATTEMPTS, dirty : BOOLEAN]
          /\ outbox.st = "queued" => outbox.attempts < MAX_ATTEMPTS
      BY DEF Typed, RowTyped
    <2>5. \A i \in DOMAIN issues : issues[i].title \in Subjects /\ issues[i].notes \subseteq Notes
      <3>1. \A i \in DOMAIN issues : issues[i] \in IssueDocs(Drafted)
        BY DEF Typed
      <3>. QED  BY <2>1, <3>1 DEF IssueDocs
    <2>6. \A w \in Workers : sync[w].pc \in
             {"idle", "issue", "comment", "stamp", "done", "fail", "giveup", "again", "put"}
      BY DEF Typed, SyncTyped, SyncDocs, NoSync
    <2>7. \A h \in Handlers : inbound[h].pc \in {"idle", "next", "patch", "stamp", "seen", "tell"}
      BY DEF Typed, InboundTyped, NoInbound
    <2>. QED  BY <2>2, <2>3, <2>4, <2>5, <2>6, <2>7 DEF Typed, TypeOK
  <1>. QED  BY <1>1, TypesInv, PTL

-----------------------------------------------------------------------------
(* While nothing was given away, the drain always has a row to work on, or *)
(* a write is about to mark one, as long as something was not sent.        *)
Draining ==
    /\ outbox.st # "dead" /\ sync["drain"].pc \notin {"giveup", "again", "put"}
    /\ sync["drain"].pc # "idle" => outbox.st = "queued"
    /\ agent = "create" => outbox.st = "none"
    /\ ticket.issue = 0 => outbox.st = "queued" /\ sync["drain"].pc # "done"

Posted == {m \in Messages : \E i \in DOMAIN issues : issues[i].posted[m] > 0}
Waiting ==
    \/ agent # "idle"
    \/ outbox.st = "queued" /\ (outbox.dirty \/ sync["drain"].pc \in {"idle", "fail"})
Sending(m) ==
    \/ sync["drain"].pc = "stamp"
    \/ sync["drain"].pc \in {"issue", "comment"} /\ m \in sync["drain"].todo

SentMessages ==
    /\ ticket.commented \subseteq Posted
    /\ \A w \in Workers : InSync(w) => sync[w].commented \subseteq Posted
    /\ \A m \in ticket.messages \ Posted : Waiting \/ Sending(m)

(* A title of the issue that is not the ticket's is still to be applied, or *)
(* the ticket's is still to be sent; a worker that sent the ticket's was    *)
(* overtaken in Linear.                                                     *)
Title == issues[1].title
ToApply ==
    LET r == inbound["reconcile"] IN
    \/ issues[1].fresh
    \/ r.pc \in {"next", "patch"} /\ Head(r.queue) = Issue(1, Title)
    \/ r.pc = "stamp" /\ r.known # Title
SendingTitle == sync["drain"].pc = "issue" /\ sync["drain"].subject = ticket.subject

OneTitle ==
    ticket.subject # Title =>
        /\ ToApply \/ (ticket.subject # ticket.mirror /\ (Waiting \/ SendingTitle))
        /\ \A w \in Workers :
             sync[w].pc \in {"comment", "stamp"} /\ sync[w].subject = ticket.subject => ToApply

Together == Draining /\ SentMessages /\ (Len(issues) = 1 => OneTitle)

-----------------------------------------------------------------------------
LEMMA FreshTitle == ASSUME issues'[1].fresh PROVE OneTitle'
  BY DEF OneTitle, ToApply

LEMMA PostsKept ==
  ASSUME DOMAIN issues' = DOMAIN issues, \A i \in DOMAIN issues : issues'[i].posted = issues[i].posted
  PROVE  Posted' = Posted
  BY DEF Posted

LEMMA SentElsewhere ==
  ASSUME Draining, SentMessages, UNCHANGED <<sync, outbox, agent>>, Posted' = Posted,
         ticket'.messages = ticket.messages, ticket'.commented = ticket.commented, ticket'.issue = ticket.issue
  PROVE  Draining' /\ SentMessages'
  BY DEF Draining, SentMessages, Waiting, Sending, InSync

LEMMA TitleElsewhere ==
  ASSUME OneTitle, UNCHANGED <<sync, outbox, agent>>, Title' = Title,
         ticket'.subject = ticket.subject, ticket'.mirror = ticket.mirror,
         ticket.subject # Title => (ToApply => ToApply')
  PROVE  OneTitle'
  BY DEF OneTitle, Waiting, SendingTitle

LEMMA TitlesAre ==
  ASSUME Typed
  PROVE  /\ Drafted \in Nat /\ NewTitle = Drafted + 1
         /\ ticket.subject \in 0..Drafted /\ ticket.mirror \in (0..Drafted) \cup {NoTitle}
         /\ \A w \in Workers : sync[w].pc \in {"issue", "comment", "stamp"} => sync[w].subject \in 0..Drafted
         /\ DOMAIN ticket = {"subject", "messages", "issue", "mirror", "commented", "seen"}
         /\ "drain" \in Workers /\ DOMAIN sync = Workers
  <1>1. Drafted \in Nat /\ NewTitle = Drafted + 1
    BY Counted DEF Drafted, NewTitle
  <1>2. ticket \in Tickets(Drafted, Len(issues))
    BY DEF Typed
  <1>3. ASSUME NEW w \in Workers, sync[w].pc \in {"issue", "comment", "stamp"}
        PROVE  sync[w].subject \in 0..Drafted
    BY <1>3, Syncing DEF SyncDocs
  <1>. QED  BY <1>1, <1>2, <1>3 DEF Tickets, Workers, Typed

LEMMA AgentKeeps ==
  ASSUME Typed, Together, EditSubject \/ AddMessage \/ MarkLook \/ Mark, "apart" \notin excused'
  PROVE  Together'
  <1>1. UNCHANGED <<issues, sync, inbound>>
    BY DEF EditSubject, AddMessage, MarkLook, Mark, Write
  <1>2. Posted' = Posted /\ (ToApply' <=> ToApply) /\ Title' = Title /\ Len(issues') = Len(issues)
    BY <1>1 DEF Posted, ToApply, Title
  <1>3. CASE EditSubject
    <2>1. /\ ticket' = [ticket EXCEPT !.subject = NewTitle] /\ outbox' = outbox /\ agent' = "look"
      BY <1>3 DEF EditSubject, Write
    <2>2. /\ ticket'.subject = NewTitle /\ ticket'.mirror = ticket.mirror /\ ticket'.messages = ticket.messages
          /\ ticket'.commented = ticket.commented /\ ticket'.issue = ticket.issue
      BY <2>1, TitlesAre
    <2>3. /\ NewTitle # ticket.mirror
          /\ \A w \in Workers : sync[w].pc \in {"comment", "stamp"} => sync[w].subject # NewTitle
      BY TitlesAre DEF NoTitle
    <2>4. Waiting'
      BY <2>1 DEF Waiting
    <2>5. Draining' /\ SentMessages'
      BY <1>1, <1>2, <2>1, <2>2, <2>4 DEF Together, Draining, SentMessages, InSync
    <2>6. OneTitle'
      BY <1>1, <2>2, <2>3, <2>4 DEF OneTitle
    <2>. QED  BY <2>5, <2>6 DEF Together
  <1>4. CASE AddMessage
    <2>1. PICK m \in Messages : /\ ticket' = [ticket EXCEPT !.messages = @ \cup {m}]
                                /\ outbox' = outbox /\ agent' = "look"
      BY <1>4 DEF AddMessage, Write
    <2>2. /\ ticket'.subject = ticket.subject /\ ticket'.mirror = ticket.mirror
          /\ ticket'.commented = ticket.commented /\ ticket'.issue = ticket.issue
      BY <2>1, TitlesAre
    <2>3. Waiting'
      BY <2>1 DEF Waiting
    <2>4. Draining' /\ SentMessages'
      BY <1>1, <1>2, <2>1, <2>2, <2>3 DEF Together, Draining, SentMessages, InSync
    <2>5. OneTitle => OneTitle'
      BY <1>1, <1>2, <2>2, <2>3 DEF OneTitle
    <2>. QED  BY <1>2, <2>4, <2>5 DEF Together
  <1>5. CASE MarkLook
    <2>1. UNCHANGED <<ticket, outbox>> /\ agent' # "idle" /\ (agent' = "create" => outbox.st = "none")
      BY <1>5 DEF MarkLook
    <2>2. Waiting'
      BY <2>1 DEF Waiting
    <2>3. Draining' /\ SentMessages'
      BY <1>1, <1>2, <2>1, <2>2 DEF Together, Draining, SentMessages, InSync
    <2>4. OneTitle => OneTitle'
      BY <1>1, <1>2, <2>1, <2>2 DEF OneTitle
    <2>. QED  BY <1>2, <2>3, <2>4 DEF Together
  <1>6. CASE Mark
    <2>1. ticket' = ticket /\ agent' = "idle" /\ (agent = "update" => outbox.st = "queued")
          /\ agent \in {"create", "update"}
      BY <1>6 DEF Mark, Excuse
    <2>2. /\ outbox'.st = "queued"
          /\ outbox'.dirty \/ sync["drain"].pc = "idle"
      <3>1. CASE agent = "create"
        BY <1>6, <3>1 DEF Mark, NewRow, Together, Draining
      <3>2. CASE agent = "update"
        <4>1. outbox' = [outbox EXCEPT !.dirty = TRUE]
          BY <1>6, <2>1, <3>2 DEF Mark
        <4>2. {"st", "attempts", "dirty"} = DOMAIN outbox
          BY DEF Typed, RowTyped
        <4>. QED  BY <2>1, <3>2, <4>1, <4>2
      <3>. QED  BY <2>1, <3>1, <3>2
    <2>3. Waiting'
      BY <1>1, <2>2 DEF Waiting
    <2>4. Draining' /\ SentMessages'
      BY <1>1, <1>2, <2>1, <2>2, <2>3 DEF Together, Draining, SentMessages, InSync
    <2>5. OneTitle => OneTitle'
      BY <1>1, <1>2, <2>1, <2>3 DEF OneTitle
    <2>. QED  BY <1>2, <2>4, <2>5 DEF Together
  <1>. QED  BY <1>3, <1>4, <1>5, <1>6

LEMMA StartKeeps ==
  ASSUME Typed, Together, NEW w \in Workers, StartSync(w)
  PROVE  Together'
  <1>1. PICK r : r = [pc |-> FirstStep, subject |-> ticket.subject, todo |-> Pending,
                      commented |-> ticket.commented, issue |-> ticket.issue, created |-> FALSE,
                      failed |-> FALSE, attempts |-> outbox.attempts]
    OBVIOUS
  <1>2. /\ sync' = [sync EXCEPT ![w] = r] /\ UNCHANGED <<ticket, issues, agent, inbound>>
        /\ w = "drain" => outbox.st = "queued" /\ outbox' = [outbox EXCEPT !.dirty = FALSE]
        /\ w # "drain" => outbox' = outbox
    BY <1>1 DEF StartSync, Put
  <1>3. sync[w].pc = "idle" /\ sync'[w] = r /\ (\A v \in Workers \ {w} : sync'[v] = sync[v])
    BY <1>2, TitlesAre DEF StartSync
  <1>4. /\ r.subject = ticket.subject /\ r.commented = ticket.commented /\ r.todo = ticket.messages \ ticket.commented
        /\ r.pc \in {"issue", "comment", "done"}
        /\ r.pc # "issue" => ticket.issue # 0 /\ ticket.subject = ticket.mirror
        /\ r.pc = "done" => ticket.messages \subseteq ticket.commented
    BY <1>1 DEF FirstStep, TitleDiffers, Pending
  <1>5. Posted' = Posted /\ (ToApply' <=> ToApply) /\ Title' = Title /\ Len(issues') = Len(issues)
    BY <1>2 DEF Posted, ToApply, Title
  <1>6. CASE w = "drain"
    <2>1. outbox'.st = "queued" /\ sync'["drain"] = r
      <3>1. {"st", "attempts", "dirty"} = DOMAIN outbox
        BY DEF Typed, RowTyped
      <3>. QED  BY <1>2, <1>3, <1>6, <3>1
    <2>2. agent # "create"
      BY <1>2, <1>6 DEF Together, Draining
    <2>3. Draining'
      BY <1>2, <1>4, <2>1, <2>2 DEF Draining
    <2>4. SentMessages'
      <3>1. \A m \in ticket.messages \ Posted : Sending(m)'
        BY <1>4, <2>1 DEF Together, SentMessages, Sending
      <3>2. \A v \in Workers : InSync(v)' => sync'[v].commented \subseteq Posted
        BY <1>3, <1>4 DEF Together, SentMessages, InSync
      <3>. QED  BY <1>2, <1>5, <3>1, <3>2 DEF Together, SentMessages
    <2>5. OneTitle => OneTitle'
      <3> SUFFICES ASSUME OneTitle, ticket.subject # Title
                   PROVE  /\ ToApply \/ (ticket.subject # ticket.mirror /\ SendingTitle')
                          /\ \A v \in Workers :
                               sync'[v].pc \in {"comment", "stamp"} /\ sync'[v].subject = ticket.subject => ToApply
        BY <1>2, <1>5 DEF OneTitle
      <3>1. ToApply \/ ticket.subject # ticket.mirror
        BY DEF OneTitle
      <3>2. ticket.subject # ticket.mirror => SendingTitle'
        BY <1>2, <1>4, <2>1 DEF SendingTitle
      <3>3. \A v \in Workers \ {w} :
              sync'[v].pc \in {"comment", "stamp"} /\ sync'[v].subject = ticket.subject => ToApply
        BY <1>3 DEF OneTitle
      <3>4. r.pc \in {"comment", "stamp"} => ToApply
        BY <1>4, <3>1
      <3>. QED  BY <1>3, <3>1, <3>2, <3>3, <3>4
    <2>. QED  BY <1>5, <2>3, <2>4, <2>5 DEF Together
  <1>7. CASE w # "drain"
    <2>1. outbox' = outbox /\ sync'["drain"] = sync["drain"]
      BY <1>2, <1>3, <1>7, TitlesAre
    <2>2. Draining' /\ (Waiting' <=> Waiting) /\ (SendingTitle' <=> SendingTitle)
          /\ \A m : Sending(m)' <=> Sending(m)
      BY <1>2, <2>1 DEF Together, Draining, Waiting, Sending, SendingTitle
    <2>3. \A v \in Workers : InSync(v)' => sync'[v].commented \subseteq Posted
      BY <1>3, <1>4 DEF Together, SentMessages, InSync
    <2>4. SentMessages'
      BY <1>2, <1>5, <2>2, <2>3 DEF Together, SentMessages
    <2>5. OneTitle => OneTitle'
      <3> SUFFICES ASSUME OneTitle, ticket.subject # Title
                   PROVE  \A v \in Workers :
                               sync'[v].pc \in {"comment", "stamp"} /\ sync'[v].subject = ticket.subject => ToApply
        BY <1>2, <1>5, <2>2 DEF OneTitle
      <3>3. \A v \in Workers \ {w} :
              sync'[v].pc \in {"comment", "stamp"} /\ sync'[v].subject = ticket.subject => ToApply
        BY <1>3 DEF OneTitle
      <3>4. r.pc \in {"comment", "stamp"} => ToApply
        BY <1>4 DEF OneTitle
      <3>. QED  BY <1>3, <3>3, <3>4
    <2>. QED  BY <1>5, <2>2, <2>4, <2>5 DEF Together
  <1>. QED  BY <1>6, <1>7

LEMMA OneWritten ==
  ASSUME NEW S, NEW q \in Seq(S), NEW i \in DOMAIN q, NEW d, NEW r, r = [q EXCEPT ![i] = d]
  PROVE  /\ DOMAIN r = DOMAIN q /\ Len(r) = Len(q) /\ r[i] = d
         /\ \A j \in DOMAIN q \ {i} : r[j] = q[j]
  <1>1. q \in Seq(S \cup {d})
    OBVIOUS
  <1>2. r \in Seq(S \cup {d}) /\ Len(r) = Len(q)
    BY <1>1
  <1>. QED  BY <1>2

(* What a call leaves in Linear.                                           *)
LEMMA SendIssueLeaves ==
  ASSUME Typed, NEW w \in Workers, SendIssue(w)
  PROVE  Posted' = Posted /\ (Len(issues') = 1 => issues'[1].fresh)
  <1>1. PICK s, n : s = sync[w] /\ n = Len(issues)
    OBVIOUS
  <1>2. n \in Nat /\ DOMAIN issues = 1..n /\ s.issue \in 0..n /\ issues \in Seq(IssueDocs(Drafted))
    <2>1. sync[w].pc = "issue"
      BY DEF SendIssue
    <2>2. s \in SyncDocs(Drafted, Len(issues))
      BY <1>1, <2>1, Syncing
    <2>3. s.issue \in 0..n
      BY <1>1, <2>2 DEF SyncDocs
    <2>. QED  BY <1>1, <2>3, Counted DEF Typed
  <1>3. CASE s.issue = 0
    <2>1. PICK d : issues' = Append(issues, d) /\ d.fresh = TRUE /\ d.posted = [m \in Messages |-> 0]
      <3>1. PICK d : d = [title |-> s.subject, posted |-> [m \in Messages |-> 0], notes |-> {}, fresh |-> TRUE]
        OBVIOUS
      <3>2. issues' = Append(issues, d)
        BY <1>1, <1>3, <3>1 DEF SendIssue, Created
      <3>. QED  BY <3>1, <3>2
    <2>2. DOMAIN issues' = 1..(n + 1) /\ issues'[n + 1] = d /\ (\A i \in 1..n : issues'[i] = issues[i])
          /\ Len(issues') = n + 1
      BY <1>1, <1>2, <2>1
    <2>3. \A m \in Messages : d.posted[m] = 0
      BY <2>1
    <2>4. Posted' = Posted
      <3>1. \A m \in Messages : (\E i \in 1..(n + 1) : issues'[i].posted[m] > 0)
                                  <=> (\E i \in 1..n : issues[i].posted[m] > 0)
        <4> TAKE m \in Messages
        <4>1. ASSUME NEW i \in 1..(n + 1), issues'[i].posted[m] > 0
              PROVE  \E j \in 1..n : issues[j].posted[m] > 0
          <5>1. i # n + 1
            BY <2>2, <2>3, <4>1
          <5>2. i \in 1..n
            BY <1>2, <5>1
          <5>. QED  BY <2>2, <4>1, <5>2
        <4>2. ASSUME NEW i \in 1..n, issues[i].posted[m] > 0
              PROVE  \E j \in 1..(n + 1) : issues'[j].posted[m] > 0
          <5>1. i \in 1..(n + 1)
            BY <1>2
          <5>. QED  BY <2>2, <4>2, <5>1
        <4>. QED  BY <4>1, <4>2
      <3>. QED  BY <1>2, <2>2, <3>1 DEF Posted
    <2>. QED  BY <1>2, <2>1, <2>2, <2>4
  <1>4. CASE s.issue # 0
    <2>1. s.issue \in DOMAIN issues /\ issues' = Renamed(s.issue, s.subject)
      BY <1>1, <1>2, <1>4 DEF SendIssue
    <2>2. DOMAIN issues[s.issue] = {"title", "posted", "notes", "fresh"}
      <3>1. issues[s.issue] \in IssueDocs(Drafted)
        BY <1>2, <2>1
      <3>. QED  BY <3>1 DEF IssueDocs
    <2>3. PICK d : issues' = [issues EXCEPT ![s.issue] = d] /\ d.fresh = TRUE /\ d.posted = issues[s.issue].posted
      <3>1. PICK d : d = [issues[s.issue] EXCEPT !.title = s.subject, !.fresh = TRUE]
        OBVIOUS
      <3>2. d.fresh = TRUE /\ d.posted = issues[s.issue].posted
        BY <2>2, <3>1
      <3>3. issues' = [issues EXCEPT ![s.issue] = d]
        BY <2>1, <3>1 DEF Renamed
      <3>. QED  BY <3>2, <3>3
    <2>4. /\ DOMAIN issues' = DOMAIN issues /\ Len(issues') = Len(issues) /\ issues'[s.issue] = d
          /\ \A j \in DOMAIN issues \ {s.issue} : issues'[j] = issues[j]
      BY <1>2, <2>1, <2>3, OneWritten
    <2>41. \A j \in DOMAIN issues : issues'[j].posted = issues[j].posted
      BY <2>3, <2>4
    <2>5. Len(issues') = 1 => s.issue = 1
      BY <1>1, <1>2, <2>1, <2>4
    <2>. QED  BY <2>1, <2>3, <2>4, <2>41, <2>5, PostsKept
  <1>. QED  BY <1>3, <1>4

PostedOn(i, m) == issues' = [issues EXCEPT ![i].posted[m] = @ + 1, ![i].fresh = TRUE]

LEMMA SendCommentLeaves ==
  ASSUME Typed, NEW i \in DOMAIN issues, NEW m \in Messages, PostedOn(i, m)
  PROVE  Posted' = Posted \cup {m} /\ (Len(issues') = 1 => issues'[1].fresh)
  <1>1. /\ Len(issues) \in Nat /\ DOMAIN issues = 1..Len(issues) /\ issues[i] \in IssueDocs(Drafted)
        /\ issues \in Seq(IssueDocs(Drafted))
    BY Counted DEF Typed
  <1>2. PICK p : p = [issues[i].posted EXCEPT ![m] = @ + 1]
    OBVIOUS
  <1>3. /\ issues[i].posted \in [Messages -> Nat]
        /\ DOMAIN issues[i] = {"title", "posted", "notes", "fresh"}
    BY <1>1 DEF IssueDocs
  <1>4. PICK d : issues' = [issues EXCEPT ![i] = d] /\ d.fresh = TRUE /\ d.posted = p
    <2>1. PICK d : d = [issues[i] EXCEPT !.posted = p, !.fresh = TRUE]
      OBVIOUS
    <2>2. d.fresh = TRUE /\ d.posted = p
      BY <1>3, <2>1
    <2>3. issues' = [issues EXCEPT ![i] = d]
      BY <1>2, <1>3, <2>1 DEF PostedOn
    <2>. QED  BY <2>2, <2>3
  <1>5. /\ DOMAIN issues' = DOMAIN issues /\ issues'[i].posted = p /\ Len(issues') = Len(issues)
        /\ issues'[i].fresh
        /\ \A j \in DOMAIN issues \ {i} : issues'[j] = issues[j]
    <2>1. /\ DOMAIN issues' = DOMAIN issues /\ Len(issues') = Len(issues) /\ issues'[i] = d
          /\ \A j \in DOMAIN issues \ {i} : issues'[j] = issues[j]
      BY <1>1, <1>4, OneWritten
    <2>. QED  BY <1>4, <2>1
  <1>6. \A x \in Messages : p[x] > 0 <=> x = m \/ issues[i].posted[x] > 0
    BY <1>2, <1>3
  <1>7. Posted' = Posted \cup {m}
    BY <1>5, <1>6 DEF Posted
  <1>8. Len(issues') = 1 => i = 1
    BY <1>1, <1>5
  <1>. QED  BY <1>5, <1>7, <1>8

LEMMA SendKeeps ==
  ASSUME Typed, Together, NEW w \in Workers, SendIssue(w) \/ SendComment(w) \/ CallFails(w)
  PROVE  Together'
  <1>1. PICK s : s = sync[w]
    OBVIOUS
  <1>2. s \in SyncDocs(Drafted, Len(issues)) /\ s.pc \in {"issue", "comment"}
        /\ s.commented \subseteq Posted /\ (s.pc = "comment" => s.issue # 0)
    <2>1. s.pc \in {"issue", "comment"}
      BY <1>1 DEF SendIssue, SendComment, CallFails
    <2>. QED  BY <1>1, <2>1, Syncing DEF Together, SentMessages, InSync
  <1>3. UNCHANGED <<ticket, outbox, agent, inbound>>
    BY DEF SendIssue, SendComment, CallFails
  <1>4. w = "drain" => outbox.st = "queued"
    BY <1>1, <1>2 DEF Together, Draining
  <1>5. ASSUME NEW r, sync' = [sync EXCEPT ![w] = r], r.pc \in {"issue", "comment", "stamp", "fail"},
               Posted \subseteq Posted', r.commented \subseteq Posted',
               r.pc \in {"issue", "comment"} => s.todo \subseteq r.todo \cup Posted'
        PROVE  /\ Draining' /\ SentMessages'
               /\ sync'[w] = r /\ \A v \in Workers \ {w} : sync'[v] = sync[v]
               /\ w # "drain" => sync'["drain"] = sync["drain"]
    <2>1. sync'[w] = r /\ (\A v \in Workers \ {w} : sync'[v] = sync[v])
          /\ (w # "drain" => sync'["drain"] = sync["drain"])
      BY <1>5, TitlesAre
    <2>2. Draining'
      BY <1>1, <1>2, <1>3, <1>4, <1>5, <2>1 DEF Together, Draining
    <2>3. \A v \in Workers : InSync(v)' => sync'[v].commented \subseteq Posted'
      BY <1>5, <2>1 DEF Together, SentMessages, InSync
    <2>4. ASSUME NEW m \in ticket.messages \ Posted' PROVE Waiting' \/ Sending(m)'
      <3>1. Waiting \/ Sending(m)
        BY <1>5, <2>4 DEF Together, SentMessages
      <3>2. CASE w # "drain"
        BY <1>3, <2>1, <3>1, <3>2 DEF Waiting, Sending
      <3>3. CASE w = "drain"
        <4>1. agent # "idle" \/ outbox.dirty \/ m \in s.todo
          BY <1>1, <1>2, <3>1, <3>3 DEF Waiting, Sending
        <4>2. r.pc \in {"issue", "comment"} /\ m \in s.todo => m \in r.todo
          BY <1>5, <2>4
        <4>3. sync'["drain"] = r /\ outbox' = outbox /\ agent' = agent /\ outbox.st = "queued"
          BY <1>3, <1>4, <2>1, <3>3
        <4>. QED  BY <1>5, <4>1, <4>2, <4>3 DEF Waiting, Sending
      <3>. QED  BY <3>2, <3>3
    <2>5. SentMessages'
      <3>1. ticket'.commented \subseteq Posted'
        BY <1>3, <1>5 DEF Together, SentMessages
      <3>2. \A m \in ticket'.messages \ Posted' : Waiting' \/ Sending(m)'
        BY <1>3, <2>4
      <3>. QED  BY <2>3, <3>1, <3>2 DEF SentMessages
    <2>. QED  BY <2>1, <2>2, <2>5
  <1>6. CASE SendIssue(w)
    <2>1. Posted' = Posted /\ (Len(issues') = 1 => issues'[1].fresh)
      BY <1>6, SendIssueLeaves
    <2>3. PICK r : /\ sync' = [sync EXCEPT ![w] = r] /\ r.pc \in {"comment", "fail"}
                   /\ r.todo = s.todo /\ r.commented = s.commented
      BY <1>1, <1>6, IssueSent
    <2>5. Draining' /\ SentMessages'
      <3>1. /\ r.pc \in {"issue", "comment", "stamp", "fail"} /\ r.commented \subseteq Posted'
            /\ Posted \subseteq Posted' /\ s.todo \subseteq r.todo \cup Posted'
        BY <1>2, <2>1, <2>3
      <3>. QED  BY <1>5, <2>3, <3>1
    <2>. QED  BY <2>1, <2>5, FreshTitle DEF Together
  <1>7. CASE SendComment(w)
    <2>1. PICK m \in s.todo :
            /\ issues' = [issues EXCEPT ![s.issue].posted[m] = @ + 1, ![s.issue].fresh = TRUE]
            /\ \/ sync' = [sync EXCEPT ![w] = [s EXCEPT !.todo = @ \ {m}, !.commented = @ \cup {m}]]
               \/ sync' = [sync EXCEPT ![w] = [s EXCEPT !.pc = "stamp", !.failed = TRUE]]
      BY <1>1, <1>7 DEF SendComment, Put
    <2>2. s.pc = "comment"
      BY <1>1, <1>7 DEF SendComment
    <2>3. Posted' = Posted \cup {m} /\ (Len(issues') = 1 => issues'[1].fresh)
      <3>1. s.issue \in 0..Len(issues) /\ s.issue # 0 /\ m \in Messages
        BY <1>2, <2>1, <2>2 DEF SyncDocs
      <3>2. s.issue \in DOMAIN issues
        BY <3>1, Counted
      <3>. QED  BY <2>1, <3>1, <3>2, SendCommentLeaves DEF PostedOn
    <2>4. PICK r : /\ sync' = [sync EXCEPT ![w] = r]
                   /\ \/ r = [s EXCEPT !.todo = @ \ {m}, !.commented = @ \cup {m}]
                      \/ r = [s EXCEPT !.pc = "stamp", !.failed = TRUE]
      BY <2>1
    <2>5. \/ r.pc = "comment" /\ r.todo = s.todo \ {m} /\ r.commented = s.commented \cup {m}
          \/ r.pc = "stamp" /\ r.commented = s.commented
      BY <1>2, <2>2, <2>4 DEF SyncDocs
    <2>6. /\ r.pc \in {"issue", "comment", "stamp", "fail"} /\ r.commented \subseteq Posted'
          /\ r.pc \in {"issue", "comment"} => s.todo \subseteq r.todo \cup Posted'
      BY <1>2, <2>3, <2>5
    <2>7. Draining' /\ SentMessages'
      BY <1>5, <2>3, <2>4, <2>6
    <2>. QED  BY <2>3, <2>7, FreshTitle DEF Together
  <1>8. CASE CallFails(w)
    <2>1. PICK r : /\ sync' = [sync EXCEPT ![w] = r]
                   /\ r = [s EXCEPT !.pc = IF @ = "issue" THEN "fail" ELSE "stamp", !.failed = TRUE]
      BY <1>1, <1>8 DEF CallFails, Put
    <2>2. /\ r.pc = IF s.pc = "issue" THEN "fail" ELSE "stamp"
          /\ r.commented = s.commented /\ r.subject = s.subject
      BY <1>2, <2>1 DEF SyncDocs
    <2>3. issues' = issues
      BY <1>8 DEF CallFails
    <2>4. Posted' = Posted /\ (ToApply' <=> ToApply) /\ Title' = Title /\ Len(issues') = Len(issues)
      BY <1>3, <2>3 DEF Posted, ToApply, Title
    <2>5. /\ Draining' /\ SentMessages'
          /\ sync'[w] = r /\ \A v \in Workers \ {w} : sync'[v] = sync[v]
          /\ w # "drain" => sync'["drain"] = sync["drain"]
      <3>1. /\ r.pc \in {"issue", "comment", "stamp", "fail"} /\ r.commented \subseteq Posted'
            /\ Posted \subseteq Posted' /\ (r.pc \in {"issue", "comment"} => s.todo \subseteq r.todo \cup Posted')
        BY <1>2, <2>2, <2>4
      <3>. QED  BY <1>5, <2>1, <3>1
    <2>6. OneTitle => OneTitle'
      <3> SUFFICES ASSUME OneTitle, ticket.subject # Title
                   PROVE  /\ ToApply \/ (ticket.subject # ticket.mirror /\ (Waiting' \/ SendingTitle'))
                          /\ \A v \in Workers :
                               sync'[v].pc \in {"comment", "stamp"} /\ sync'[v].subject = ticket.subject => ToApply
        BY <1>3, <2>4 DEF OneTitle
      <3>1. Waiting \/ SendingTitle => Waiting' \/ SendingTitle'
        <4>1. CASE w # "drain"
          BY <1>3, <2>5, <4>1 DEF Waiting, SendingTitle
        <4>2. CASE w = "drain"
          <5>1. Waiting => Waiting'
            BY <1>1, <1>2, <1>3, <4>2 DEF Waiting
          <5>2. SendingTitle => Waiting'
            BY <1>1, <1>3, <1>4, <2>2, <2>5, <4>2 DEF Waiting, SendingTitle
          <5>. QED  BY <5>1, <5>2
        <4>. QED  BY <4>1, <4>2
      <3>2. \A v \in Workers \ {w} :
              sync'[v].pc \in {"comment", "stamp"} /\ sync'[v].subject = ticket.subject => ToApply
        BY <2>5 DEF OneTitle
      <3>3. r.pc \in {"comment", "stamp"} /\ r.subject = ticket.subject => ToApply
        BY <1>1, <1>2, <2>2 DEF OneTitle
      <3>. QED  BY <2>5, <3>1, <3>2, <3>3 DEF OneTitle
    <2>. QED  BY <2>4, <2>5, <2>6 DEF Together
  <1>. QED  BY <1>6, <1>7, <1>8

LEMMA StampKeeps ==
  ASSUME Typed, Together, NEW w \in Workers, Stamp(w)
  PROVE  Together'
  <1>1. PICK s, r : s = sync[w] /\ r = [s EXCEPT !.pc = IF s.failed THEN "fail" ELSE "done"]
    OBVIOUS
  <1>2. /\ s.pc = "stamp" \/ (s.pc = "comment" /\ s.todo = {})
        /\ agent = "idle" /\ UNCHANGED <<outbox, issues, agent, inbound>>
        /\ ticket' = [ticket EXCEPT !.issue = s.issue, !.mirror = s.subject, !.commented = s.commented]
        /\ sync' = [sync EXCEPT ![w] = r]
    BY <1>1 DEF Stamp, Goto, Unlocked
  <1>3. s \in SyncDocs(Drafted, Len(issues)) /\ s.issue # 0 /\ (s.pc = "stamp" => s.failed = TRUE)
        /\ s.commented \subseteq Posted
    BY <1>1, <1>2, Syncing DEF Together, SentMessages, InSync
  <1>4. /\ r.pc \in {"fail", "done"} /\ (s.pc = "stamp" => r.pc = "fail")
        /\ sync'[w] = r /\ \A v \in Workers \ {w} : sync'[v] = sync[v]
        /\ w # "drain" => sync'["drain"] = sync["drain"]
    BY <1>1, <1>2, <1>3, TitlesAre DEF SyncDocs
  <1>5. /\ ticket'.issue = s.issue /\ ticket'.mirror = s.subject /\ ticket'.commented = s.commented
        /\ ticket'.subject = ticket.subject /\ ticket'.messages = ticket.messages
    BY <1>2, TitlesAre
  <1>6. Posted' = Posted /\ (ToApply' <=> ToApply) /\ Title' = Title /\ Len(issues') = Len(issues)
    BY <1>2 DEF Posted, ToApply, Title
  <1>7. w = "drain" => outbox.st = "queued"
    BY <1>1, <1>2 DEF Together, Draining
  <1>8. Draining'
    BY <1>2, <1>3, <1>4, <1>5, <1>7 DEF Together, Draining
  <1>9. Waiting => Waiting'
    <2>1. CASE w # "drain"
      BY <1>2, <1>4, <2>1 DEF Waiting
    <2>2. CASE w = "drain"
      BY <1>1, <1>2, <2>2 DEF Waiting
    <2>. QED  BY <2>1, <2>2
  <1>10. SentMessages'
    <2>1. \A v \in Workers : InSync(v)' => sync'[v].commented \subseteq Posted
      BY <1>4 DEF Together, SentMessages, InSync
    <2>2. ASSUME NEW m \in ticket.messages \ Posted PROVE Waiting' \/ Sending(m)'
      <3>1. Waiting \/ Sending(m)
        BY <2>2 DEF Together, SentMessages
      <3>2. Sending(m) => Waiting' \/ Sending(m)'
        <4>1. CASE w # "drain"
          BY <1>4, <4>1 DEF Sending
        <4>2. CASE w = "drain"
          <5>1. Sending(m) => s.pc = "stamp"
            BY <1>1, <1>2, <4>2 DEF Sending
          <5>. QED  BY <1>2, <1>4, <1>7, <4>2, <5>1 DEF Waiting
        <4>. QED  BY <4>1, <4>2
      <3>. QED  BY <1>9, <3>1, <3>2
    <2>. QED  BY <1>3, <1>5, <1>6, <2>1, <2>2 DEF SentMessages
  <1>11. OneTitle => OneTitle'
    <2> SUFFICES ASSUME OneTitle, ticket.subject # Title
                 PROVE  /\ ToApply \/ (ticket.subject # s.subject /\ (Waiting' \/ SendingTitle'))
                        /\ \A v \in Workers :
                             sync'[v].pc \in {"comment", "stamp"} /\ sync'[v].subject = ticket.subject => ToApply
      BY <1>5, <1>6 DEF OneTitle
    <2>1. s.subject = ticket.subject => ToApply
      BY <1>1, <1>2 DEF OneTitle
    <2>2. ToApply \/ Waiting' \/ SendingTitle'
      <3>1. SendingTitle => SendingTitle'
        <4>1. w = "drain" => ~SendingTitle
          BY <1>1, <1>2 DEF SendingTitle
        <4>. QED  BY <1>4, <1>5, <4>1 DEF SendingTitle
      <3>. QED  BY <1>9, <3>1 DEF OneTitle
    <2>3. \A v \in Workers :
             sync'[v].pc \in {"comment", "stamp"} /\ sync'[v].subject = ticket.subject => ToApply
      BY <1>4 DEF OneTitle
    <2>. QED  BY <2>1, <2>2, <2>3
  <1>. QED  BY <1>6, <1>8, <1>10, <1>11 DEF Together

LEMMA EndKeeps ==
  ASSUME Typed, Together, NEW w \in Workers, Finish(w) \/ Retry(w), "apart" \notin excused'
  PROVE  Together'
  <1>1. UNCHANGED <<ticket, issues, agent, inbound>>
    BY DEF Finish, Retry
  <1>2. Posted' = Posted /\ (ToApply' <=> ToApply) /\ Title' = Title /\ Len(issues') = Len(issues)
    BY <1>1 DEF Posted, ToApply, Title
  <1>3. PICK r : /\ sync' = [sync EXCEPT ![w] = r] /\ r.pc \in {"idle", "giveup"}
                 /\ w = "drain" => r.pc = "idle"
    <2>1. CASE sync' = [sync EXCEPT ![w] = NoSync]
      <3>1. NoSync.pc = "idle"
        BY DEF NoSync
      <3>. QED  BY <2>1, <3>1
    <2>2. CASE Retry(w) /\ w # "drain"
      <3>1. sync' = [sync EXCEPT ![w] = NoSync]
        BY <2>2 DEF Retry, Put
      <3>2. NoSync.pc = "idle"
        BY DEF NoSync
      <3>. QED  BY <3>1, <3>2
    <2>3. CASE Retry(w) /\ w = "drain"
      <3>1. ~LastAttempt(sync[w].attempts + 1)
        BY <2>3 DEF Retry, Excuse
      <3>2. sync' = [sync EXCEPT ![w] = NoSync]
        BY <2>3, <3>1 DEF Retry, Put
      <3>3. NoSync.pc = "idle"
        BY DEF NoSync
      <3>. QED  BY <3>2, <3>3
    <2>4. Finish(w) => sync' = [sync EXCEPT ![w] = NoSync]
      BY DEF Finish, Put
    <2>. QED  BY <2>1, <2>2, <2>3, <2>4
  <1>4. sync'[w] = r /\ (\A v \in Workers \ {w} : sync'[v] = sync[v])
        /\ (w # "drain" => sync'["drain"] = sync["drain"])
    BY <1>3, TitlesAre
  <1>5. w # "drain" => outbox' = outbox
    BY DEF Finish, Retry
  <1>6. ASSUME Draining', ticket.messages # {} => \A m \in ticket.messages \ Posted : Waiting' \/ Sending(m)',
               Waiting \/ SendingTitle => Waiting' \/ SendingTitle'
        PROVE  Together'
    <2>1. \A v \in Workers : InSync(v)' => sync'[v].commented \subseteq Posted
      BY <1>3, <1>4 DEF Together, SentMessages, InSync
    <2>2. SentMessages'
      BY <1>1, <1>2, <1>6, <2>1 DEF Together, SentMessages
    <2>3. OneTitle => OneTitle'
      BY <1>1, <1>2, <1>3, <1>4, <1>6 DEF OneTitle
    <2>. QED  BY <1>2, <1>6, <2>2, <2>3 DEF Together
  <1>7. CASE w # "drain"
    <2>1. outbox' = outbox /\ sync'["drain"] = sync["drain"]
      BY <1>4, <1>5, <1>7
    <2>2. Draining' /\ (Waiting' <=> Waiting) /\ (SendingTitle' <=> SendingTitle)
          /\ \A m : Sending(m)' <=> Sending(m)
      BY <1>1, <2>1 DEF Together, Draining, Waiting, Sending, SendingTitle
    <2>. QED  BY <1>6, <2>2 DEF Together, SentMessages
  <1>8. CASE w = "drain" /\ Finish(w)
    <2>1. /\ sync["drain"].pc = "done" /\ outbox' = NoRow /\ ~outbox.dirty
      BY <1>8 DEF Finish, Excuse
    <2>2. outbox'.st = "none" /\ sync'["drain"].pc = "idle"
      BY <1>3, <1>4, <1>8, <2>1 DEF NoRow
    <2>3. Draining'
      BY <1>1, <2>1, <2>2 DEF Together, Draining
    <2>4. Waiting => Waiting'
      BY <1>1, <2>1 DEF Waiting
    <2>5. ~SendingTitle /\ \A m : ~Sending(m)
      BY <2>1 DEF SendingTitle, Sending
    <2>. QED  BY <1>6, <2>3, <2>4, <2>5 DEF Together, SentMessages
  <1>9. CASE w = "drain" /\ Retry(w)
    <2>1. ~LastAttempt(sync[w].attempts + 1) /\ sync["drain"].pc = "fail"
      BY <1>9 DEF Retry, Excuse
    <2>2. outbox' = [outbox EXCEPT !.st = "queued", !.attempts = sync[w].attempts + 1]
      BY <1>9, <2>1 DEF Retry
    <2>3. outbox'.st = "queued" /\ sync'["drain"].pc = "idle"
      <3>1. {"st", "attempts", "dirty"} = DOMAIN outbox
        BY DEF Typed, RowTyped
      <3>. QED  BY <1>3, <1>4, <1>9, <2>2, <3>1
    <2>4. agent # "create"
      BY <2>1 DEF Together, Draining
    <2>5. Draining' /\ Waiting'
      BY <1>1, <2>3, <2>4 DEF Draining, Waiting
    <2>. QED  BY <1>6, <2>5
  <1>. QED  BY <1>7, <1>8, <1>9

-----------------------------------------------------------------------------
(* The developers and what comes in.                                       *)
LEMMA RemoteKeeps ==
  ASSUME Typed, Together, Rename \/ WriteNote \/ LoseHook
  PROVE  Together'
  <1>1. UNCHANGED <<ticket, sync, outbox, agent, inbound>>
    BY DEF Rename, WriteNote, LoseHook
  <1>2. CASE LoseHook
    <2>1. issues' = issues
      BY <1>2 DEF LoseHook
    <2>2. Posted' = Posted /\ (ToApply' <=> ToApply) /\ Title' = Title /\ Len(issues') = Len(issues)
      BY <1>1, <2>1 DEF Posted, ToApply, Title
    <2>. QED  BY <1>1, <2>2, SentElsewhere, TitleElsewhere DEF Together
  <1>3. ASSUME NEW i \in DOMAIN issues, NEW d, issues' = [issues EXCEPT ![i] = d], d.fresh = TRUE,
               d.posted = issues[i].posted
        PROVE  Together'
    <2>1. Len(issues) \in Nat /\ DOMAIN issues = 1..Len(issues) /\ issues \in Seq(IssueDocs(Drafted))
      BY Counted DEF Typed
    <2>2. /\ DOMAIN issues' = DOMAIN issues /\ Len(issues') = Len(issues) /\ issues'[i] = d
          /\ \A j \in DOMAIN issues \ {i} : issues'[j] = issues[j]
      BY <1>3, <2>1, OneWritten
    <2>3. \A j \in DOMAIN issues : issues'[j].posted = issues[j].posted
      BY <1>3, <2>2
    <2>4. Posted' = Posted
      BY <2>2, <2>3, PostsKept
    <2>5. Len(issues') = 1 => issues'[1].fresh
      <3>1. Len(issues') = 1 => i = 1
        BY <2>1, <2>2
      <3>. QED  BY <1>3, <2>2, <3>1
    <2>. QED  BY <1>1, <2>4, <2>5, SentElsewhere, FreshTitle DEF Together
  <1>4. \A i \in DOMAIN issues : DOMAIN issues[i] = {"title", "posted", "notes", "fresh"}
    <2> TAKE i \in DOMAIN issues
    <2>1. issues[i] \in IssueDocs(Drafted)
      BY DEF Typed
    <2>. QED  BY <2>1 DEF IssueDocs
  <1>5. CASE Rename
    <2>1. PICK i \in DOMAIN issues : issues' = Renamed(i, NewTitle)
      BY <1>5 DEF Rename
    <2>2. PICK d : d = [issues[i] EXCEPT !.title = NewTitle, !.fresh = TRUE]
      OBVIOUS
    <2>3. d.fresh = TRUE /\ d.posted = issues[i].posted
      BY <1>4, <2>2
    <2>4. issues' = [issues EXCEPT ![i] = d]
      BY <2>1, <2>2 DEF Renamed
    <2>. QED  BY <1>3, <2>3, <2>4
  <1>6. CASE WriteNote
    <2>1. PICK i \in DOMAIN issues, c \in Notes : issues' = [issues EXCEPT ![i].notes = @ \cup {c}, ![i].fresh = TRUE]
      BY <1>6 DEF WriteNote
    <2>2. PICK d : d = [issues[i] EXCEPT !.notes = @ \cup {c}, !.fresh = TRUE]
      OBVIOUS
    <2>3. d.fresh = TRUE /\ d.posted = issues[i].posted
      BY <1>4, <2>2
    <2>4. issues' = [issues EXCEPT ![i] = d]
      BY <2>1, <2>2
    <2>. QED  BY <1>3, <2>3, <2>4
  <1>. QED  BY <1>2, <1>5, <1>6

(* A delivery opened: while it is passed over there was nothing to apply.  *)
LEMMA OpenKeeps ==
  ASSUME Typed, Together, NEW h \in Handlers, NEW q \in Queues(Drafted, Len(issues)), NEW read,
         Open(h, q, read), issues' = issues, "apart" \notin excused',
         h = "reconcile" => inbound[h].pc = "next" /\ inbound[h].queue = q
  PROVE  Together'
  <1>1. UNCHANGED <<ticket, sync, outbox, agent, issues>>
    BY DEF Open
  <1>2. Posted' = Posted /\ Title' = Title /\ Len(issues') = Len(issues)
    BY <1>1 DEF Posted, Title
  <1>3. ASSUME Len(issues) = 1, ticket.subject # Title, ToApply PROVE ToApply'
    <2>1. CASE issues[1].fresh
      BY <1>1, <2>1 DEF ToApply
    <2>2. CASE h # "reconcile"
      <3>1. inbound'["reconcile"] = inbound["reconcile"]
        BY <2>2 DEF Open, Go, Typed, Handlers
      <3>. QED  BY <1>1, <1>2, <1>3, <3>1 DEF ToApply
    <2>3. CASE h = "reconcile" /\ ~issues[1].fresh
      <3>1. Head(q) = Issue(1, Title) /\ q \in Seq(Deliveries(Drafted, 1)) /\ q # <<>>
        BY <1>3, <2>3 DEF ToApply, Queues
      <3>2. Head(q).kind = "issue" /\ Head(q).issue = 1 /\ Head(q).title = Title
        BY <3>1 DEF Issue
      <3>3. Head(q).issue = ticket.issue
        <4>1. Head(q) \in ToSet(q) /\ SaysNews(Head(q))
          BY <1>3, <3>1, <3>2 DEF SaysNews, ToSet
        <4>. QED  BY <4>1 DEF Open
      <3>4. PICK pc : /\ inbound' = [inbound EXCEPT ![h] = With(pc, q, read, ticket.subject)]
                      /\ pc \in {"stamp", "patch"}
        BY <3>2, <3>3 DEF Open, Go
      <3>5. inbound'["reconcile"] = With(pc, q, read, ticket.subject)
        BY <2>3, <3>4 DEF Typed, Handlers
      <3>6. /\ With(pc, q, read, ticket.subject).pc = pc /\ With(pc, q, read, ticket.subject).queue = q
            /\ With(pc, q, read, ticket.subject).known = ticket.subject
        BY DEF With
      <3>. QED  BY <1>2, <1>3, <3>1, <3>4, <3>5, <3>6 DEF ToApply
    <2>. QED  BY <2>1, <2>2, <2>3
  <1>4. Draining' /\ SentMessages'
    BY <1>1, <1>2, SentElsewhere DEF Together
  <1>5. Len(issues) = 1 /\ OneTitle => OneTitle'
    BY <1>1, <1>2, <1>3, TitleElsewhere
  <1>. QED  BY <1>2, <1>4, <1>5 DEF Together

LEMMA ReadingKeeps ==
  ASSUME Typed, Together, Take \/ Reconcile \/ ReconcileNext, "apart" \notin excused'
  PROVE  Together'
  <1>1. CASE Take
    <2>1. PICK d \in hooks : Open("webhook", <<d>>, {})
      BY <1>1 DEF Take
    <2>2. <<d>> \in Queues(Drafted, Len(issues))
      <3>1. d \in Deliveries(Drafted, Len(issues))
        BY DEF Typed
      <3>. QED  BY <3>1 DEF Queues
    <2>3. "webhook" \in Handlers /\ issues' = issues
      BY <1>1 DEF Take, Handlers
    <2>. QED  BY <2>1, <2>2, <2>3, OpenKeeps
  <1>2. CASE ReconcileNext
    <2>1. "reconcile" \in Handlers /\ issues' = issues /\ inbound["reconcile"].pc = "next"
          /\ Open("reconcile", inbound["reconcile"].queue, inbound["reconcile"].read)
      BY <1>2 DEF Handlers, ReconcileNext
    <2>2. inbound["reconcile"].queue \in Queues(Drafted, Len(issues))
      <3>1. InboundTyped(inbound["reconcile"], "reconcile", Drafted, Len(issues))
        BY <2>1 DEF Typed
      <3>2. inbound["reconcile"].pc # "idle"
        BY <2>1
      <3>. QED  BY <3>1, <3>2, InHand, Counted
    <2>. QED  BY <2>1, <2>2, OpenKeeps
  <1>3. CASE Reconcile
    <2>1. PICK S : S = {i \in DOMAIN issues : issues[i].fresh}
      OBVIOUS
    <2>2. /\ S # {} /\ inbound' = [inbound EXCEPT !["reconcile"] = [pc |-> "next", read |-> S, queue |-> AllOf(S)]]
          /\ issues' = [i \in DOMAIN issues |-> [issues[i] EXCEPT !.fresh = FALSE]]
          /\ UNCHANGED <<ticket, outbox, agent, sync>>
      BY <1>3, <2>1 DEF Reconcile, Go, AllOf
    <2>3. /\ DOMAIN issues' = DOMAIN issues /\ Len(issues') = Len(issues)
          /\ \A i \in DOMAIN issues : issues'[i].posted = issues[i].posted /\ issues'[i].title = issues[i].title
      <3>1. issues \in Seq(IssueDocs(Drafted)) /\ Len(issues) \in Nat /\ DOMAIN issues = 1..Len(issues)
        BY Counted DEF Typed
      <3>2. \A i \in DOMAIN issues : DOMAIN issues[i] = {"title", "posted", "notes", "fresh"}
        <4> TAKE i \in DOMAIN issues
        <4>1. issues[i] \in IssueDocs(Drafted)
          BY <3>1
        <4>. QED  BY <4>1 DEF IssueDocs
      <3>3. DOMAIN issues' = DOMAIN issues
        BY <2>2
      <3>4. Len(issues') = Len(issues)
        BY <3>1, <3>3, ReconcileTypes, <1>3, Counted DEF Typed
      <3>. QED  BY <2>2, <3>2, <3>3, <3>4
    <2>4. Posted' = Posted
      BY <2>3, PostsKept
    <2>5. Len(issues) = 1 => ToApply' /\ Title' = Title
      <3> SUFFICES ASSUME Len(issues) = 1 PROVE ToApply' /\ Title' = Title
        OBVIOUS
      <3>1. DOMAIN issues = {1} /\ 1 \in DOMAIN issues
        BY Counted
      <3>2. S = {1}
        BY <2>1, <2>2, <3>1
      <3>3. Title' = Title
        BY <2>3, <3>1 DEF Title
      <3>4. AllOf({1}) = DeliveriesOf(1) /\ Head(DeliveriesOf(1)) = Issue(1, Title)
        BY <3>1, OneRead, IssueReads DEF Title
      <3>5. inbound'["reconcile"] = [pc |-> "next", read |-> S, queue |-> AllOf(S)]
        BY <2>2 DEF Typed, Handlers
      <3>6. inbound'["reconcile"].pc = "next" /\ Head(inbound'["reconcile"].queue) = Issue(1, Title)
        BY <3>2, <3>4, <3>5
      <3>. QED  BY <3>3, <3>6 DEF ToApply
    <2>6. Draining' /\ SentMessages'
      BY <2>2, <2>4, SentElsewhere DEF Together
    <2>7. Len(issues) = 1 /\ OneTitle => OneTitle'
      BY <2>2, <2>5, TitleElsewhere
    <2>. QED  BY <2>3, <2>6, <2>7 DEF Together
  <1>. QED  BY <1>1, <1>2, <1>3

(* A delivery applied: what is applied and stamped is the issue's title.   *)
LEMMA ApplyKeeps ==
  ASSUME Typed, Together, NEW h \in Handlers, Inbound(h), "apart" \notin excused'
  PROVE  Together'
  <1>1. UNCHANGED <<sync, outbox, agent, issues>> /\ ~ApplyFails(h)
    BY DEF Inbound, Patch, StampMirror, StampSeen, Tell, ApplyFails
  <1>2. Posted' = Posted /\ Title' = Title /\ Len(issues') = Len(issues)
    BY <1>1 DEF Posted, Title
  <1>3. /\ ticket'.messages = ticket.messages /\ ticket'.commented = ticket.commented /\ ticket'.issue = ticket.issue
        /\ ~Patch(h) => ticket'.subject = ticket.subject
        /\ ~StampMirror(h) => ticket'.mirror = ticket.mirror
    BY <1>1, TitlesAre DEF Inbound, Patch, StampMirror, StampSeen, Tell
  <1>4. Draining' /\ SentMessages'
    BY <1>1, <1>2, <1>3, SentElsewhere DEF Together
  <1>5. inbound[h].pc \in {"patch", "stamp", "seen", "tell"}
    BY <1>1 DEF Inbound, Patch, StampMirror, StampSeen, Tell
  <1>6. Len(issues) = 1 => issues[Delivery(h).issue].title = Title
    <2>1. InboundTyped(inbound[h], h, Drafted, Len(issues)) /\ inbound[h].pc # "idle"
      BY <1>5 DEF Typed
    <2>2. inbound[h].queue \in Queues(Drafted, Len(issues))
      BY <2>1, InHand, Counted
    <2>3. Delivery(h).issue \in 1..Len(issues)
      BY <2>2, QueueTyped, Counted DEF Delivery
    <2>4. Len(issues) = 1 => Delivery(h).issue = 1
      BY <2>3
    <2>. QED  BY <2>4 DEF Title
  <1>7. ASSUME h # "reconcile" \/ (~Patch(h) /\ (StampMirror(h) => inbound[h].known = Title)), ToApply PROVE ToApply'
    <2>1. CASE issues[1].fresh
      BY <1>1, <2>1 DEF ToApply
    <2>2. CASE h # "reconcile"
      <3>1. inbound'["reconcile"] = inbound["reconcile"]
        BY <1>1, <2>2 DEF Inbound, Patch, StampMirror, StampSeen, Tell, Go, Typed, Handlers
      <3>. QED  BY <1>1, <1>2, <1>7, <3>1 DEF ToApply
    <2>3. CASE h = "reconcile" /\ ~issues[1].fresh
      <3>1. StampMirror(h)
        BY <1>1, <1>7, <2>3 DEF ToApply, Inbound, StampSeen, Tell
      <3>2. inbound[h].pc = "stamp" /\ inbound[h].known = Title
        BY <1>7, <2>3, <3>1 DEF StampMirror
      <3>. QED  BY <1>7, <2>3, <3>2 DEF ToApply
    <2>. QED  BY <2>1, <2>2, <2>3
  <1>8. Len(issues) = 1 /\ OneTitle => OneTitle'
    <2> SUFFICES ASSUME Len(issues) = 1, OneTitle PROVE OneTitle'
      OBVIOUS
    <2>1. CASE Patch(h)
      <3>1. ticket'.subject = Title
        BY <1>6, <2>1, TitlesAre DEF Patch, Excuse
      <3>. QED  BY <1>2, <3>1 DEF OneTitle
    <2>2. CASE StampMirror(h)
      <3>1. inbound[h].known = Title
        BY <1>6, <2>2 DEF StampMirror, Excuse
      <3>2. ticket'.mirror = Title
        BY <2>2, <3>1, TitlesAre DEF StampMirror
      <3>3. ~Patch(h)
        BY <2>2 DEF Patch, StampMirror
      <3>4. ticket'.subject = ticket.subject /\ (ToApply => ToApply')
        BY <1>3, <1>7, <3>1, <3>3
      <3>5. (Waiting' <=> Waiting) /\ (SendingTitle' <=> SendingTitle)
        BY <1>1, <3>4 DEF Waiting, SendingTitle
      <3>. QED  BY <1>1, <1>2, <3>2, <3>4, <3>5 DEF OneTitle
    <2>3. CASE ~Patch(h) /\ ~StampMirror(h)
      <3>1. ToApply => ToApply'
        BY <1>7, <2>3
      <3>. QED  BY <1>1, <1>2, <1>3, <2>3, <3>1, TitleElsewhere
    <2>. QED  BY <2>1, <2>2, <2>3
  <1>. QED  BY <1>2, <1>4, <1>8 DEF Together

(* A stop: the row is still there, and what was being read is read again.  *)
LEMMA RestartKeeps ==
  ASSUME Typed, Together, Restart, "apart" \notin excused'
  PROVE  Together'
  <1>1. UNCHANGED <<ticket, outbox>> /\ agent = "idle" /\ agent' = "idle"
    BY DEF Restart
  <1>2. \A w \in Workers : sync'[w].pc = "idle"
    BY DEF Restart, NoSync
  <1>3. issues' = [i \in DOMAIN issues |-> [issues[i] EXCEPT !.fresh = @ \/ i \in inbound["reconcile"].read]]
    BY DEF Restart
  <1>4. /\ issues \in Seq(IssueDocs(Drafted)) /\ Len(issues) \in Nat /\ DOMAIN issues = 1..Len(issues)
        /\ \A i \in DOMAIN issues : DOMAIN issues[i] = {"title", "posted", "notes", "fresh"}
    <2>1. issues \in Seq(IssueDocs(Drafted)) /\ Len(issues) \in Nat /\ DOMAIN issues = 1..Len(issues)
      BY Counted DEF Typed
    <2>2. \A i \in DOMAIN issues : DOMAIN issues[i] = {"title", "posted", "notes", "fresh"}
      <3> TAKE i \in DOMAIN issues
      <3>1. issues[i] \in IssueDocs(Drafted)
        BY <2>1
      <3>. QED  BY <3>1 DEF IssueDocs
    <2>. QED  BY <2>1, <2>2
  <1>5. /\ DOMAIN issues' = DOMAIN issues /\ Len(issues') = Len(issues)
        /\ \A i \in DOMAIN issues : /\ issues'[i].posted = issues[i].posted /\ issues'[i].title = issues[i].title
                                    /\ issues'[i].fresh = (issues[i].fresh \/ i \in inbound["reconcile"].read)
    <2>1. DOMAIN issues' = DOMAIN issues
      BY <1>3
    <2>2. Len(issues') = Len(issues)
      BY <1>4, <2>1, RestartTypes, Counted DEF Typed
    <2>. QED  BY <1>3, <1>4, <2>1, <2>2
  <1>6. Posted' = Posted
    BY <1>5, PostsKept
  <1>7. "drain" \in Workers
    BY DEF Workers
  <1>8. outbox.st = "queued" => Waiting'
    BY <1>1, <1>2, <1>7 DEF Waiting
  <1>9. (Waiting \/ SendingTitle => Waiting') /\ \A m : Sending(m) => Waiting'
    BY <1>1, <1>8 DEF Waiting, Sending, SendingTitle, Together, Draining
  <1>10. Draining' /\ SentMessages'
    BY <1>1, <1>2, <1>6, <1>7, <1>9 DEF Together, Draining, SentMessages, InSync
  <1>11. Len(issues) = 1 => Title' = Title /\ (ToApply => ToApply')
    <2> SUFFICES ASSUME Len(issues) = 1 PROVE Title' = Title /\ (ToApply => ToApply')
      OBVIOUS
    <2>1. 1 \in DOMAIN issues
      BY <1>4
    <2>2. inbound["reconcile"].pc # "idle" => 1 \in inbound["reconcile"].read
      <3>1. InboundTyped(inbound["reconcile"], "reconcile", Drafted, Len(issues))
        BY DEF Typed, Handlers
      <3>2. inbound["reconcile"].pc # "idle" => inbound["reconcile"].read \in Reads("reconcile", Len(issues))
        BY <3>1, InHand, Counted
      <3>. QED  BY <3>2 DEF Reads
    <2>3. ToApply => issues[1].fresh \/ inbound["reconcile"].pc # "idle"
      BY DEF ToApply
    <2>. QED  BY <1>5, <2>1, <2>2, <2>3 DEF Title, ToApply
  <1>12. Len(issues) = 1 /\ OneTitle => OneTitle'
    BY <1>1, <1>2, <1>9, <1>11 DEF OneTitle
  <1>. QED  BY <1>5, <1>10, <1>12 DEF Together

TogetherInv == "apart" \notin excused => Together

LEMMA TogetherStep ==
  ASSUME Typed, TogetherInv, Next
  PROVE  TogetherInv'
  <1> SUFFICES ASSUME "apart" \notin excused' PROVE Together'
    BY DEF TogetherInv
  <1>1. Together
    BY ExcusedStays DEF TogetherInv
  <1>2. ASSUME NEW w \in Workers, Sync(w) PROVE Together'
    BY <1>1, <1>2, StartKeeps, SendKeeps, StampKeeps, EndKeeps DEF Sync
  <1>3. ~GiveUp
    BY <1>1 DEF GiveUp, Together, Draining
  <1>. QED  BY <1>1, <1>2, <1>3, AgentKeeps, RemoteKeeps, ReadingKeeps, ApplyKeeps, RestartKeeps DEF Next

(* Until something is given away, a difference between the ticket and its  *)
(* issue is always in somebody's hands: the row's, a worker's, a reader's. *)
THEOREM TogetherHolds == Spec => [](Typed /\ TogetherInv)
  <1>1. Init => TogetherInv
    <2> SUFFICES ASSUME Init PROVE Together
      BY DEF TogetherInv
    <2>1. Draining /\ SentMessages
      BY DEF Init, Draining, SentMessages, NoSync, NewRow, InSync, Workers
    <2>. QED  BY <2>1 DEF Together, Init
  <1>2. Typed /\ TogetherInv /\ [Next]_vars => (Typed /\ TogetherInv)'
    <2> SUFFICES ASSUME Typed, TogetherInv, [Next]_vars PROVE Typed' /\ TogetherInv'
      OBVIOUS
    <2>1. CASE Next
      BY <2>1, TypedStep, TogetherStep
    <2>2. CASE UNCHANGED vars
      <3>1. (ToApply' <=> ToApply) /\ Title' = Title /\ Posted' = Posted
        BY <2>2 DEF vars, ToApply, Title, Posted
      <3>2. TogetherInv'
        BY <2>2, <3>1, SentElsewhere, TitleElsewhere DEF vars, TogetherInv, Together
      <3>. QED  BY <3>2, TypedStep
    <2>. QED  BY <2>1, <2>2
  <1>. QED  BY <1>1, <1>2, InitTyped, PTL DEF Spec

(* ... so at rest both sides have one subject and each message a comment.  *)
THEOREM AgreeAtRestHolds == Spec => []AgreeAtRest
  <1>1. Typed /\ TogetherInv => AgreeAtRest
    <2> SUFFICES ASSUME Typed, TogetherInv, AtRest, Len(issues) = 1, "apart" \notin excused
                 PROVE  /\ ticket.issue = 1 /\ ticket.subject = issues[1].title
                        /\ \A m \in ticket.messages : issues[1].posted[m] > 0
      BY DEF AgreeAtRest
    <2>1. Together
      BY DEF TogetherInv
    <2>2. /\ outbox.st = "none" /\ agent = "idle" /\ sync["drain"].pc = "idle"
          /\ inbound["reconcile"].pc = "idle" /\ ~issues[1].fresh /\ DOMAIN issues = {1}
      BY Counted DEF AtRest, Workers, Handlers
    <2>3. ~ToApply /\ ~Waiting /\ ~SendingTitle /\ \A m : ~Sending(m)
      BY <2>2 DEF ToApply, Waiting, SendingTitle, Sending
    <2>4. ticket.issue = 1
      <3>1. ticket.issue \in 0..1
        BY DEF Typed, Tickets
      <3>2. ticket.issue # 0
        BY <2>1, <2>2 DEF Together, Draining
      <3>. QED  BY <3>1, <3>2
    <2>5. ticket.subject = issues[1].title
      BY <2>1, <2>3 DEF Together, OneTitle, Title
    <2>6. \A m \in ticket.messages : issues[1].posted[m] > 0
      BY <2>1, <2>2, <2>3 DEF Together, SentMessages, Posted
    <2>. QED  BY <2>4, <2>5, <2>6
  <1>. QED  BY <1>1, TogetherHolds, PTL

-----------------------------------------------------------------------------
(* What the developers wrote.  A note that is remembered, on the ticket or *)
(* in a copy that will be written on it, was told or is about to be; any   *)
(* other one is still to be read.                                          *)
Said(c) == told[c] > 0 \/ \E h \in Handlers : Telling(h, c)
Remembering(c) ==
    \/ c \in ticket.seen
    \/ \E h \in Handlers : inbound[h].pc = "seen" /\ c \in inbound[h].known
    \/ sync["drain"].pc \in {"again", "put"} /\ c \in sync["drain"].copy.seen
Queued(c) ==
    LET r == inbound["reconcile"]
    IN  r.pc # "idle" /\ \E k \in DOMAIN r.queue : r.queue[k] = Comment(1, c)
NotesHeard ==
    /\ \A c \in Notes : Remembering(c) => Said(c)
    /\ Len(issues) = 1 => \A c \in issues[1].notes : Said(c) \/ issues[1].fresh \/ Queued(c)

LEMMA HeardElsewhere ==
  ASSUME NotesHeard, UNCHANGED <<inbound, told>>,
         \A c \in Notes : Remembering(c)' => Remembering(c),
         Len(issues') = 1 =>
           \/ issues'[1].fresh
           \/ Len(issues) = 1 /\ issues'[1].notes = issues[1].notes /\ issues'[1].fresh = issues[1].fresh
  PROVE  NotesHeard'
  <1>1. \A c : (Said(c)' <=> Said(c)) /\ (Queued(c)' <=> Queued(c))
    BY DEF Said, Telling, Delivery, Queued
  <1>. QED  BY <1>1 DEF NotesHeard

LEMMA HandlerHears ==
  ASSUME Typed, NotesHeard, NEW h \in Handlers, NEW r, inbound' = [inbound EXCEPT ![h] = r],
         UNCHANGED <<sync, issues>>,
         \A c \in Notes : told[c] > 0 \/ Telling(h, c) => told'[c] > 0 \/ Telling(h, c)',
         \A c \in Notes : c \in ticket'.seen => Remembering(c) \/ Telling(h, c)',
         r.pc = "seen" => r.known \subseteq ticket.seen,
         h = "reconcile" /\ Len(issues) = 1 =>
            \A c \in Notes : Queued(c) => Queued(c)' \/ Remembering(c) \/ told'[c] > 0 \/ Telling(h, c)'
  PROVE  NotesHeard'
  <1>1. inbound'[h] = r /\ \A g \in Handlers \ {h} : inbound'[g] = inbound[g]
    BY DEF Typed
  <1>2. \A c \in Notes : Said(c) => Said(c)'
    BY <1>1 DEF Said, Telling, Delivery
  <1>3. \A c \in Notes : Remembering(c)' => Remembering(c) \/ Telling(h, c)'
    BY <1>1 DEF Remembering
  <1>4. \A c \in Notes : Remembering(c)' => Said(c)'
    BY <1>2, <1>3 DEF NotesHeard, Said
  <1>5. ASSUME Len(issues) = 1, NEW c \in issues[1].notes PROVE (Said(c) \/ issues[1].fresh \/ Queued(c))'
    <2>1. c \in Notes
      <3>1. 1 \in DOMAIN issues
        BY <1>5, Counted
      <3>2. issues[1] \in IssueDocs(Drafted)
        BY <3>1 DEF Typed
      <3>3. issues[1].notes \subseteq Notes
        BY <3>2 DEF IssueDocs
      <3>. QED  BY <1>5, <3>3
    <2>2. Said(c) \/ issues[1].fresh \/ Queued(c)
      BY <1>5 DEF NotesHeard
    <2>3. Queued(c) => Queued(c)' \/ Said(c)'
      <3>1. CASE h # "reconcile"
        BY <1>1, <3>1 DEF Queued, Handlers
      <3>2. CASE h = "reconcile"
        BY <1>2, <1>5, <2>1, <3>2 DEF NotesHeard, Said
      <3>. QED  BY <3>1, <3>2
    <2>. QED  BY <1>2, <2>1, <2>2, <2>3
  <1>. QED  BY <1>4, <1>5 DEF NotesHeard

LEMMA TailHas ==
  ASSUME NEW S, NEW q \in Seq(S), q # <<>>, NEW k \in DOMAIN q, q[k] # Head(q), NEW read
  PROVE  /\ Proceed(Tail(q), read).pc = "next" /\ Proceed(Tail(q), read).queue = Tail(q)
         /\ \E j \in DOMAIN Tail(q) : Tail(q)[j] = q[k]
  <1>1. k \in 1..Len(q) /\ k # 1 /\ Len(q) \in Nat
    OBVIOUS
  <1>2. k - 1 \in 1..Len(Tail(q)) /\ Tail(q)[k - 1] = q[k] /\ Tail(q) # <<>> /\ k - 1 \in DOMAIN Tail(q)
    BY <1>1
  <1>. QED  BY <1>2 DEF Proceed

(* The delivery in hand is done with: the others are still to be read.     *)
LEMMA DoneQueued ==
  ASSUME Typed, NEW h \in Handlers, inbound[h].pc # "idle",
         inbound' = [inbound EXCEPT ![h] = Done(h)], h = "reconcile"
  PROVE  \A c : Queued(c) /\ Delivery(h) # Comment(1, c) => Queued(c)'
  <1> SUFFICES ASSUME NEW c, Queued(c), Delivery(h) # Comment(1, c) PROVE Queued(c)'
    OBVIOUS
  <1>1. InboundTyped(inbound[h], h, Drafted, Len(issues))
    BY DEF Typed
  <1>2. inbound[h].queue \in Queues(Drafted, Len(issues))
    BY <1>1, InHand, Counted
  <1>3. PICK q : q = inbound[h].queue
    OBVIOUS
  <1>4. q \in Seq(Deliveries(Drafted, Len(issues))) /\ q # <<>>
    BY <1>2, <1>3 DEF Queues
  <1>5. PICK k \in DOMAIN q : q[k] = Comment(1, c)
    BY <1>3 DEF Queued
  <1>6. Head(q) # q[k]
    BY <1>3, <1>5 DEF Delivery
  <1>7. /\ Done(h).pc = "next" /\ Done(h).queue = Tail(q)
        /\ \E j \in DOMAIN Tail(q) : Tail(q)[j] = q[k]
    <2>1. PICK read : Done(h) = Proceed(Tail(q), read)
      BY <1>3 DEF Done
    <2>2. /\ Proceed(Tail(q), read).pc = "next" /\ Proceed(Tail(q), read).queue = Tail(q)
          /\ \E j \in DOMAIN Tail(q) : Tail(q)[j] = q[k]
      BY <1>4, <1>6, TailHas
    <2>. QED  BY <2>1, <2>2
  <1>8. inbound'["reconcile"] = Done(h)
    BY DEF Typed
  <1>. QED  BY <1>5, <1>7, <1>8 DEF Queued

LEMMA OpenHears ==
  ASSUME Typed, NotesHeard, NEW h \in Handlers, NEW q \in Queues(Drafted, Len(issues)), NEW read,
         Open(h, q, read), issues' = issues, "untold" \notin excused', inbound[h].pc \in {"idle", "next"},
         h = "reconcile" => inbound[h].pc = "next" /\ inbound[h].queue = q /\ inbound[h].read = read
  PROVE  NotesHeard'
  <1>1. UNCHANGED <<ticket, sync, told, issues>>
    BY DEF Open
  <1>2. q \in Seq(Deliveries(Drafted, Len(issues))) /\ q # <<>>
    BY DEF Queues
  <1>3. ASSUME NEW r, inbound' = [inbound EXCEPT ![h] = r], r.pc \in {"idle", "next", "stamp", "patch", "seen"},
               r.pc = "seen" => r.known = ticket.seen,
               h = "reconcile" /\ Len(issues) = 1 => \A c \in Notes : Queued(c) => Queued(c)' \/ Remembering(c)
        PROVE  NotesHeard'
    <2>1. inbound'[h] = r
      BY <1>3 DEF Typed
    <2>2. \A c \in Notes : ~Telling(h, c) /\ told'[c] = told[c]
      BY <1>1 DEF Telling
    <2>3. \A c \in Notes : c \in ticket'.seen => Remembering(c)
      BY <1>1 DEF Remembering
    <2>. QED  BY <1>1, <1>3, <2>2, <2>3, HandlerHears
  <1>4. CASE Go(h, Proceed(OtherIssues(q), read)) /\ Head(q).issue # ticket.issue
    <2>1. PICK r : r = Proceed(OtherIssues(q), read)
      OBVIOUS
    <2>2. inbound' = [inbound EXCEPT ![h] = r] /\ r.pc \in {"idle", "next"}
      BY <1>4, <2>1, ProceedShape DEF Go
    <2>3. ASSUME h = "reconcile", Len(issues) = 1, NEW c \in Notes, Queued(c) PROVE FALSE
      <3>1. PICK k \in DOMAIN q : q[k] = Comment(1, c)
        BY <2>3 DEF Queued
      <3>2. Head(q).issue = 1
        <4>1. Head(q).issue \in 1..Len(issues)
          BY QueueTyped, Counted
        <4>. QED  BY <2>3, <4>1
      <3>3. q[k] \in ToSet(q) /\ q[k].issue = 1 /\ SaysNews(q[k])
        BY <2>3, <3>1 DEF SaysNews, Comment, ToSet
      <3>. QED  BY <1>4, <3>2, <3>3 DEF Open
    <2>. QED  BY <1>3, <2>2, <2>3
  <1>5. ASSUME NEW pc \in {"stamp", "patch", "seen"}, NEW known, pc = "seen" => known = ticket.seen,
               Go(h, With(pc, q, read, known))
        PROVE  NotesHeard'
    <2>1. PICK r : r = With(pc, q, read, known)
      OBVIOUS
    <2>2. inbound' = [inbound EXCEPT ![h] = r] /\ r.pc = pc /\ r.known = known /\ r.queue = q
      BY <1>5, <2>1, WithShape DEF Go
    <2>3. inbound'[h] = r
      BY <2>2 DEF Typed
    <2>4. h = "reconcile" => \A c : Queued(c) => Queued(c)'
      BY <2>2, <2>3 DEF Queued
    <2>. QED  BY <1>3, <1>5, <2>2, <2>4
  <1>6. CASE Head(q).kind = "comment" /\ Known(Head(q).note) /\ Go(h, Proceed(Tail(q), read))
    <2>1. PICK r : r = Proceed(Tail(q), read)
      OBVIOUS
    <2>2. inbound' = [inbound EXCEPT ![h] = r] /\ r.pc \in {"idle", "next"}
      BY <1>6, <2>1, ProceedShape DEF Go
    <2>3. ASSUME h = "reconcile", NEW c \in Notes, Queued(c) PROVE Queued(c)' \/ Remembering(c)
      <3>1. CASE Delivery(h) = Comment(1, c)
        <4>1. c \in ticket.commented \cup ticket.seen
          BY <1>6, <2>3, <3>1 DEF Delivery, Comment, Known
        <4>2. ticket.commented \subseteq Messages
          BY DEF Typed, Tickets
        <4>3. c \notin Messages
          BY <2>3, LinearAssumption
        <4>. QED  BY <4>1, <4>2, <4>3 DEF Remembering
      <3>2. CASE Delivery(h) # Comment(1, c)
        <4>1. inbound' = [inbound EXCEPT ![h] = Done(h)] /\ inbound[h].pc # "idle"
          BY <2>1, <2>2, <2>3 DEF Done
        <4>. QED  BY <2>3, <3>2, <4>1, DoneQueued
      <3>. QED  BY <3>1, <3>2
    <2>. QED  BY <1>3, <2>2, <2>3
  <1>7. \/ Go(h, Proceed(OtherIssues(q), read)) /\ Head(q).issue # ticket.issue
        \/ \E pc \in {"stamp", "patch"} : Go(h, With(pc, q, read, ticket.subject))
        \/ Head(q).kind = "comment" /\ Known(Head(q).note) /\ Go(h, Proceed(Tail(q), read))
        \/ Go(h, With("seen", q, read, ticket.seen))
    BY DEF Open
  <1>8. ASSUME NEW pc \in {"stamp", "patch"}, Go(h, With(pc, q, read, ticket.subject)) PROVE NotesHeard'
    BY <1>5, <1>8
  <1>. QED  BY <1>4, <1>5, <1>6, <1>7, <1>8

LEMMA ReadingHears ==
  ASSUME Typed, NotesHeard, Take \/ Reconcile \/ ReconcileNext, "untold" \notin excused'
  PROVE  NotesHeard'
  <1>1. CASE Take
    <2>1. PICK d \in hooks : Open("webhook", <<d>>, {})
      BY <1>1 DEF Take
    <2>2. <<d>> \in Queues(Drafted, Len(issues))
      <3>1. d \in Deliveries(Drafted, Len(issues))
        BY DEF Typed
      <3>. QED  BY <3>1 DEF Queues
    <2>3. "webhook" \in Handlers /\ issues' = issues /\ inbound["webhook"].pc = "idle"
      BY <1>1 DEF Take, Handlers
    <2>. QED  BY <2>1, <2>2, <2>3, OpenHears
  <1>2. CASE ReconcileNext
    <2>1. "reconcile" \in Handlers /\ issues' = issues /\ inbound["reconcile"].pc = "next"
          /\ Open("reconcile", inbound["reconcile"].queue, inbound["reconcile"].read)
      BY <1>2 DEF Handlers, ReconcileNext
    <2>2. inbound["reconcile"].queue \in Queues(Drafted, Len(issues))
      <3>1. InboundTyped(inbound["reconcile"], "reconcile", Drafted, Len(issues))
        BY <2>1 DEF Typed
      <3>2. inbound["reconcile"].pc # "idle"
        BY <2>1
      <3>. QED  BY <3>1, <3>2, InHand, Counted
    <2>. QED  BY <2>1, <2>2, OpenHears
  <1>3. CASE Reconcile
    <2>1. PICK S : S = {i \in DOMAIN issues : issues[i].fresh}
      OBVIOUS
    <2>2. /\ S # {} /\ inbound' = [inbound EXCEPT !["reconcile"] = [pc |-> "next", read |-> S, queue |-> AllOf(S)]]
          /\ issues' = [i \in DOMAIN issues |-> [issues[i] EXCEPT !.fresh = FALSE]]
          /\ UNCHANGED <<ticket, outbox, agent, sync, told>> /\ inbound["reconcile"].pc = "idle"
      BY <1>3, <2>1 DEF Reconcile, Go, AllOf
    <2>3. PICK r : r = [pc |-> "next", read |-> S, queue |-> AllOf(S)]
      OBVIOUS
    <2>4. /\ inbound'["reconcile"] = r /\ \A g \in Handlers \ {"reconcile"} : inbound'[g] = inbound[g]
          /\ r.pc = "next" /\ r.queue = AllOf(S)
      BY <2>2, <2>3 DEF Typed, Handlers
    <2>5. \A c \in Notes : (Said(c) => Said(c)') /\ (Remembering(c)' => Remembering(c))
      BY <2>2, <2>4 DEF Said, Telling, Delivery, Remembering
    <2>6. ASSUME Len(issues') = 1, NEW c \in issues'[1].notes PROVE Queued(c)'
      <3>1. Len(issues) = 1
        <4>1. DOMAIN issues' = DOMAIN issues
          BY <2>2
        <4>. QED  BY <1>3, <2>6, <4>1, ReconcileTypes, Counted DEF Typed
      <3>2. 1 \in DOMAIN issues /\ DOMAIN issues = {1}
        BY <3>1, Counted
      <3>3. c \in issues[1].notes
        <4>1. issues[1] \in IssueDocs(Drafted)
          <5>1. issues \in Seq(IssueDocs(Drafted)) /\ 1 \in DOMAIN issues
            BY <3>2 DEF Typed
          <5>. QED  BY <5>1
        <4>2. DOMAIN issues[1] = {"title", "posted", "notes", "fresh"}
          BY <4>1 DEF IssueDocs
        <4>. QED  BY <2>2, <2>6, <3>2, <4>2
      <3>4. S = {1}
        BY <2>1, <2>2, <3>2
      <3>5. \E k \in DOMAIN AllOf(S) : AllOf(S)[k] = Comment(1, c)
        BY <3>2, <3>3, <3>4, OneRead, IssueReads
      <3>. QED  BY <2>4, <3>5 DEF Queued
    <2>. QED  BY <2>5, <2>6 DEF NotesHeard
  <1>. QED  BY <1>1, <1>2, <1>3

LEMMA ApplyHears ==
  ASSUME Typed, NotesHeard, NEW h \in Handlers, Inbound(h), "untold" \notin excused'
  PROVE  NotesHeard'
  <1>1. UNCHANGED <<sync, issues>> /\ ~ApplyFails(h)
    BY DEF Inbound, Patch, StampMirror, StampSeen, Tell, ApplyFails
  <1>2. InboundTyped(inbound[h], h, Drafted, Len(issues)) /\ Drafted \in Nat /\ Len(issues) \in Nat
    BY Counted DEF Typed
  <1>3. CASE Patch(h)
    <2>1. PICK r : r = With("stamp", inbound[h].queue, inbound[h].read, Delivery(h).title)
      OBVIOUS
    <2>2. inbound' = [inbound EXCEPT ![h] = r] /\ r.pc = "stamp" /\ r.queue = inbound[h].queue
          /\ inbound[h].pc = "patch" /\ told' = told /\ ticket'.seen = ticket.seen
      BY <1>3, <2>1, WithShape, TitlesAre DEF Patch, Go
    <2>3. inbound'[h] = r
      BY <2>2 DEF Typed
    <2>4. h = "reconcile" => \A c : Queued(c) => Queued(c)'
      BY <2>2, <2>3 DEF Queued
    <2>5. \A c \in Notes : c \in ticket'.seen => Remembering(c)
      BY <2>2 DEF Remembering
    <2>6. \A c \in Notes : ~Telling(h, c)
      BY <2>2 DEF Telling
    <2>. QED  BY <1>1, <2>2, <2>4, <2>5, <2>6, HandlerHears
  <1>4. CASE StampMirror(h)
    <2>1. PICK r : r = Done(h)
      OBVIOUS
    <2>2. inbound' = [inbound EXCEPT ![h] = r] /\ r.pc \in {"idle", "next"}
          /\ inbound[h].pc = "stamp" /\ told' = told /\ ticket'.seen = ticket.seen
      BY <1>4, <2>1, ProceedShape, TitlesAre DEF StampMirror, Go, Done
    <2>3. Head(inbound[h].queue).kind = "issue"
      BY <1>2, <2>2, InHand
    <2>4. h = "reconcile" => \A c : Queued(c) => Queued(c)'
      <3>1. \A c : Delivery(h) # Comment(1, c)
        BY <2>3 DEF Delivery, Comment
      <3>. QED  BY <2>1, <2>2, <3>1, DoneQueued
    <2>5. \A c \in Notes : c \in ticket'.seen => Remembering(c)
      BY <2>2 DEF Remembering
    <2>6. \A c \in Notes : ~Telling(h, c)
      BY <2>2 DEF Telling
    <2>. QED  BY <1>1, <2>2, <2>4, <2>5, <2>6, HandlerHears
  <1>5. CASE StampSeen(h)
    <2>1. /\ inbound[h].pc = "seen" /\ told' = told /\ inbound' = [inbound EXCEPT ![h].pc = "tell"]
          /\ ticket'.seen = inbound[h].known \cup {Delivery(h).note}
      BY <1>5, TitlesAre DEF StampSeen
    <2>2. inbound[h] = [pc |-> inbound[h].pc, queue |-> inbound[h].queue, read |-> inbound[h].read, known |-> inbound[h].known]
      BY <1>2, <2>1, InHand
    <2>3. PICK r : inbound' = [inbound EXCEPT ![h] = r] /\ r.pc = "tell" /\ r.queue = inbound[h].queue
      <3>1. PICK r : r = [inbound[h] EXCEPT !.pc = "tell"]
        OBVIOUS
      <3>2. r.pc = "tell" /\ r.queue = inbound[h].queue
        BY <2>2, <3>1
      <3>. QED  BY <2>1, <3>1, <3>2
    <2>4. inbound'[h] = r
      BY <2>3 DEF Typed
    <2>5. \A c : c = Delivery(h).note => Telling(h, c)'
      BY <2>3, <2>4 DEF Telling, Delivery
    <2>6. \A c \in Notes : c \in ticket'.seen => Remembering(c) \/ Telling(h, c)'
      <3> SUFFICES ASSUME NEW c \in Notes, c \in ticket'.seen PROVE Remembering(c) \/ Telling(h, c)'
        OBVIOUS
      <3>1. CASE c \in inbound[h].known
        BY <2>1, <3>1 DEF Remembering
      <3>2. CASE c = Delivery(h).note
        BY <2>5, <3>2
      <3>. QED  BY <2>1, <3>1, <3>2
    <2>7. \A c \in Notes : ~Telling(h, c)
      BY <2>1 DEF Telling
    <2>8. h = "reconcile" => \A c : Queued(c) => Queued(c)'
      BY <2>1, <2>3, <2>4 DEF Queued
    <2>. QED  BY <1>1, <2>1, <2>3, <2>6, <2>7, <2>8, HandlerHears
  <1>6. CASE Tell(h)
    <2>1. PICK r, n : r = Done(h) /\ n = Delivery(h).note
      OBVIOUS
    <2>2. inbound' = [inbound EXCEPT ![h] = r] /\ r.pc \in {"idle", "next"} /\ ticket' = ticket
          /\ inbound[h].pc = "tell" /\ told' = [told EXCEPT ![n] = @ + 1]
      BY <1>6, <2>1, ProceedShape DEF Tell, Go, Done
    <2>3. \A c \in Notes : told[c] \in Nat /\ told'[c] = IF c = n THEN told[c] + 1 ELSE told[c]
      BY <2>2 DEF Typed, Comments
    <2>4. \A c \in Notes : told[c] > 0 \/ Telling(h, c) => told'[c] > 0
      BY <2>1, <2>3 DEF Telling
    <2>5. \A c \in Notes : c \in ticket'.seen => Remembering(c)
      BY <2>2 DEF Remembering
    <2>6. h = "reconcile" => \A c \in Notes : Queued(c) => Queued(c)' \/ told'[c] > 0
      <3>1. \A c \in Notes : Delivery(h) = Comment(1, c) => told'[c] > 0
        BY <2>1, <2>3 DEF Comment
      <3>2. h = "reconcile" => \A c : Queued(c) /\ Delivery(h) # Comment(1, c) => Queued(c)'
        BY <2>1, <2>2, DoneQueued
      <3>. QED  BY <3>1, <3>2
    <2>. QED  BY <1>1, <2>2, <2>4, <2>5, <2>6, HandlerHears
  <1>. QED  BY <1>1, <1>3, <1>4, <1>5, <1>6 DEF Inbound

LEMMA WorkerHears ==
  ASSUME Typed, NotesHeard, NEW w \in Workers, NEW r, sync' = [sync EXCEPT ![w] = r],
         r.pc \notin {"again", "put"}, UNCHANGED <<inbound, told>>, ticket'.seen = ticket.seen,
         issues' = issues \/ (Len(issues') = 1 => issues'[1].fresh)
  PROVE  NotesHeard'
  <1>1. sync'[w] = r /\ (w # "drain" => sync'["drain"] = sync["drain"])
    BY TitlesAre
  <1>2. \A c \in Notes : Remembering(c)' => Remembering(c)
    BY <1>1 DEF Remembering
  <1>. QED  BY <1>2, HeardElsewhere

LEMMA SyncHears ==
  ASSUME Typed, NotesHeard, NEW w \in Workers, Sync(w)
  PROVE  NotesHeard'
  <1>1. PICK s : s = sync[w]
    OBVIOUS
  <1>4. CASE StartSync(w)
    <2>1. PICK r : r = [pc |-> FirstStep, subject |-> ticket.subject, todo |-> Pending,
                        commented |-> ticket.commented, issue |-> ticket.issue, created |-> FALSE,
                        failed |-> FALSE, attempts |-> outbox.attempts]
      OBVIOUS
    <2>2. sync' = [sync EXCEPT ![w] = r] /\ r.pc \in {"issue", "comment", "done"} /\ issues' = issues
          /\ UNCHANGED <<inbound, told, ticket>>
      BY <1>4, <2>1 DEF StartSync, Put, FirstStep
    <2>. QED  BY <2>2, WorkerHears
  <1>5. CASE SendIssue(w)
    <2>1. s.pc = "issue" /\ s \in SyncDocs(Drafted, Len(issues)) /\ UNCHANGED <<inbound, told, ticket>>
      BY <1>1, <1>5, Syncing DEF SendIssue
    <2>3. PICK r : /\ sync' = [sync EXCEPT ![w] = r] /\ r.pc \in {"comment", "fail"}
                   /\ r.todo = s.todo /\ r.commented = s.commented
      BY <1>1, <1>5, IssueSent
    <2>. QED  BY <1>5, <2>1, <2>3, SendIssueLeaves, WorkerHears
  <1>6. CASE SendComment(w)
    <2>1. PICK m \in s.todo :
            /\ issues' = [issues EXCEPT ![s.issue].posted[m] = @ + 1, ![s.issue].fresh = TRUE]
            /\ \/ sync' = [sync EXCEPT ![w] = [s EXCEPT !.todo = @ \ {m}, !.commented = @ \cup {m}]]
               \/ sync' = [sync EXCEPT ![w] = [s EXCEPT !.pc = "stamp", !.failed = TRUE]]
      BY <1>1, <1>6 DEF SendComment, Put
    <2>2. s.pc = "comment" /\ s \in SyncDocs(Drafted, Len(issues)) /\ s.issue # 0
          /\ UNCHANGED <<inbound, told, ticket>>
      BY <1>1, <1>6, Syncing DEF SendComment
    <2>3. Len(issues') = 1 => issues'[1].fresh
      <3>1. s.issue \in 0..Len(issues) /\ m \in Messages
        BY <2>1, <2>2 DEF SyncDocs
      <3>2. s.issue \in DOMAIN issues
        BY <2>2, <3>1, Counted
      <3>. QED  BY <2>1, <3>1, <3>2, SendCommentLeaves DEF PostedOn
    <2>4. PICK r : /\ sync' = [sync EXCEPT ![w] = r]
                   /\ \/ r = [s EXCEPT !.todo = @ \ {m}, !.commented = @ \cup {m}]
                      \/ r = [s EXCEPT !.pc = "stamp", !.failed = TRUE]
      BY <2>1
    <2>5. r.pc \in {"comment", "stamp"}
      BY <2>2, <2>4 DEF SyncDocs
    <2>. QED  BY <2>2, <2>3, <2>4, <2>5, WorkerHears
  <1>7. CASE CallFails(w)
    <2>1. PICK r : /\ sync' = [sync EXCEPT ![w] = r]
                   /\ r = [s EXCEPT !.pc = IF @ = "issue" THEN "fail" ELSE "stamp", !.failed = TRUE]
      BY <1>1, <1>7 DEF CallFails, Put
    <2>2. s \in SyncDocs(Drafted, Len(issues)) /\ UNCHANGED <<inbound, told, ticket, issues>>
      BY <1>1, <1>7, Syncing DEF CallFails
    <2>3. r.pc \in {"fail", "stamp"}
      BY <2>1, <2>2 DEF SyncDocs
    <2>. QED  BY <2>1, <2>2, <2>3, WorkerHears
  <1>8. CASE Stamp(w)
    <2>1. PICK r : sync' = [sync EXCEPT ![w] = r] /\ r = [s EXCEPT !.pc = IF s.failed THEN "fail" ELSE "done"]
      BY <1>1, <1>8 DEF Stamp, Goto
    <2>2. s \in SyncDocs(Drafted, Len(issues)) /\ UNCHANGED <<inbound, told, issues>>
          /\ ticket' = [ticket EXCEPT !.issue = s.issue, !.mirror = s.subject, !.commented = s.commented]
      BY <1>1, <1>8, Syncing DEF Stamp
    <2>3. r.pc \in {"fail", "done"} /\ ticket'.seen = ticket.seen
      BY <2>1, <2>2, TitlesAre DEF SyncDocs
    <2>. QED  BY <2>1, <2>2, <2>3, WorkerHears
  <1>9. CASE Finish(w) \/ Retry(w)
    <2>1. sync' = [sync EXCEPT ![w] = NoSync] \/ sync' = [sync EXCEPT ![w].pc = "giveup"]
      BY <1>9 DEF Finish, Retry, Put, Goto
    <2>2. UNCHANGED <<inbound, told, ticket, issues>> /\ s.pc \in {"done", "fail"}
      BY <1>1, <1>9 DEF Finish, Retry
    <2>3. s \in SyncDocs(Drafted, Len(issues))
      BY <1>1, <2>2, Syncing
    <2>4. PICK r : sync' = [sync EXCEPT ![w] = r] /\ (r = NoSync \/ r = [s EXCEPT !.pc = "giveup"])
      BY <1>1, <2>1
    <2>5. r.pc \in {"idle", "giveup"}
      BY <2>3, <2>4 DEF SyncDocs, NoSync
    <2>. QED  BY <2>2, <2>4, <2>5, WorkerHears
  <1>. QED  BY <1>4, <1>5, <1>6, <1>7, <1>8, <1>9 DEF Sync

(* What a copy of the ticket remembers the ticket remembered.              *)
LEMMA GiveUpHears ==
  ASSUME Typed, NotesHeard, GiveUp
  PROVE  NotesHeard'
  <1>1. PICK s : s = sync["drain"]
    OBVIOUS
  <1>2. UNCHANGED <<inbound, told, issues>> /\ s.pc \in {"giveup", "again", "put"}
    BY <1>1 DEF GiveUp
  <1>3. ASSUME \A c \in Notes : c \in ticket'.seen => c \in ticket.seen \/ (s.pc = "put" /\ c \in s.copy.seen),
               \A c \in Notes : sync'["drain"].pc \in {"again", "put"} /\ c \in sync'["drain"].copy.seen =>
                                   c \in ticket.seen \/ (s.pc = "again" /\ c \in s.copy.seen)
        PROVE  NotesHeard'
    <2>1. \A c \in Notes : Remembering(c)' => Remembering(c)
      <3> SUFFICES ASSUME NEW c \in Notes, Remembering(c)' PROVE Remembering(c)
        OBVIOUS
      <3>1. CASE c \in ticket'.seen
        BY <1>1, <1>3, <3>1 DEF Remembering
      <3>2. CASE \E h \in Handlers : inbound[h].pc = "seen" /\ c \in inbound[h].known
        BY <3>2 DEF Remembering
      <3>3. CASE sync'["drain"].pc \in {"again", "put"} /\ c \in sync'["drain"].copy.seen
        BY <1>1, <1>3, <3>3 DEF Remembering
      <3>. QED  BY <1>2, <3>1, <3>2, <3>3 DEF Remembering
    <2>. QED  BY <1>2, <2>1, HeardElsewhere
  <1>4. CASE s.pc = "giveup"
    <2>1. ticket' = ticket /\ sync' = [sync EXCEPT !["drain"] = [pc |-> "again", copy |-> ticket]]
      BY <1>1, <1>4 DEF GiveUp, Put
    <2>2. sync'["drain"].copy = ticket
      BY <2>1, TitlesAre
    <2>. QED  BY <1>3, <1>4, <2>1, <2>2
  <1>5. CASE s.pc = "again"
    <2>1. PICK own : own = [ticket EXCEPT !.issue = s.copy.issue, !.mirror = s.copy.mirror,
                                          !.commented = s.copy.commented, !.seen = s.copy.seen]
      OBVIOUS
    <2>2. ticket' = ticket /\ sync' = [sync EXCEPT !["drain"] = [pc |-> "put", copy |-> own]]
      BY <1>1, <1>5, <2>1 DEF GiveUp, Put
    <2>3. sync'["drain"].copy = own
      BY <2>2, TitlesAre
    <2>4. own.seen = s.copy.seen
      BY <2>1, TitlesAre
    <2>. QED  BY <1>3, <1>5, <2>2, <2>3, <2>4
  <1>6. CASE s.pc = "put"
    <2>1. ticket' = s.copy /\ sync' = [sync EXCEPT !["drain"] = NoSync]
      BY <1>1, <1>6 DEF GiveUp, Put
    <2>2. sync'["drain"].pc = "idle"
      BY <2>1, TitlesAre DEF NoSync
    <2>. QED  BY <1>3, <1>6, <2>1, <2>2
  <1>. QED  BY <1>2, <1>4, <1>5, <1>6

(* The agents, and the developers in Linear.                               *)
LEMMA OthersHear ==
  ASSUME Typed, NotesHeard, EditSubject \/ AddMessage \/ MarkLook \/ Mark \/ Rename \/ WriteNote \/ LoseHook
  PROVE  NotesHeard'
  <1>1. UNCHANGED <<inbound, told, sync>>
    BY DEF EditSubject, AddMessage, MarkLook, Mark, Write, Rename, WriteNote, LoseHook
  <1>2. ticket'.seen = ticket.seen
    <2>1. \/ ticket' = ticket \/ ticket' = [ticket EXCEPT !.subject = NewTitle]
          \/ \E m \in Messages : ticket' = [ticket EXCEPT !.messages = @ \cup {m}]
      BY DEF EditSubject, AddMessage, MarkLook, Mark, Write, Rename, WriteNote, LoseHook
    <2>. QED  BY <2>1, TitlesAre
  <1>3. \A c \in Notes : Remembering(c)' => Remembering(c)
    BY <1>1, <1>2 DEF Remembering
  <1>4. Len(issues') = 1 => issues'[1].fresh \/ issues' = issues
    <2>1. ASSUME NEW i \in DOMAIN issues, NEW d, issues' = [issues EXCEPT ![i] = d], d.fresh = TRUE
          PROVE  Len(issues') = 1 => issues'[1].fresh
      <3>1. Len(issues) \in Nat /\ DOMAIN issues = 1..Len(issues) /\ issues \in Seq(IssueDocs(Drafted))
        BY Counted DEF Typed
      <3>2. Len(issues') = Len(issues) /\ issues'[i] = d
        BY <2>1, <3>1, OneWritten
      <3>3. Len(issues') = 1 => i = 1
        BY <3>1, <3>2
      <3>. QED  BY <2>1, <3>2, <3>3
    <2>2. \A i \in DOMAIN issues : DOMAIN issues[i] = {"title", "posted", "notes", "fresh"}
      <3> TAKE i \in DOMAIN issues
      <3>1. issues \in Seq(IssueDocs(Drafted))
        BY DEF Typed
      <3>2. issues[i] \in IssueDocs(Drafted)
        BY <3>1
      <3>. QED  BY <3>2 DEF IssueDocs
    <2>3. CASE Rename
      <3>1. PICK i \in DOMAIN issues : issues' = Renamed(i, NewTitle)
        BY <2>3 DEF Rename
      <3>2. PICK d : d = [issues[i] EXCEPT !.title = NewTitle, !.fresh = TRUE]
        OBVIOUS
      <3>3. d.fresh = TRUE /\ issues' = [issues EXCEPT ![i] = d]
        BY <2>2, <3>1, <3>2 DEF Renamed
      <3>. QED  BY <2>1, <3>3
    <2>4. CASE WriteNote
      <3>1. PICK i \in DOMAIN issues, c \in Notes : issues' = [issues EXCEPT ![i].notes = @ \cup {c}, ![i].fresh = TRUE]
        BY <2>4 DEF WriteNote
      <3>2. PICK d : d = [issues[i] EXCEPT !.notes = @ \cup {c}, !.fresh = TRUE]
        OBVIOUS
      <3>3. d.fresh = TRUE /\ issues' = [issues EXCEPT ![i] = d]
        BY <2>2, <3>1, <3>2
      <3>. QED  BY <2>1, <3>3
    <2>5. CASE ~Rename /\ ~WriteNote
      BY <2>5 DEF EditSubject, AddMessage, MarkLook, Mark, Write, LoseHook
    <2>. QED  BY <2>3, <2>4, <2>5
  <1>. QED  BY <1>1, <1>3, <1>4, HeardElsewhere

(* A stop, of handlers none of which was about to tell: what was being     *)
(* read is read again.                                                     *)
LEMMA RestartHears ==
  ASSUME Typed, NotesHeard, Restart, "untold" \notin excused'
  PROVE  NotesHeard'
  <1>1. UNCHANGED <<ticket, told>> /\ \A h \in Handlers : inbound[h].pc # "tell"
    BY DEF Restart
  <1>2. sync'["drain"].pc = "idle" /\ \A h \in Handlers : inbound'[h].pc = "idle"
    BY DEF Restart, NoSync, NoInbound, Workers
  <1>3. \A c \in Notes : Said(c) => told[c] > 0
    BY <1>1 DEF Said, Telling
  <1>4. \A c \in Notes : (Remembering(c)' => Remembering(c)) /\ (told[c] > 0 => Said(c)')
    BY <1>1, <1>2 DEF Remembering, Said
  <1>5. issues' = [i \in DOMAIN issues |-> [issues[i] EXCEPT !.fresh = @ \/ i \in inbound["reconcile"].read]]
    BY DEF Restart
  <1>6. /\ issues \in Seq(IssueDocs(Drafted)) /\ Len(issues) \in Nat /\ DOMAIN issues = 1..Len(issues)
        /\ DOMAIN issues' = DOMAIN issues
    BY <1>5, Counted DEF Typed
  <1>7. Len(issues') = Len(issues)
    BY <1>6, RestartTypes, Counted DEF Typed
  <1>8. ASSUME Len(issues') = 1, NEW c \in issues'[1].notes PROVE Said(c)' \/ issues'[1].fresh
    <2>1. 1 \in DOMAIN issues /\ Len(issues) = 1
      BY <1>6, <1>7, <1>8
    <2>2. issues[1] \in IssueDocs(Drafted)
      BY <1>6, <2>1
    <2>3. DOMAIN issues[1] = {"title", "posted", "notes", "fresh"} /\ issues[1].notes \subseteq Notes
      BY <2>2 DEF IssueDocs
    <2>4. /\ issues'[1].notes = issues[1].notes
          /\ issues'[1].fresh = (issues[1].fresh \/ 1 \in inbound["reconcile"].read)
      BY <1>5, <2>1, <2>3
    <2>5. Said(c) \/ issues[1].fresh \/ Queued(c)
      BY <1>8, <2>1, <2>4 DEF NotesHeard
    <2>6. Queued(c) => 1 \in inbound["reconcile"].read
      <3>1. InboundTyped(inbound["reconcile"], "reconcile", Drafted, Len(issues))
        BY DEF Typed, Handlers
      <3>2. Queued(c) => inbound["reconcile"].read \in Reads("reconcile", Len(issues))
        BY <3>1, InHand, Counted DEF Queued
      <3>. QED  BY <2>1, <3>2 DEF Reads
    <2>. QED  BY <1>3, <1>4, <1>8, <2>3, <2>4, <2>5, <2>6
  <1>. QED  BY <1>3, <1>4, <1>8 DEF NotesHeard

UntoldInv == "untold" \notin excused => NotesHeard

LEMMA UntoldStep ==
  ASSUME Typed, UntoldInv, Next
  PROVE  UntoldInv'
  <1> SUFFICES ASSUME "untold" \notin excused' PROVE NotesHeard'
    BY DEF UntoldInv
  <1>1. NotesHeard
    BY ExcusedStays DEF UntoldInv
  <1>. QED  BY <1>1, OthersHear, SyncHears, GiveUpHears, ReadingHears, ApplyHears, RestartHears DEF Next

(* Until something is given away, a note of the developers was told, is    *)
(* about to be, or is still to be read.                                    *)
THEOREM UntoldHolds == Spec => [](Typed /\ UntoldInv)
  <1>1. Init => UntoldInv
    BY DEF Init, UntoldInv, NotesHeard, Remembering, NoSync, NoInbound, Workers, Handlers
  <1>2. Typed /\ UntoldInv /\ [Next]_vars => (Typed /\ UntoldInv)'
    <2> SUFFICES ASSUME Typed, UntoldInv, [Next]_vars PROVE Typed' /\ UntoldInv'
      OBVIOUS
    <2>1. CASE Next
      BY <2>1, TypedStep, UntoldStep
    <2>2. CASE UNCHANGED vars
      <3>1. \A c : (Remembering(c)' <=> Remembering(c))
        BY <2>2 DEF vars, Remembering
      <3>2. UntoldInv'
        BY <2>2, <3>1, HeardElsewhere DEF vars, UntoldInv
      <3>. QED  BY <3>2, TypedStep
    <2>. QED  BY <2>1, <2>2
  <1>. QED  BY <1>1, <1>2, InitTyped, PTL DEF Spec

(* ... so at rest each of them was told.                                   *)
THEOREM NotesAreToldHolds == Spec => []NotesAreTold
  <1>1. Typed /\ UntoldInv => NotesAreTold
    <2> SUFFICES ASSUME UntoldInv, AtRest, Typed, Len(issues) = 1, "untold" \notin excused, NEW c \in issues[1].notes
                 PROVE  told[c] > 0
      BY DEF NotesAreTold
    <2>1. /\ inbound["reconcile"].pc = "idle" /\ ~issues[1].fresh
          /\ \A h \in Handlers : inbound[h].pc = "idle"
      BY Counted DEF AtRest, Handlers
    <2>2. ~Queued(c) /\ (Said(c) => told[c] > 0)
      BY <2>1 DEF Queued, Said, Telling
    <2>. QED  BY <2>1, <2>2 DEF UntoldInv, NotesHeard
  <1>. QED  BY <1>1, UntoldHolds, PTL
=============================================================================
