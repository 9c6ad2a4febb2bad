----------------------------- MODULE LiveData -----------------------------
(***************************************************************************)
(* From a write to the screens (platform/db.js, platform/changes.js,       *)
(* platform/routes.system.js, crm/routes.bootstrap.js, web/src/app.jsx).   *)
(*                                                                         *)
(* The API is one process in front of Postgres.  It keeps the rows of a    *)
(* listed collection until a write of its own invalidates them, answers    *)
(* the bootstraps of one revision with one computation, and tells every    *)
(* open tab of each write; a tab then loads the bootstrap again.  The rows *)
(* of the one collection the bootstrap reads here are the number of writes *)
(* committed.                                                              *)
(***************************************************************************)
EXTENDS Integers, Sequences, FiniteSets

CONSTANTS
    Writers,      \* repo.create, update or remove calls in flight
    Pollers,      \* other callers of repo.list
    Tabs,         \* the tabs of one user
    MaxWrites,    \* bound: writes to the collection
    MaxQuiet,     \* bound: writes to a QUIET collection
    MaxFaults,    \* bound: queries and requests that fail
    MaxRestarts,  \* bound: restarts of the API
    MaxDrops,     \* bound: event streams that are cut
    MaxBusy       \* bound: times a tab is hidden or a field is edited

ASSUME LiveDataAssumption ==
    /\ {MaxWrites, MaxQuiet, MaxFaults, MaxRestarts, MaxDrops, MaxBusy} \subseteq Nat
    /\ IsFiniteSet(Writers)
    /\ Tabs # {}
    /\ Pollers \cap Int = {}

VARIABLES
    rows,      \* the committed rows
    acked,     \* the rows of the latest write that returned to its caller
    ackedAt,   \* revision -> acked, when the revision was announced
    write,     \* writer -> [pc, ver]
    cache,     \* listCache of the collection
    read,      \* listing -> [pc, ver]: a repo.list waiting for Postgres
    rev,       \* changes.js
    memo,      \* revision -> [st, ver]: bootstrapMemo
    tab,       \* tab -> its stream, timer and what it shows
    missed,    \* tab -> why it may not hear of a change
    count      \* how much of each bound is used

vars == <<rows, acked, ackedAt, write, cache, read, rev, memo, tab, missed, count>>

-----------------------------------------------------------------------------
None == -1
Rows == Nat
Revs == 0..(MaxWrites + MaxQuiet)
Listings == Pollers \cup Revs   \* the bootstrap of a revision lists too
Reasons == {"boot", "fill", "rev", "request", "answer"}

Kinds == {"writes", "quiet", "faults", "restarts", "drops", "busy"}
Bounds == [writes |-> MaxWrites, quiet |-> MaxQuiet, faults |-> MaxFaults,
           restarts |-> MaxRestarts, drops |-> MaxDrops, busy |-> MaxBusy]
Spend(k) == count[k] < Bounds[k] /\ count' = [count EXCEPT ![k] = @ + 1]

AtRest == [pc |-> "idle", ver |-> 0]
NoMemo == [st |-> "none", ver |-> 0]
NewTab == [open |-> FALSE, inbox |-> <<>>, last |-> None, timer |-> FALSE,
           dirty |-> FALSE, busy |-> FALSE, req |-> None, due |-> 0, shown |-> None]

Missed(ts, reasons) ==
    missed' = [t \in Tabs |-> IF t \in ts THEN missed[t] \cup reasons ELSE missed[t]]

-----------------------------------------------------------------------------
(* Writes.  invalidate and bump run when the query's answer arrives.       *)

(* bump: every open stream gets the event.                                 *)
Bump(quiet) ==
    /\ rev' = rev + 1
    /\ tab' = [t \in Tabs |->
         IF tab[t].open
         THEN [tab[t] EXCEPT !.inbox = Append(@, [rev |-> rev + 1, quiet |-> quiet])]
         ELSE tab[t]]

Write(w) ==
    /\ write[w].pc = "idle" /\ Spend("writes")
    /\ write' = [write EXCEPT ![w].pc = "query"]
    /\ UNCHANGED <<rows, acked, ackedAt, cache, read, rev, memo, tab, missed>>

Commit(w) ==
    /\ write[w].pc = "query"
    /\ rows' = rows + 1
    /\ write' = [write EXCEPT ![w] = [pc |-> "answer", ver |-> rows + 1]]
    /\ UNCHANGED <<acked, ackedAt, cache, read, rev, memo, tab, missed, count>>

Returned(w) ==
    /\ write[w].pc = "answer"
    /\ write' = [write EXCEPT ![w] = AtRest]
    /\ cache' = None
    /\ Bump(FALSE)
    /\ acked' = IF write[w].ver > acked THEN write[w].ver ELSE acked
    /\ ackedAt' = [ackedAt EXCEPT ![rev'] = acked']
    /\ UNCHANGED <<rows, read, memo, missed, count>>

(* The query throws, committed or not: nothing is invalidated or announced. *)
WriteFails(w) ==
    /\ write[w].pc # "idle" /\ Spend("faults")
    /\ write' = [write EXCEPT ![w] = AtRest]
    /\ Missed(IF write[w].pc = "answer" THEN Tabs ELSE {}, {"answer"})
    /\ UNCHANGED <<rows, acked, ackedAt, cache, read, rev, memo, tab>>

(* A write to a collection whose screen fetches for itself.                *)
QuietWrite ==
    /\ Spend("quiet")
    /\ Bump(TRUE)
    /\ ackedAt' = [ackedAt EXCEPT ![rev'] = acked]
    /\ UNCHANGED <<rows, acked, write, cache, read, memo, missed>>

-----------------------------------------------------------------------------
(* repo.list.  A call that finds the cache changes nothing.                *)
Poll(p) ==
    /\ read[p].pc = "idle" /\ cache = None
    /\ read' = [read EXCEPT ![p].pc = "query"]
    /\ UNCHANGED <<rows, acked, ackedAt, write, cache, rev, memo, tab, missed, count>>

ListRead(p) ==
    /\ read[p].pc = "query"
    /\ read' = [read EXCEPT ![p] = [pc |-> "answer", ver |-> rows]]
    /\ UNCHANGED <<rows, acked, ackedAt, write, cache, rev, memo, tab, missed, count>>

(* The answer arrives, however late, and fills the cache.                  *)
ListFill(p) ==
    /\ read[p].pc = "answer"
    /\ read' = [read EXCEPT ![p] = AtRest]
    /\ cache' = read[p].ver
    /\ memo' = IF p \in Revs
               THEN [memo EXCEPT ![p] = [st |-> "done", ver |-> read[p].ver]] ELSE memo
    /\ Missed(IF read[p].ver < acked THEN Tabs ELSE {}, {"fill"})
    /\ UNCHANGED <<rows, acked, ackedAt, write, rev, tab, count>>

(* A slip: the rejected computation stays in the memo.                     *)
ListFailsKept(p) ==
    /\ read[p].pc # "idle" /\ Spend("faults")
    /\ read' = [read EXCEPT ![p] = AtRest]
    /\ UNCHANGED <<rows, acked, ackedAt, write, cache, rev, memo, tab, missed>>

(* The query throws: a bootstrap forgets the computation, and the tabs     *)
(* that waited for it get an error.                                        *)
ListFails(p) ==
    LET waiting == {t \in Tabs : tab[t].req = p} IN
    /\ read[p].pc # "idle" /\ Spend("faults")
    /\ read' = [read EXCEPT ![p] = AtRest]
    /\ IF p \in Revs
       THEN /\ memo' = [memo EXCEPT ![p] = NoMemo]
            /\ tab' = [t \in Tabs |-> IF t \in waiting THEN [tab[t] EXCEPT !.req = None] ELSE tab[t]]
            /\ Missed(waiting, {"request"})
       ELSE UNCHANGED <<memo, tab, missed>>
    /\ UNCHANGED <<rows, acked, ackedAt, write, cache, rev>>

(* CACHE_TTL_MS passes.                                                    *)
CacheExpires ==
    /\ cache # None /\ cache' = None
    /\ UNCHANGED <<rows, acked, ackedAt, write, read, rev, memo, tab, missed, count>>

(* BOOTSTRAP_TTL_MS passes, once nobody waits for the entry.               *)
MemoExpires(r) ==
    /\ memo[r].st = "done" /\ \A t \in Tabs : tab[t].req # r
    /\ memo' = [memo EXCEPT ![r] = NoMemo]
    /\ UNCHANGED <<rows, acked, ackedAt, write, cache, read, rev, tab, missed, count>>

-----------------------------------------------------------------------------
(* The tabs.                                                               *)

(* A slip: the key of the memo is the user and the day only.               *)
KeyOfTheDay == 0
Key == rev

(* GET /api/bootstrap: the computation of this revision, or a new one; the *)
(* writes that have returned by now are due to whoever asks.              *)
Bootstrap(t, asked) ==
    /\ tab' = [tab EXCEPT ![t] = [asked EXCEPT !.req = Key, !.due = acked]]
    /\ IF memo[Key].st # "none" THEN UNCHANGED <<memo, read>>
       ELSE IF cache # None
       THEN /\ memo' = [memo EXCEPT ![Key] = [st |-> "done", ver |-> cache]]
            /\ UNCHANGED read
       ELSE /\ memo' = [memo EXCEPT ![Key].st = "running"]
            /\ read' = [read EXCEPT ![Key].pc = "query"]

(* main.jsx: the first load; an error is tried again by hand.              *)
Boot(t) ==
    /\ tab[t].shown = None /\ tab[t].req = None
    /\ Bootstrap(t, tab[t])
    /\ UNCHANGED <<rows, acked, ackedAt, write, cache, rev, missed, count>>

(* The answer of a bootstrap replaces the SEED.                            *)
Shown(t) ==
    LET r == tab[t].req IN
    /\ r # None /\ memo[r].st = "done"
    /\ tab' = [tab EXCEPT ![t].req = None, ![t].shown = memo[r].ver]
    /\ UNCHANGED <<rows, acked, ackedAt, write, cache, read, rev, memo, missed, count>>

(* A reload is due, or under way and about to show what was announced.     *)
Coming(x) ==
    \/ x.timer \/ x.dirty \/ x.shown >= acked
    \/ /\ x.req # None
       /\ \/ memo[x.req].st = "done" /\ memo[x.req].ver >= acked
          \/ read[x.req].pc = "query"
          \/ read[x.req].pc = "answer" /\ read[x.req].ver >= acked

(* /api/events: the stream starts with the revision.  A tab that shows     *)
(* less than what was announced will hear nothing of it when this is its   *)
(* first event, or when the revision is the last one it heard.             *)
Connect(t) ==
    LET x == tab[t]
    IN  /\ ~x.open /\ x.shown # None
        /\ tab' = [tab EXCEPT ![t].open = TRUE,
                              ![t].inbox = <<[rev |-> rev, quiet |-> FALSE]>>]
        /\ IF Coming(x) THEN UNCHANGED missed
           ELSE IF x.last = None THEN Missed({t}, {"boot"})
           ELSE IF x.last = rev THEN Missed({t}, {"rev"})
           ELSE UNCHANGED missed
        /\ UNCHANGED <<rows, acked, ackedAt, write, cache, read, rev, memo, count>>

(* A slip: only a revision that grew is news.                              *)
NewsWhenGrown(x, e) == x.last # None /\ e.rev > x.last /\ ~e.quiet
News(x, e) == x.last # None /\ e.rev # x.last /\ ~e.quiet

(* onMessage: the first event is the baseline.                             *)
Receive(t) ==
    LET x == tab[t]
        e == Head(x.inbox)
    IN  /\ x.inbox # <<>>
        /\ tab' = [tab EXCEPT ![t].inbox = Tail(@), ![t].last = e.rev,
                              ![t].timer = @ \/ News(x, e)]
        /\ UNCHANGED <<rows, acked, ackedAt, write, cache, read, rev, memo, missed, count>>

(* The stream is cut; the tab connects again.                              *)
Drop(t) ==
    /\ tab[t].open /\ Spend("drops")
    /\ tab' = [tab EXCEPT ![t].open = FALSE, ![t].inbox = <<>>]
    /\ UNCHANGED <<rows, acked, ackedAt, write, cache, read, rev, memo, missed>>

(* tryRun, when the timer fires: at least 8 s after the reload before it,  *)
(* which has ended by then.                                                *)
TryRun(t) ==
    LET x == tab[t] IN
    /\ x.timer /\ x.req = None
    /\ IF x.busy
       THEN /\ tab' = [tab EXCEPT ![t].timer = FALSE, ![t].dirty = TRUE]
            /\ UNCHANGED <<memo, read>>
       ELSE Bootstrap(t, [x EXCEPT !.timer = FALSE, !.dirty = FALSE])
    /\ UNCHANGED <<rows, acked, ackedAt, write, cache, rev, missed, count>>

(* The tab is hidden, or a field has the focus; then it is no longer so.   *)
Busy(t) ==
    /\ ~tab[t].busy /\ tab[t].open /\ Spend("busy")
    /\ tab' = [tab EXCEPT ![t].busy = TRUE]
    /\ UNCHANGED <<rows, acked, ackedAt, write, cache, read, rev, memo, missed>>

OnIdle(t) ==
    /\ tab[t].busy
    /\ tab' = [tab EXCEPT ![t].busy = FALSE, ![t].timer = @ \/ tab[t].dirty]
    /\ UNCHANGED <<rows, acked, ackedAt, write, cache, read, rev, memo, missed, count>>

(* The request of a reload fails; nothing asks again.                      *)
RequestFails(t) ==
    /\ tab[t].req # None /\ Spend("faults")
    /\ tab' = [tab EXCEPT ![t].req = None]
    /\ Missed({t}, {"request"})
    /\ UNCHANGED <<rows, acked, ackedAt, write, cache, read, rev, memo>>

(* The API restarts: what is in memory and in flight is gone.              *)
Restart ==
    /\ Spend("restarts")
    /\ rev' = 0 /\ cache' = None
    /\ ackedAt' = [r \in Revs |-> acked]
    /\ write' = [w \in Writers |-> AtRest]
    /\ read' = [p \in Listings |-> AtRest]
    /\ memo' = [r \in Revs |-> NoMemo]
    /\ tab' = [t \in Tabs |-> [tab[t] EXCEPT !.open = FALSE, !.inbox = <<>>, !.req = None]]
    /\ missed' = [t \in Tabs |-> missed[t]
         \cup (IF tab[t].req # None /\ tab[t].shown # None THEN {"request"} ELSE {})
         \cup (IF \E w \in Writers : write[w].pc = "answer" THEN {"answer"} ELSE {})]
    /\ UNCHANGED <<rows, acked>>

-----------------------------------------------------------------------------
Init ==
    /\ rows = 0 /\ acked = 0
    /\ ackedAt = [r \in Revs |-> 0]
    /\ write = [w \in Writers |-> AtRest]
    /\ cache = None
    /\ read = [p \in Listings |-> AtRest]
    /\ rev = 0
    /\ memo = [r \in Revs |-> NoMemo]
    /\ tab = [t \in Tabs |-> NewTab]
    /\ missed = [t \in Tabs |-> {}]
    /\ count = [k \in Kinds |-> 0]

(* What goes on by itself: queries, answers, timers, and the passing time. *)
Progress ==
    \/ \E w \in Writers : Commit(w) \/ Returned(w)
    \/ \E p \in Listings : ListRead(p) \/ ListFill(p)
    \/ \E t \in Tabs : Boot(t) \/ Shown(t) \/ Connect(t) \/ Receive(t) \/ TryRun(t) \/ OnIdle(t)

Next ==
    \/ Progress
    \/ \E w \in Writers : Write(w) \/ WriteFails(w)
    \/ QuietWrite
    \/ \E p \in Pollers : Poll(p)
    \/ \E p \in Listings : ListFails(p)
    \/ CacheExpires
    \/ \E r \in Revs : MemoExpires(r)
    \/ \E t \in Tabs : Drop(t) \/ Busy(t) \/ RequestFails(t)
    \/ Restart

Spec == Init /\ [][Next]_vars

Fairness ==
    /\ \A w \in Writers : WF_vars(Commit(w) \/ Returned(w))
    /\ \A p \in Listings : WF_vars(ListRead(p) \/ ListFill(p))
    /\ \A t \in Tabs : /\ WF_vars(Boot(t) \/ Shown(t)) /\ WF_vars(Connect(t) \/ Receive(t))
                       /\ WF_vars(TryRun(t)) /\ WF_vars(OnIdle(t))
    /\ WF_vars(CacheExpires)

FairSpec == Spec /\ Fairness
=============================================================================
