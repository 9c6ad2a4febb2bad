--------------------------- MODULE LiveDataProps ---------------------------
(***************************************************************************)
(* What the caches and the event stream are expected to guarantee.         *)
(***************************************************************************)
EXTENDS LiveData

Counts == [Kinds -> Nat]
Event == [rev : Revs, quiet : BOOLEAN]
Tab == [open : BOOLEAN, inbox : Seq(Event), last : Revs \cup {None}, timer : BOOLEAN,
        dirty : BOOLEAN, busy : BOOLEAN, req : Revs \cup {None}, due : Rows,
        shown : Rows \cup {None}]
Call == [pc : {"idle", "query", "answer"}, ver : Rows]

(* The values each variable may hold; a bootstrap of the memo is running   *)
(* exactly while its listing is, and whoever waits for one will get it.    *)
TypeOK ==
    /\ rows \in Rows /\ acked \in 0..rows /\ rev \in Revs
    /\ ackedAt \in [Revs -> Rows]
    /\ write \in [Writers -> Call]
    /\ cache \in Rows \cup {None}
    /\ read \in [Listings -> Call]
    /\ memo \in [Revs -> [st : {"none", "running", "done"}, ver : Rows]]
    /\ tab \in [Tabs -> Tab]
    /\ missed \in [Tabs -> SUBSET Reasons]
    /\ count \in Counts
    /\ \A r \in Revs : memo[r].st = "running" <=> read[r].pc # "idle"
    /\ \A t \in Tabs : tab[t].req # None => memo[tab[t].req].st # "none"

(* routes.bootstrap.js: requests share a bootstrap within a revision, and  *)
(* each gets every write that returned before it asked, however long ago   *)
(* the computation it joined was begun (unless a late answer had filled    *)
(* the cache of the list).                                                 *)
NoLateFill == \A t \in Tabs : "fill" \notin missed[t]
AnswersAreFresh ==
    NoLateFill => \A t \in Tabs :
        tab[t].req # None /\ memo[tab[t].req].st = "done" => memo[tab[t].req].ver >= tab[t].due

(* The inductive invariant: the revision is bounded by the writes begun,   *)
(* an answer never runs ahead of the rows, nothing is known of a revision  *)
(* to come, a listing and a shared bootstrap hold what their revision had  *)
(* announced, and so does the cache, until a late answer fills it; what a  *)
(* request is due was announced by the revision it asked for.              *)
RevBounded ==
    /\ \A k \in Kinds : count[k] <= Bounds[k]
    /\ rev + Cardinality({w \in Writers : write[w].pc # "idle"}) <= count["writes"] + count["quiet"]
AnswersCommitted == \A w \in Writers : write[w].pc = "answer" => write[w].ver <= rows
FutureUnknown == \A r \in Revs : r > rev => memo[r].st = "none"
AnnouncedIsAcked == \A r \in Revs : ackedAt[r] <= acked
ListingIsFresh == \A r \in Revs : read[r].pc = "answer" => read[r].ver >= ackedAt[r]
CacheIsFresh == NoLateFill => cache = None \/ cache >= acked
SharedBootstrapIsFresh ==
    NoLateFill => \A r \in Revs : memo[r].st = "done" => memo[r].ver >= ackedAt[r]
RequestsAreCovered ==
    /\ ackedAt[rev] = acked
    /\ \A t \in Tabs : tab[t].req # None => tab[t].due <= ackedAt[tab[t].req]

DataInv ==
    /\ TypeOK /\ RevBounded /\ AnswersCommitted /\ FutureUnknown /\ AnnouncedIsAcked
    /\ ListingIsFresh /\ CacheIsFresh /\ SharedBootstrapIsFresh
Inv == DataInv /\ RequestsAreCovered

(* changes.js, app.jsx: through cut streams, restarts, hidden tabs and     *)
(* edited fields, a tab ends up showing the committed rows unless one of   *)
(* the five things recorded in `missed` happened to it.                    *)
ScreensCatchUp == \A t \in Tabs : <>[](tab[t].shown = rows \/ missed[t] # {})
=============================================================================
