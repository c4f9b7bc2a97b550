------------------------------ MODULE ChangeFeed ------------------------------
(***************************************************************************)
(* The two ways a client learns of other sessions' writes: the polled feed *)
(* (maad_changes_since: pages of rows in the order of (updated_at, doc_id) *)
(* after an opaque cursor) and the pushed one (maad_subscribe: an event to *)
(* every subscribed session once a write's commit is durable, the write    *)
(* lock already released). Both run beside write calls that put their rows *)
(* one at a time, before the commit that may fail.                         *)
(*                                                                         *)
(* A client uses them the way docs/change-feed.md says: it subscribes,     *)
(* catches up with a chain of pages from the beginning, reads each         *)
(* document it is told of, and takes a document it heard nothing of during *)
(* the chain for gone. A document's content is a number, new with every    *)
(* change. Versions, payloads and the project scope of a filter are left   *)
(* out.                                                                    *)
(***************************************************************************)
EXTENDS Integers, Sequences, SequencesExt, FiniteSets

CONSTANTS
  Docs,        \* document ids, numbers in the order SQLite compares them
  Calls,       \* concurrent write calls
  Clients,     \* client connections; each has one session
  Filters,     \* what a subscription may match: sets of documents (their types)
  PageLimit,   \* the limit the clients poll with
  MaxChanges,  \* bound on the changes of rows
  MaxClock     \* bound on the milliseconds that pass

ASSUME DocsAssumption == Docs \subseteq Nat /\ IsFiniteSet(Docs)
ASSUME FiltersAssumption == Filters \subseteq SUBSET Docs
ASSUME LimitAssumption == PageLimit \in Nat \ {0}
ASSUME BoundsAssumption == MaxChanges \in Nat \ {0} /\ MaxClock \in Nat

Free   == "free"
Nobody == {}
Gone   == 0
Times  == 0..MaxClock

ASSUME CallsAssumption == Free \notin Calls

VARIABLES
  rows,     \* the documents table
  clock,    \* Date.now()
  changes,  \* how often a row changed
  quiet,    \* documents whose last change no event is due for
  lock,     \* who holds the project's write lock
  call,     \* the write calls
  session,  \* the session of each client, as the server and the client see it
  known     \* what each client takes each document's content to be

vars == <<rows, clock, changes, quiet, lock, call, session, known>>

\* content is Gone for a row that is not there; deleted is the mark of a soft
\* delete, which keeps the row.
Row    == [content : 0..MaxChanges, deleted : BOOLEAN, updated : Times]
NoRow  == [content |-> Gone, deleted |-> FALSE, updated |-> 0]
Keys   == Times \X Docs
Start  == <<-1, -1>>

\* todo: documents whose rows are still to put; done: those put. events: to
\* notify, in order; to: the sessions of the snapshot still to walk.
CallRecords ==
  [pc : {"idle", "index", "commit", "notify"}, kind : {"none", "write", "delete", "noop"},
   todo : SUBSET Docs, done : SUBSET Docs, events : SeqOf(Docs, Cardinality(Docs)),
   to : SUBSET Clients, walking : BOOLEAN]
NoCall == [pc |-> "idle", kind |-> "none", todo |-> {}, done |-> {}, events |-> <<>>, to |-> {}, walking |-> FALSE]

\* sub: the filter of the subscription, Nobody without one. notifier: that
\* notifiers has an entry. polling: a chain of pages is open, cursor its last
\* nextCursor; since: the changes that had happened when it began; emitted: how
\* often it returned each document not changed since; both: the subscription has
\* been there since the chain began; unheard: documents neither this chain nor
\* an event spoke of. current: such a chain came to its end.
SessionRecords ==
  [open : {"not yet", "open", "closed"}, sub : Filters \union {Nobody}, notifier : BOOLEAN,
   polling : BOOLEAN, cursor : Keys \union {Start}, since : 0..MaxChanges, emitted : [Docs -> 0..2],
   unheard : SUBSET Docs, both : BOOLEAN, current : BOOLEAN]
NewSession ==
  [open |-> "not yet", sub |-> Nobody, notifier |-> FALSE, polling |-> FALSE, cursor |-> Start,
   since |-> 0, emitted |-> [d \in Docs |-> 0], unheard |-> {}, both |-> FALSE, current |-> FALSE]
ClosedSession == [NewSession EXCEPT !.open = "closed"]

TypeOK ==
  /\ rows \in [Docs -> Row]
  /\ clock \in Times /\ changes \in 0..MaxChanges /\ quiet \subseteq Docs
  /\ lock \in Calls \union {Free}
  /\ call \in [Calls -> CallRecords]
  /\ session \in [Clients -> SessionRecords]
  /\ known \in [Clients -> [Docs -> 0..MaxChanges]]

(* ---- The table ----------------------------------------------------------------- *)

Live(d)    == rows[d].content # Gone /\ ~rows[d].deleted
Content(d) == IF Live(d) THEN rows[d].content ELSE Gone
Key(d)     == <<rows[d].updated, d>>

\* processDocument: the row is replaced and stamped.
Put(d)       == [content |-> changes + 1, deleted |-> FALSE, updated |-> clock]
\* A soft delete marks and stamps the row, a hard one removes it.
Unlisted(d)  == {[rows[d] EXCEPT !.deleted = TRUE, !.updated = clock], NoRow}

\* Mutant of After: the comparison forgets documents of the cursor's millisecond.
AfterTime(key, cursor) == key[1] > cursor[1]

\* (updated_at > ? OR (updated_at = ? AND doc_id > ?)).
After(key, cursor) == key[1] > cursor[1] \/ (key[1] = cursor[1] /\ key[2] > cursor[2])

\* ORDER BY updated_at, doc_id.
Sorted(list) == \A i, j \in DOMAIN list : i < j => ~After(Key(list[i]), Key(list[j]))

\* listChangesSince with limit + 1: the first rows after the cursor.
Found(cursor) == {d \in Docs : Live(d) /\ After(Key(d), cursor)}
Listed(cursor) ==
  LET order == CHOOSE list \in SetToSeqs(Found(cursor)) : Sorted(list)
  IN SubSeq(order, 1, IF Len(order) <= PageLimit THEN Len(order) ELSE PageLimit + 1)

(* ---- Write calls ----------------------------------------------------------------- *)

\* A write tool call has the lock and its documents; a bulk call has several.
\* Failed items of a bulk call are not among them.
Begin(w, kind, D) ==
  /\ call[w].pc = "idle" /\ lock = Free
  /\ D # {} /\ (kind # "write" => Cardinality(D) = 1)
  /\ changes + Cardinality(D) <= MaxChanges
  /\ kind \in {"delete", "noop"} => \A d \in D : Live(d)
  /\ lock' = w
  /\ call' = [call EXCEPT ![w] = [@ EXCEPT !.pc = "index", !.kind = kind, !.todo = D]]
  /\ UNCHANGED <<rows, clock, changes, quiet, session, known>>

\* One document's row is put; the feed may show it from now on. The row of a
\* write that changes nothing keeps its stamp.
Index(w, d) ==
  /\ call[w].pc = "index" /\ d \in call[w].todo
  /\ CASE call[w].kind = "write"  -> rows' = [rows EXCEPT ![d] = Put(d)]
       [] call[w].kind = "delete" -> \E r \in Unlisted(d) : rows' = [rows EXCEPT ![d] = r]
       [] call[w].kind = "noop"   -> rows' = rows
  /\ changes' = IF call[w].kind = "noop" THEN changes ELSE changes + 1
  /\ call' = [call EXCEPT ![w].todo = @ \ {d}, ![w].done = @ \union {d},
                          ![w].pc = IF call[w].todo = {d} THEN "commit" ELSE @]
  /\ UNCHANGED <<clock, quiet, lock, session, known>>

\* Mutant of Announced: a delete is not announced.
AnnouncedWrites(w) == IF call[w].kind = "delete" THEN {} ELSE call[w].done

\* The documents a durable call fires an event for.
Announced(w) == call[w].done

\* The commit is made, or fails (writeDurable is false: the rows stay, no event
\* is fired); the lock is released. A call that committed nothing new may fire
\* its events or not.
Commit(w) ==
  /\ call[w].pc = "commit"
  /\ lock' = Free
  /\ \/ /\ quiet' = IF call[w].kind = "noop" THEN quiet ELSE quiet \ call[w].done
        /\ call' = [call EXCEPT ![w] = IF Announced(w) = {} THEN NoCall
                                      ELSE [@ EXCEPT !.pc = "notify", !.events = SetToSeq(Announced(w))]]
     \/ /\ quiet' = IF call[w].kind = "noop" THEN quiet ELSE quiet \union call[w].done
        /\ call' = [call EXCEPT ![w] = NoCall]
  /\ UNCHANGED <<rows, clock, changes, session, known>>

Registered(s) == session[s].open = "open"

\* The event at the head has been offered to everyone.
EventDone(c) ==
  IF Len(c.events) = 1 THEN NoCall
  ELSE [c EXCEPT !.walking = FALSE, !.to = {}, !.events = Tail(@)]

\* notifyWrite of the next event: the sessions are those registered now.
Walk(w) ==
  /\ call[w].pc = "notify" /\ ~call[w].walking
  /\ LET to == {s \in Clients : Registered(s)}
     IN call' = [call EXCEPT ![w] = IF to = {} THEN EventDone(@)
                                    ELSE [@ EXCEPT !.walking = TRUE, !.to = to]]
  /\ UNCHANGED <<rows, clock, changes, quiet, lock, session, known>>

\* What a client that is caught up, or is catching up, reads of the documents D.
Listening(s) == session[s].both \/ session[s].current
Read(s, D)   == IF Listening(s) THEN [d \in Docs |-> IF d \in D THEN Content(d) ELSE known[s][d]]
                ELSE known[s]

\* One session of the snapshot: the subscription and the notifier are looked up
\* when its turn comes. The client, told, reads the document.
Deliver(w, s) ==
  /\ s \in call[w].to
  /\ LET d == Head(call[w].events)
     IN IF d \in session[s].sub /\ session[s].notifier
        THEN /\ known' = [known EXCEPT ![s] = Read(s, {d})]
             /\ session' = [session EXCEPT ![s].unheard = @ \ {d}]
        ELSE UNCHANGED <<known, session>>
  /\ call' = [call EXCEPT ![w] = IF @.to = {s} THEN EventDone(@) ELSE [@ EXCEPT !.to = call[w].to \ {s}]]
  /\ UNCHANGED <<rows, clock, changes, quiet, lock>>

\* maad_reindex finds a file edited or removed by hand: the row follows it, and
\* nobody is notified.
Reindex(d) ==
  /\ lock = Free /\ changes < MaxChanges
  /\ \E r \in {Put(d)} \union (IF Live(d) THEN {NoRow} ELSE {}) : rows' = [rows EXCEPT ![d] = r]
  /\ changes' = changes + 1 /\ quiet' = quiet \union {d}
  /\ UNCHANGED <<clock, lock, call, session, known>>

Tick ==
  /\ clock < MaxClock /\ clock' = clock + 1
  /\ UNCHANGED <<rows, changes, quiet, lock, call, session, known>>

(* ---- Sessions ---------------------------------------------------------------------- *)

Server == <<rows, clock, changes, quiet, lock, call>>

\* The client's session becomes r, and what it read before counts no more.
Renewed(s, r) ==
  /\ session' = [session EXCEPT ![s] = r]
  /\ known' = [known EXCEPT ![s] = [d \in Docs |-> Gone]]
  /\ UNCHANGED Server

WithFilter(s, f) == [session[s] EXCEPT !.sub = f, !.both = FALSE, !.unheard = {}, !.current = FALSE]

\* onsessioninitialized: the session is created and its notifier registered.
Open(s) ==
  /\ session[s].open = "not yet"
  /\ Renewed(s, [session[s] EXCEPT !.open = "open", !.notifier = TRUE])

\* maad_subscribe; a second one replaces the filter.
Subscribe(s, f) ==
  /\ Registered(s) /\ session[s].sub # f
  /\ Renewed(s, WithFilter(s, f))

\* maad_unsubscribe. The same becomes of a session that a reload cancelled: its
\* next call destroys it, the one after makes a new one without a subscription.
Unsubscribe(s) ==
  /\ Registered(s) /\ session[s].sub # Nobody
  /\ Renewed(s, WithFilter(s, Nobody))

\* transport.onclose drops the notifier and destroys the session. The idle sweep
\* deletes the entry first, so that onclose finds none and leaves the notifier.
Close(s) ==
  /\ Registered(s)
  /\ \E left \in BOOLEAN : Renewed(s, [ClosedSession EXCEPT !.notifier = left])

(* ---- The polled feed ------------------------------------------------------------------ *)

\* A chain begins: no cursor yet.
StartChain(s) ==
  /\ Registered(s) /\ ~session[s].polling
  /\ session' = [session EXCEPT ![s] = [@ EXCEPT !.polling = TRUE, !.since = changes,
                                                  !.both = session[s].sub # Nobody,
                                                  !.unheard = IF session[s].sub # Nobody THEN Docs ELSE {}]]
  /\ UNCHANGED <<Server, known>>

\* The extra row is how the code knows of more.
HasMore(list) == Len(list) > PageLimit
PageOf(list)  == IF HasMore(list) THEN SubSeq(list, 1, PageLimit) ELSE list

Untouched(s, d) == rows[d].content <= session[s].since
Counted(s, page) ==
  [d \in Docs |-> LET n == session[s].emitted[d]
                  IN IF d \in page /\ Untouched(s, d) /\ n < 2 THEN n + 1 ELSE n]

ChainEnds(r) ==
  [r EXCEPT !.current = @ \/ r.both, !.polling = FALSE, !.cursor = Start, !.since = 0,
            !.emitted = [d \in Docs |-> 0], !.unheard = {}, !.both = FALSE]

\* maad_changes_since with the chain's cursor. The last page has no nextCursor
\* and ends the chain; what nothing was heard of is gone.
Poll(s) ==
  /\ session[s].polling
  /\ LET list   == Listed(session[s].cursor)
         page   == PageOf(list)
         silent == session[s].unheard \ ToSet(page)
     IN IF HasMore(list)
        THEN /\ session' = [session EXCEPT ![s] =
                  [@ EXCEPT !.cursor = Key(Last(page)), !.unheard = silent, !.emitted = Counted(s, ToSet(page))]]
             /\ known' = [known EXCEPT ![s] = Read(s, ToSet(page))]
        ELSE /\ session' = [session EXCEPT ![s] = ChainEnds(@)]
             /\ known' = [known EXCEPT ![s] =
                  [d \in Docs |-> IF d \in silent THEN Gone ELSE Read(s, ToSet(page))[d]]]
  /\ UNCHANGED Server

(* ---- The specification -------------------------------------------------------------------- *)

\* The process dies: calls and sessions are gone, rows that were put are still
\* there and no event will speak of them.
Crash ==
  /\ \E s \in Clients : Registered(s)
  /\ call' = [w \in Calls |-> NoCall] /\ lock' = Free
  /\ quiet' = quiet \union UNION {call[w].done : w \in Calls}
  /\ session' = [s \in Clients |-> IF Registered(s) THEN ClosedSession ELSE session[s]]
  /\ known' = [s \in Clients |-> [d \in Docs |-> Gone]]
  /\ UNCHANGED <<rows, clock, changes>>

\* Every set of documents may be there at the beginning, written in one instant.
Init ==
  /\ \E D \in SUBSET Docs : rows = [d \in Docs |-> IF d \in D THEN [NoRow EXCEPT !.content = 1] ELSE NoRow]
  /\ clock = 0 /\ changes = 1 /\ quiet = {} /\ lock = Free
  /\ call = [w \in Calls |-> NoCall]
  /\ session = [s \in Clients |-> NewSession]
  /\ known = [s \in Clients |-> [d \in Docs |-> Gone]]

CallStep(w) ==
  \/ \E kind \in {"write", "delete", "noop"}, D \in SUBSET Docs : Begin(w, kind, D)
  \/ \E d \in Docs : Index(w, d)
  \/ Commit(w) \/ Walk(w)
  \/ \E s \in Clients : Deliver(w, s)

SessionStep(s) ==
  \/ Open(s) \/ Unsubscribe(s) \/ Close(s)
  \/ \E f \in Filters : Subscribe(s, f)
  \/ StartChain(s) \/ Poll(s)

Next ==
  \/ \E w \in Calls : CallStep(w)
  \/ \E s \in Clients : SessionStep(s)
  \/ \E d \in Docs : Reindex(d)
  \/ Tick \/ Crash

Spec == Init /\ [][Next]_vars

(* ---- Properties ------------------------------------------------------------------------------ *)

InFlight(d) == \E w \in Calls : d \in call[w].todo \union call[w].done

\* A chain of pages, whatever is written, deleted and reindexed between two of
\* them and however many rows share a millisecond, has returned each document
\* that was there when it began and was not touched since exactly once when its
\* cursor has passed the document, and not at all before (reads.ts changesSince
\* and sqlite/index.ts listChangesSince).
PagesCoverOnce ==
  \A s \in Clients : session[s].polling =>
    \A d \in Docs : (Live(d) /\ rows[d].content <= session[s].since) =>
      session[s].emitted[d] = IF After(Key(d), session[s].cursor) THEN 0 ELSE 1

\* A client that subscribed and then caught up knows the state of every document
\* of its filter whose last change was announced, as soon as no call on that
\* document is in flight: no change is lost between the feed's pages, the
\* subscription and the events of calls that overtake one another after they
\* released the lock (notifications.ts notifyWrite, docs/change-feed.md).
SubscriberKnowsLatest ==
  \A s \in Clients : session[s].current =>
    \A d \in session[s].sub \ quiet : ~InFlight(d) => known[s][d] = Content(d)
===============================================================================
