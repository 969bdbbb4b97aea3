----------------------------- MODULE SyncManager -----------------------------
(***************************************************************************)
(* BoundarySyncManager, one per process, over one optional backend (Redis) *)
(* they share.  Threads put, evict and get; a step is what happens under   *)
(* the manager's lock, or one call to the backend outside it.              *)
(*                                                                         *)
(* A key has one owner, the thread that executes its capsule: it alone     *)
(* puts and evicts the key, one call after the other.  A key is used       *)
(* through the synchronous interface or through the asynchronous one.      *)
(***************************************************************************)
EXTENDS Naturals, FiniteSets

CONSTANTS
    None,         \* Python's None
    Managers,     \* the processes
    Owners,       \* the threads that put and evict
    Readers,      \* the threads, or tasks, that get
    Home,         \* thread -> its process
    Keys, AsyncKeys,
    OwnerOf,      \* key -> thread
    Texts,        \* what is put
    HasBackend, Expires,     \* backend=...; ttl_seconds=...
    MaxPuts, MaxGets, MaxRestarts   \* bounds on the client

Threads == Owners \cup Readers
Errors  == {"TimeoutError", "KeyError"}
Entries == [text : Texts, by : {"put", "backend"}]

ASSUME SyncAssumption ==
    /\ Home \in [Threads -> Managers] /\ OwnerOf \in [Keys -> Owners]
    /\ AsyncKeys \subseteq Keys
    /\ HasBackend \in BOOLEAN /\ Expires \in BOOLEAN
    /\ {MaxPuts, MaxGets, MaxRestarts} \subseteq Nat

\* An exception is no text, and Python's None is neither, nor a key, an event
\* or an entry.
ASSUME NoneAssumption ==
    /\ Texts \cap Errors = {}
    /\ None \notin Keys \cup Texts \cup Errors \cup {"clear", "set"} /\ None \notin Entries

VARIABLES
    store,     \* _store: manager -> key -> entry, or None
    event,     \* _sync_events, _events: manager -> key -> None, "clear" or "set"
    backend,   \* key -> text, or None
    work,      \* owner -> the backend calls its put or evict still has to make
    wait,      \* reader -> the key it waits for, and the event it waits on:
               \* the "shared" one, or one popped since, "clear" or "set"
    answer,    \* reader -> what its last get came to: a text or an error
    gone,      \* keys evicted from everywhere, and not put since
    tally      \* [puts, gets, restarts] so far

vars == <<store, event, backend, work, wait, answer, gone, tally>>

\* An entry: the item of a put, or the stub get_sync makes of a backend's text.
Entry(text, by) == [text |-> text, by |-> by]

Idle    == [op |-> "idle", keys |-> {}, text |-> None]
NoWait  == [key |-> None, on |-> "shared"]
Mine(p) == {k \in Keys : OwnerOf[k] = p}

Count(what, max) == tally[what] < max /\ tally' = [tally EXCEPT ![what] = @ + 1]

Init ==
    /\ store   = [m \in Managers |-> [k \in Keys |-> None]]
    /\ event   = [m \in Managers |-> [k \in Keys |-> None]]
    /\ backend = [k \in Keys |-> None]
    /\ work    = [p \in Owners |-> Idle]
    /\ wait    = [c \in Readers |-> NoWait]
    /\ answer  = [c \in Readers |-> None]
    /\ gone    = {}
    /\ tally   = [puts |-> 0, gets |-> 0, restarts |-> 0]

-----------------------------------------------------------------------------
(* put_sync, put *)

MutSignalled(m, k) == event

\* The event of k is set, if somebody registered one.
Signalled(m, k) == [event EXCEPT ![m][k] = IF @ = None THEN None ELSE "set"]

\* put_sync under the lock; put is the same for its event loop, and has no
\* second half.
Put(p, k, text) ==
    LET m == Home[p]
    IN  /\ work[p] = Idle /\ OwnerOf[k] = p
        /\ Count("puts", MaxPuts)
        /\ store' = [store EXCEPT ![m][k] = Entry(text, "put")]
        /\ event' = Signalled(m, k)
        /\ gone'  = gone \ {k}
        /\ work'  = IF HasBackend /\ k \notin AsyncKeys
                    THEN [work EXCEPT ![p] = [op |-> "mirror", keys |-> {k}, text |-> text]]
                    ELSE work
        /\ UNCHANGED <<backend, wait, answer>>

\* The second half of put_sync, outside the lock.
Mirror(p) ==
    /\ work[p].op = "mirror"
    /\ backend' = [k \in Keys |-> IF k \in work[p].keys THEN work[p].text ELSE backend[k]]
    /\ work' = [work EXCEPT ![p] = Idle]
    /\ UNCHANGED <<store, event, wait, answer, gone, tally>>

-----------------------------------------------------------------------------
(* evict, evict_tag *)

\* The keys whose entry and events go: those in the store.
MutEvicted(m, scope) == scope

Evicted(m, scope) == {k \in scope : store[m][k] # None}

\* Under the lock; a scope is a set of keys, a singleton for evict_tag.
\* Who waits on an event that is popped keeps it.
Evict(p, scope) ==
    LET m    == Home[p]
        keys == Evicted(m, scope)
    IN  /\ work[p] = Idle /\ scope # {} /\ scope \subseteq Mine(p)
        /\ store' = [store EXCEPT ![m] = [k \in Keys |-> IF k \in keys THEN None ELSE @[k]]]
        /\ event' = [event EXCEPT ![m] = [k \in Keys |-> IF k \in keys THEN None ELSE @[k]]]
        /\ wait'  = [c \in Readers |->
                        IF Home[c] = m /\ wait[c].key \in keys /\ wait[c].on = "shared"
                        THEN [wait[c] EXCEPT !.on = event[m][wait[c].key]] ELSE wait[c]]
        /\ IF HasBackend
           THEN work' = [work EXCEPT ![p] = [op |-> "list", keys |-> scope, text |-> None]]
                /\ UNCHANGED gone
           ELSE gone' = gone \cup scope /\ UNCHANGED work
        /\ UNCHANGED <<backend, answer, tally>>

\* The backend's keys are listed (or looked up), then deleted one by one.
MutInBackend(p) ==
    {k \in work[p].keys : backend[k] # None /\ store[Home[p]][k] # None}

InBackend(p) == {k \in work[p].keys : backend[k] # None}

List(p) ==
    /\ work[p].op = "list"
    /\ work' = [work EXCEPT ![p] = IF InBackend(p) = {} THEN Idle
                                   ELSE [@ EXCEPT !.op = "delete", !.keys = InBackend(p)]]
    /\ gone' = IF InBackend(p) = {} THEN gone \cup work[p].keys
               ELSE gone \cup (work[p].keys \ InBackend(p))
    /\ UNCHANGED <<store, event, backend, wait, answer, tally>>

MutDelete(p, k) ==
    /\ work[p].op = "delete" /\ k \in work[p].keys
    /\ backend' = [backend EXCEPT ![k] = None]
    /\ gone' = gone \cup {k}
    /\ work' = [work EXCEPT ![p].keys = @ \ {k}]
    /\ UNCHANGED <<store, event, wait, answer, tally>>

Delete(p, k) ==
    /\ work[p].op = "delete" /\ k \in work[p].keys
    /\ backend' = [backend EXCEPT ![k] = None]
    /\ gone' = gone \cup {k}
    /\ IF work[p].keys = {k} THEN work' = [work EXCEPT ![p] = Idle]
                             ELSE work' = [work EXCEPT ![p].keys = @ \ {k}]
    /\ UNCHANGED <<store, event, wait, answer, tally>>

\* RedisBackend(ttl_seconds=...): an entry expires.
Expire(k) ==
    /\ Expires /\ backend[k] # None
    /\ backend' = [backend EXCEPT ![k] = None]
    /\ UNCHANGED <<store, event, work, wait, answer, gone, tally>>

-----------------------------------------------------------------------------
(* get_sync, get *)

Waiting(c) == wait[c] # NoWait

\* Whether the event c waits on is set.
Woken(c) == IF wait[c].on = "shared" THEN event[Home[c]][wait[c].key] = "set"
            ELSE wait[c].on = "set"

Answered(c, a) == /\ answer' = [answer EXCEPT ![c] = a]
                  /\ wait' = [wait EXCEPT ![c] = NoWait]

\* What is in the store is returned at once; else an event is registered.
Get(c, k) ==
    LET m == Home[c]
    IN  /\ ~Waiting(c)
        /\ Count("gets", MaxGets)
        /\ IF store[m][k] # None
           THEN Answered(c, store[m][k].text) /\ UNCHANGED event
           ELSE /\ event' = [event EXCEPT ![m][k] = IF @ = None THEN "clear" ELSE @]
                /\ wait' = [wait EXCEPT ![c] = [key |-> k, on |-> "shared"]]
                /\ answer' = [answer EXCEPT ![c] = None]
        /\ UNCHANGED <<store, backend, work, gone>>

\* Event.wait(timeout) gives up; the asynchronous get has no timeout.
TimeOut(c) ==
    /\ Waiting(c) /\ ~Woken(c) /\ wait[c].key \notin AsyncKeys
    /\ Answered(c, "TimeoutError")
    /\ UNCHANGED <<store, event, backend, work, gone, tally>>

\* Woken, and under the lock again: the store, then the backend, of whose text
\* a stub is stored (no event is set), and then the store's KeyError.
Fetch(c) ==
    /\ Waiting(c) /\ Woken(c)
    /\ LET m == Home[c]
           k == wait[c].key
       IN  IF store[m][k] # None
           THEN Answered(c, store[m][k].text) /\ UNCHANGED store
           ELSE IF k \notin AsyncKeys /\ HasBackend /\ backend[k] # None
           THEN /\ Answered(c, backend[k])
                /\ store' = [store EXCEPT ![m][k] = Entry(backend[k], "backend")]
           ELSE Answered(c, "KeyError") /\ UNCHANGED store
    /\ UNCHANGED <<event, backend, work, gone, tally>>

-----------------------------------------------------------------------------

\* The process dies and is started again, with an empty manager.
Restart(m) ==
    LET lives(t) == Home[t] # m
    IN  /\ Count("restarts", MaxRestarts)
        /\ store'  = [store EXCEPT ![m] = [k \in Keys |-> None]]
        /\ event'  = [event EXCEPT ![m] = [k \in Keys |-> None]]
        /\ work'   = [p \in Owners  |-> IF lives(p) THEN work[p] ELSE Idle]
        /\ wait'   = [c \in Readers |-> IF lives(c) THEN wait[c] ELSE NoWait]
        /\ answer' = [c \in Readers |-> IF lives(c) THEN answer[c] ELSE None]
        /\ UNCHANGED <<backend, gone>>

Next ==
    \/ \E p \in Owners : \/ \E k \in Keys, text \in Texts : Put(p, k, text)
                         \/ Mirror(p)
                         \/ \E scope \in SUBSET Keys : Evict(p, scope)
                         \/ List(p)
                         \/ \E k \in Keys : Delete(p, k)
    \/ \E k \in Keys : Expire(k)
    \/ \E c \in Readers : \/ \E k \in Keys : Get(c, k)
                          \/ TimeOut(c)
                          \/ Fetch(c)
    \/ \E m \in Managers : Restart(m)

\* A thread whose event is set is scheduled, and gets the lock.
Spec == Init /\ [][Next]_vars /\ \A c \in Readers : WF_vars(Fetch(c))

-----------------------------------------------------------------------------

Stored == Texts \cup {None}

\* The producer's own item of k is in m's store.
Produced(m, k) == store[m][k] \in [text : Texts, by : {"put"}]

TypeOK ==
    /\ store \in [Managers -> [Keys -> Entries \cup {None}]] /\ backend \in [Keys -> Stored]
    /\ event \in [Managers -> [Keys -> {None, "clear", "set"}]]
    /\ work \in [Owners -> [op : {"idle", "mirror", "list", "delete"},
                            keys : SUBSET Keys, text : Stored]]
    /\ \A p \in Owners : work[p] = Idle <=> work[p].keys = {}
    /\ wait \in [Readers -> [key : Keys \cup {None}, on : {"shared", "clear", "set"}]]
    /\ answer \in [Readers -> Stored \cup Errors]
    /\ gone \subseteq Keys

\* The event c waits on was popped before it was set, of a key that may have
\* had a stub.
Stranded(c) == wait[c].on = "clear" /\ HasBackend /\ wait[c].key \notin AsyncKeys

\* Every event belongs to somebody's wait or to an entry: a shared event that
\* is set has its key in the store, one that is clear has no produced item
\* there, and a waiter never holds a clear event that nobody can set any more
\* (put_sync, get_sync and the pops of evict and evict_tag).  There is one way
\* out: the stub that another reader's get_sync stores leaves the event clear,
\* and evicting the stub pops it.
EventsMatchStore ==
    /\ \A m \in Managers, k \in Keys :
           /\ event[m][k] = "set" => store[m][k] # None
           /\ event[m][k] = "clear" => ~Produced(m, k)
    /\ \A c \in Readers :
           wait[c].key # None => IF wait[c].on = "shared"
                                 THEN event[Home[c]][wait[c].key] # None
                                 ELSE wait[c].on = "set" \/ Stranded(c)

\* A get fails for a reason: TimeoutError only while no item its producer put
\* is in its own store (or stranded), KeyError only when the entry was evicted
\* after it began to wait.
ErrorsAreTrue ==
    [][\A c \in Readers : Waiting(c) /\ ~Waiting(c)' =>
           /\ answer'[c] = "TimeoutError" => Stranded(c) \/ ~Produced(Home[c], wait[c].key)
           /\ answer'[c] = "KeyError"     => wait[c].on = "set"]_vars

\* A text evict or evict_tag has removed stays out of the backend until the
\* next put, also when the process restarted in between and had nothing in
\* memory; no half-done put or delete brings it back.
EvictedIsGone == HasBackend => \A k \in gone : backend[k] = None

\* A waiting get returns when its key is put in its manager, whatever is
\* evicted, put again or timed out meanwhile: no wake-up is lost, but for a
\* waiter stranded by the eviction of a stub.
WaitersWake ==
    \A c \in Readers, k \in Keys :
        (wait[c].key = k /\ Produced(Home[c], k)) ~> (wait[c].key # k \/ Stranded(c))

=============================================================================
