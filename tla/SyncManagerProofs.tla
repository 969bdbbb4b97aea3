-------------------------- MODULE SyncManagerProofs --------------------------
(***************************************************************************)
(* Proofs about SyncManager, for any processes, threads, keys and texts,   *)
(* with or without a backend, and any number of puts, gets and restarts.   *)
(*                                                                         *)
(* Two inductive invariants: SyncInv relates a manager's events to its     *)
(* store and its waiters, WorkInv the backend to the calls still under way.*)
(***************************************************************************)
EXTENDS SyncManager, TLAPS

\* An entry by "backend" is a stub, and only get_sync makes stubs.
StubsAreMirrored ==
    \A m \in Managers, k \in Keys :
        store[m][k] # None /\ store[m][k].by = "backend" => HasBackend /\ k \notin AsyncKeys

\* Who does not wait holds no event.
NoIdleWait == \A c \in Readers : wait[c].key = None => wait[c] = NoWait

SyncInv == TypeOK /\ StubsAreMirrored /\ NoIdleWait /\ EventsMatchStore

\* An owner calls the backend for its own keys alone.
WorkIsOwned == \A p \in Owners : work[p].keys \subseteq Mine(p)

\* A put that is not mirrored yet has taken its key out of `gone`.
PutsAreBack == \A p \in Owners : work[p].op = "mirror" => work[p].keys \cap gone = {}

WorkInv == WorkIsOwned /\ PutsAreBack /\ EvictedIsGone

-----------------------------------------------------------------------------
Wait == [key : Keys \cup {None}, on : {"shared", "clear", "set"}]

(* The part of TypeOK about the calls under way.                             *)
Call   == [op : {"idle", "mirror", "list", "delete"}, keys : SUBSET Keys, text : Stored]
WorkOK == work \in [Owners -> Call] /\ \A p \in Owners : work[p] = Idle <=> work[p].keys = {}

LEMMA WorkChanges ==
    ASSUME WorkOK, NEW p \in Owners, NEW w \in Call, w = Idle <=> w.keys = {},
           work' = [work EXCEPT ![p] = w]
    PROVE  WorkOK'
BY DEF WorkOK

(* Every entry, event, wait and backend call keeps its type, and a call is   *)
(* under way exactly when it has keys left.  The events a waiter keeps when  *)
(* evict pops them need EventsMatchStore: there is one to pop.               *)
LEMMA TypeStep == TypeOK /\ NoIdleWait /\ EventsMatchStore /\ [Next]_vars => TypeOK'
<1> SUFFICES ASSUME TypeOK, NoIdleWait, EventsMatchStore, [Next]_vars PROVE TypeOK'
    OBVIOUS
<1>a. store \in [Managers -> [Keys -> Entries \cup {None}]] /\ backend \in [Keys -> Stored]
    BY DEF TypeOK
<1>b. event \in [Managers -> [Keys -> {None, "clear", "set"}]]
    BY DEF TypeOK
<1>c. WorkOK /\ Idle \in Call
    BY DEF TypeOK, WorkOK, Call, Idle, Stored
<1>d. wait \in [Readers -> Wait] /\ NoWait \in Wait
    BY DEF TypeOK, Wait, NoWait
<1>e. answer \in [Readers -> Stored \cup Errors] /\ gone \subseteq Keys
    BY DEF TypeOK
<1>f. \A t \in Owners \cup Readers : Home[t] \in Managers
    BY SyncAssumption DEF Threads
<1>g. \A e \in Entries : e.text \in Texts
    BY DEF Entries
<1>h. \A text \in Texts, by \in {"put", "backend"} : Entry(text, by) \in Entries
    BY DEF Entries, Entry
<1>i. Texts \subseteq Stored /\ None \in Stored
    BY DEF Stored
<1> DEFINE Types == /\ store \in [Managers -> [Keys -> Entries \cup {None}]]
                    /\ backend \in [Keys -> Stored]
                    /\ event \in [Managers -> [Keys -> {None, "clear", "set"}]]
                    /\ WorkOK
                    /\ wait \in [Readers -> Wait]
                    /\ answer \in [Readers -> Stored \cup Errors]
                    /\ gone \subseteq Keys
<1> SUFFICES Types'
    BY DEF TypeOK, WorkOK, Call, Wait
<1>1. ASSUME NEW p \in Owners, NEW k \in Keys, NEW text \in Texts, Put(p, k, text)
      PROVE  Types'
    <2> DEFINE m == Home[p]
    <2>1. m \in Managers /\ Entry(text, "put") \in Entries
        BY <1>f, <1>h
    <2>2. store' \in [Managers -> [Keys -> Entries \cup {None}]]
        BY <1>1, <1>a, <2>1 DEF Put
    <2>3. event' \in [Managers -> [Keys -> {None, "clear", "set"}]]
        BY <1>1, <1>b, <2>1 DEF Put, Signalled
    <2>4. WorkOK'
        <3> DEFINE w == [op |-> "mirror", keys |-> {k}, text |-> text]
        <3>1. w \in Call /\ w # Idle /\ w.keys # {}
            BY DEF Call, Idle, Stored
        <3>2. CASE work' = [work EXCEPT ![p] = w]
            BY <1>c, <3>1, <3>2, WorkChanges
        <3>3. CASE work' = work
            BY <1>c, <3>3 DEF WorkOK
        <3> QED
            BY <1>1, <3>2, <3>3 DEF Put
    <2> QED
        BY <1>1, <1>a, <1>d, <1>e, <2>2, <2>3, <2>4 DEF Put
<1>2. ASSUME NEW p \in Owners, Mirror(p)
      PROVE  Types'
    <2>1. WorkOK'
        BY <1>2, <1>c, WorkChanges DEF Mirror, Idle
    <2>2. backend' \in [Keys -> Stored]
        BY <1>2, <1>a, <1>c DEF Mirror, WorkOK, Call
    <2> QED
        BY <1>2, <1>a, <1>b, <1>d, <1>e, <2>1, <2>2 DEF Mirror
<1>3. ASSUME NEW p \in Owners, NEW scope \in SUBSET Keys, Evict(p, scope)
      PROVE  Types'
    <2> DEFINE m == Home[p]
               keys == Evicted(m, scope)
    <2>1. m \in Managers /\ keys \subseteq Keys
        BY <1>f DEF Evicted
    <2>2. store' \in [Managers -> [Keys -> Entries \cup {None}]]
        BY <1>3, <1>a, <2>1 DEF Evict
    <2>3. event' \in [Managers -> [Keys -> {None, "clear", "set"}]]
        BY <1>3, <1>b, <2>1 DEF Evict
    <2>4. WorkOK'
        <3> DEFINE w == [op |-> "list", keys |-> scope, text |-> None]
        <3>1. w \in Call /\ w # Idle /\ w.keys # {}
            BY <1>3 DEF Call, Evict, Idle, Stored
        <3>2. CASE work' = [work EXCEPT ![p] = w]
            BY <1>c, <3>1, <3>2, WorkChanges
        <3>3. CASE work' = work
            BY <1>c, <3>3 DEF WorkOK
        <3> QED
            BY <1>3, <3>2, <3>3 DEF Evict
    <2>5. wait' \in [Readers -> Wait]
        <3> SUFFICES ASSUME NEW c \in Readers
                     PROVE  wait'[c] \in Wait
            BY <1>3 DEF Evict
        <3>1. CASE Home[c] = m /\ wait[c].key \in keys /\ wait[c].on = "shared"
            <4>1. wait[c].key \in Keys /\ wait[c].key # None
                BY <2>1, <3>1, NoneAssumption
            <4>2. event[m][wait[c].key] \in {"clear", "set"}
                BY <1>b, <2>1, <3>1, <4>1 DEF EventsMatchStore
            <4>3. wait'[c] = [wait[c] EXCEPT !.on = event[m][wait[c].key]]
                BY <1>3, <3>1 DEF Evict
            <4>4. PICK w \in Wait, e \in {"clear", "set"} : wait'[c] = [w EXCEPT !.on = e]
                BY <1>d, <4>2, <4>3, Zenon
            <4> QED
                BY <4>4 DEF Wait
        <3>2. CASE ~(Home[c] = m /\ wait[c].key \in keys /\ wait[c].on = "shared")
            BY <1>3, <1>d, <3>2 DEF Evict
        <3> QED
            BY <3>1, <3>2
    <2>6. gone' \subseteq Keys
        BY <1>3, <1>e DEF Evict
    <2> QED
        BY <1>3, <1>a, <1>e, <2>2, <2>3, <2>4, <2>5, <2>6 DEF Evict
<1>4. ASSUME NEW p \in Owners, List(p)
      PROVE  Types'
    <2>0. work[p] \in Call /\ InBackend(p) \subseteq Keys
        BY <1>c DEF WorkOK, Call, InBackend
    <2>1. WorkOK'
        <3> DEFINE w == [work[p] EXCEPT !.op = "delete", !.keys = InBackend(p)]
        <3>1. CASE InBackend(p) = {}
            BY <1>4, <1>c, <3>1, WorkChanges DEF List, Idle
        <3>2. CASE InBackend(p) # {}
            <4>1. \A v \in Call, S \in SUBSET Keys :
                     LET u == [v EXCEPT !.op = "delete", !.keys = S]
                     IN  u \in Call /\ u.op = "delete" /\ u.keys = S
                BY DEF Call
            <4>2. w \in Call /\ w.op = "delete" /\ w.keys = InBackend(p)
                BY <2>0, <4>1
            <4>3. work' = [work EXCEPT ![p] = w]
                BY <1>4, <3>2 DEF List
            <4> HIDE DEF w
            <4>4. w # Idle
                BY <4>2 DEF Idle
            <4> QED
                BY <1>c, <3>2, <4>2, <4>3, <4>4, WorkChanges
        <3> QED
            BY <3>1, <3>2
    <2>2. gone' \subseteq Keys
        BY <1>4, <1>c, <1>e, <2>0 DEF List, WorkOK, Call
    <2> QED
        BY <1>4, <1>a, <1>b, <1>d, <1>e, <2>1, <2>2 DEF List
<1>5. ASSUME NEW p \in Owners, NEW k \in Keys, Delete(p, k)
      PROVE  Types'
    <2>1. WorkOK'
        <3> DEFINE w == [work[p] EXCEPT !.keys = work[p].keys \ {k}]
        <3>1. CASE work[p].keys = {k}
            BY <1>5, <1>c, <3>1, WorkChanges DEF Delete, Idle
        <3>2. CASE work[p].keys # {k}
            <4>1. \A v \in Call, S \in SUBSET Keys :
                     LET u == [v EXCEPT !.keys = S]
                     IN  u \in Call /\ u.op = v.op /\ u.keys = S
                BY DEF Call
            <4>2. work[p] \in Call /\ work[p].keys \ {k} \in SUBSET Keys
                BY <1>c DEF WorkOK, Call
            <4>3. w \in Call /\ w.op = "delete" /\ w.keys = work[p].keys \ {k}
                BY <1>5, <4>1, <4>2 DEF Delete
            <4>4. work' = [work EXCEPT ![p] = w]
                BY <1>5, <3>2 DEF Delete
            <4>5. w.keys # {}
                BY <1>5, <3>2, <4>3 DEF Delete
            <4> HIDE DEF w
            <4>6. w # Idle
                BY <4>3 DEF Idle
            <4> QED
                BY <1>c, <4>3, <4>4, <4>5, <4>6, WorkChanges
        <3> QED
            BY <3>1, <3>2
    <2>2. backend' \in [Keys -> Stored] /\ gone' \subseteq Keys
        BY <1>5, <1>a, <1>e, <1>i DEF Delete
    <2> QED
        BY <1>5, <1>a, <1>b, <1>d, <1>e, <2>1, <2>2 DEF Delete
<1>6. ASSUME NEW k \in Keys, Expire(k)
      PROVE  Types'
    BY <1>6, <1>a, <1>b, <1>c, <1>d, <1>e, <1>i DEF Expire, WorkOK
<1>7. ASSUME NEW c \in Readers, NEW k \in Keys, Get(c, k)
      PROVE  Types'
    <2> DEFINE m == Home[c]
    <2>1. m \in Managers
        BY <1>f
    <2>2. event' \in [Managers -> [Keys -> {None, "clear", "set"}]]
        BY <1>7, <1>b, <2>1 DEF Get
    <2>3. wait' \in [Readers -> Wait]
        <3>1. [key |-> k, on |-> "shared"] \in Wait
            BY DEF Wait
        <3> QED
            BY <1>7, <1>d, <3>1 DEF Get, Answered
    <2>4. answer' \in [Readers -> Stored \cup Errors]
        <3>1. store[m][k] # None => store[m][k].text \in Stored
            BY <1>a, <1>g, <1>i, <2>1
        <3> QED
            BY <1>7, <1>e, <1>i, <3>1 DEF Get, Answered
    <2> QED
        BY <1>7, <1>a, <1>c, <1>e, <2>2, <2>3, <2>4 DEF Get, WorkOK
<1>8. ASSUME NEW c \in Readers, TimeOut(c)
      PROVE  Types'
    BY <1>8, <1>a, <1>b, <1>c, <1>d, <1>e DEF TimeOut, Answered, Errors, WorkOK
<1>9. ASSUME NEW c \in Readers, Fetch(c)
      PROVE  Types'
    <2> DEFINE m == Home[c]
               k == wait[c].key
    <2>1. m \in Managers /\ k \in Keys
        <3>1. wait[c] \in Wait /\ wait[c].key # None
            BY <1>9, <1>d DEF Fetch, Waiting, NoIdleWait
        <3> QED
            BY <1>f, <3>1 DEF Wait
    <2>2. wait' \in [Readers -> Wait]
        BY <1>9, <1>d DEF Fetch, Answered
    <2>3. store[m][k] # None => store[m][k].text \in Stored
        BY <1>a, <1>g, <1>i, <2>1
    <2>4. answer' \in [Readers -> Stored \cup Errors]
        BY <1>9, <1>a, <1>e, <2>1, <2>3 DEF Fetch, Answered, Errors
    <2>5. store' \in [Managers -> [Keys -> Entries \cup {None}]]
        <3>1. backend[k] # None => Entry(backend[k], "backend") \in Entries
            BY <1>a, <1>h, <2>1 DEF Stored
        <3> QED
            BY <1>9, <1>a, <2>1, <3>1 DEF Fetch
    <2> QED
        BY <1>9, <1>a, <1>b, <1>c, <1>e, <2>2, <2>4, <2>5 DEF Fetch, WorkOK
<1>10. ASSUME NEW m \in Managers, Restart(m)
       PROVE  Types'
    <2>1. WorkOK'
        <3>1. work' \in [Owners -> Call]
            BY <1>10, <1>c DEF Restart, WorkOK
        <3>2. \A p \in Owners : work'[p] = work[p] \/ work'[p] = Idle
            BY <1>10 DEF Restart
        <3>3. Idle.keys = {}
            BY DEF Idle
        <3> QED
            BY <1>c, <3>1, <3>2, <3>3 DEF WorkOK
    <2>2. wait' \in [Readers -> Wait] /\ answer' \in [Readers -> Stored \cup Errors]
        BY <1>10, <1>d, <1>e, <1>i DEF Restart
    <2>3. /\ store' \in [Managers -> [Keys -> Entries \cup {None}]]
          /\ event' \in [Managers -> [Keys -> {None, "clear", "set"}]]
        BY <1>10, <1>a, <1>b DEF Restart
    <2> QED
        BY <1>10, <1>a, <1>e, <2>1, <2>2, <2>3 DEF Restart
<1>11. CASE UNCHANGED vars
    BY <1>11, <1>a, <1>b, <1>c, <1>d, <1>e DEF vars, WorkOK
<1> QED
    BY <1>1, <1>2, <1>3, <1>4, <1>5, <1>6, <1>7, <1>8, <1>9, <1>10, <1>11 DEF Next

(* A put's item and a get's stub are told apart by the kind of their entry.  *)
LEMMA EntryKinds ==
    /\ \A e \in Entries : e # None /\ e.text \in Texts /\ e.by \in {"put", "backend"}
    /\ \A e \in Entries : e \in [text : Texts, by : {"put"}] <=> e.by # "backend"
    /\ \A text \in Texts, by \in {"put", "backend"} :
          Entry(text, by) \in Entries /\ Entry(text, by).by = by
    /\ None \notin [text : Texts, by : {"put"}]
<1>1. \A e \in Entries : e # None /\ e.text \in Texts /\ e.by \in {"put", "backend"}
    BY NoneAssumption DEF Entries
<1>2. \A e \in Entries : e \in [text : Texts, by : {"put"}] <=> e.by # "backend"
    BY DEF Entries
<1>3. \A text \in Texts, by \in {"put", "backend"} :
          Entry(text, by) \in Entries /\ Entry(text, by).by = by
    BY DEF Entries, Entry
<1>4. [text : Texts, by : {"put"}] \subseteq Entries
    BY DEF Entries
<1> QED
    BY <1>1, <1>2, <1>3, <1>4

(* put, evict, get and restart keep every event tied to an entry or to a     *)
(* waiter: the sole way a waiter is left with an event nobody can set is the *)
(* eviction of a stub, and stubs are made for synchronous keys alone.        *)
LEMMA SyncStep == SyncInv /\ [Next]_vars => SyncInv'
<1> SUFFICES ASSUME SyncInv, [Next]_vars PROVE SyncInv'
    OBVIOUS
<1> DEFINE Entered == \A m \in Managers, k \in Keys :
                          /\ event[m][k] = "set" => store[m][k] # None
                          /\ event[m][k] = "clear" => store[m][k] = None \/ store[m][k].by = "backend"
           Awaited == \A c \in Readers :
                          wait[c].key # None => IF wait[c].on = "shared"
                                                THEN event[Home[c]][wait[c].key] # None
                                                ELSE wait[c].on = "set" \/ Stranded(c)
<1>1. TypeOK'
    BY TypeStep DEF SyncInv
<1>2. /\ store \in [Managers -> [Keys -> Entries \cup {None}]]
      /\ store' \in [Managers -> [Keys -> Entries \cup {None}]]
      /\ event \in [Managers -> [Keys -> {None, "clear", "set"}]]
      /\ wait \in [Readers -> Wait] /\ wait' \in [Readers -> Wait]
      /\ backend \in [Keys -> Stored]
    BY <1>1 DEF SyncInv, TypeOK, Wait
<1>3. \A t \in Owners \cup Readers : Home[t] \in Managers
    BY SyncAssumption DEF Threads
<1>4. StubsAreMirrored /\ NoIdleWait /\ Entered /\ Awaited
    <2>1. StubsAreMirrored /\ NoIdleWait /\ Awaited
        BY DEF SyncInv, EventsMatchStore
    <2>2. Entered
        BY <1>2, EntryKinds DEF SyncInv, EventsMatchStore, Produced
    <2> QED
        BY <2>1, <2>2
<1>5. \A c \in Readers : wait[c] # NoWait => wait[c].key \in Keys
    BY <1>2, <1>4 DEF NoIdleWait, Wait
<1>6. None \notin Keys /\ None \notin {"clear", "set"}
    BY NoneAssumption
<1> DEFINE Goal == StubsAreMirrored' /\ NoIdleWait' /\ Entered' /\ Awaited'
<1>7. ASSUME NEW p \in Owners, NEW k \in Keys, NEW text \in Texts, Put(p, k, text)
      PROVE  Goal
    <2> DEFINE m == Home[p]
               e == Entry(text, "put")
    <2>1. m \in Managers /\ e \in Entries /\ e.by = "put" /\ e # None
        BY <1>3, EntryKinds
    <2> HIDE DEF e
    <2>2. /\ store' = [store EXCEPT ![m][k] = e] /\ wait' = wait
          /\ event' = [event EXCEPT ![m][k] = IF @ = None THEN None ELSE "set"]
        BY <1>7 DEF Put, Signalled, e
    <2>3. \A n \in Managers, j \in Keys :
              IF n = m /\ j = k
              THEN /\ store'[n][j] = e
                   /\ event'[n][j] = IF event[n][j] = None THEN None ELSE "set"
              ELSE store'[n][j] = store[n][j] /\ event'[n][j] = event[n][j]
        BY <1>2, <2>1, <2>2
    <2>4. StubsAreMirrored' /\ NoIdleWait' /\ Entered'
        BY <1>4, <1>6, <2>1, <2>2, <2>3 DEF StubsAreMirrored, NoIdleWait
    <2>5. Awaited'
        BY <1>2, <1>3, <1>4, <1>6, <2>2, <2>3 DEF Wait, Stranded
    <2> QED
        BY <2>4, <2>5
<1>8. ASSUME NEW p \in Owners, NEW scope \in SUBSET Keys, Evict(p, scope)
      PROVE  Goal
    <2> DEFINE m == Home[p]
               keys == Evicted(m, scope)
    <2>1. m \in Managers /\ keys \subseteq Keys /\ \A k \in keys : store[m][k] # None
        BY <1>3 DEF Evicted
    <2>2. \A n \in Managers, j \in Keys :
              IF n = m /\ j \in keys
              THEN store'[n][j] = None /\ event'[n][j] = None
              ELSE store'[n][j] = store[n][j] /\ event'[n][j] = event[n][j]
        BY <1>2, <1>8, <2>1 DEF Evict
    <2>3. \A c \in Readers :
              IF Home[c] = m /\ wait[c].key \in keys /\ wait[c].on = "shared"
              THEN wait'[c].key = wait[c].key /\ wait'[c].on = event[m][wait[c].key]
              ELSE wait'[c] = wait[c]
        BY <1>2, <1>8 DEF Evict, Wait
    <2>4. StubsAreMirrored' /\ Entered'
        BY <1>4, <1>6, <2>2 DEF StubsAreMirrored
    <2>5. NoIdleWait'
        BY <1>4, <1>6, <2>1, <2>3 DEF NoIdleWait
    <2>6. Awaited'
        <3> SUFFICES ASSUME NEW c \in Readers, wait'[c].key # None
                     PROVE  IF wait'[c].on = "shared"
                            THEN event'[Home[c]][wait'[c].key] # None
                            ELSE wait'[c].on = "set" \/ Stranded(c)'
            OBVIOUS
        <3>1. CASE Home[c] = m /\ wait[c].key \in keys /\ wait[c].on = "shared"
            <4>1. event[m][wait[c].key] \in {"clear", "set"}
                BY <1>2, <1>4, <1>6, <2>1, <3>1
            <4>2. event[m][wait[c].key] = "clear" => HasBackend /\ wait[c].key \notin AsyncKeys
                BY <1>4, <2>1, <3>1 DEF StubsAreMirrored
            <4> QED
                BY <2>3, <3>1, <4>1, <4>2 DEF Stranded
        <3>2. CASE ~(Home[c] = m /\ wait[c].key \in keys /\ wait[c].on = "shared")
            <4>1. wait'[c] = wait[c] /\ wait[c].key \in Keys
                BY <1>2, <2>3, <3>2 DEF Wait
            <4>2. wait[c].on = "shared" => event'[Home[c]][wait[c].key] = event[Home[c]][wait[c].key]
                BY <1>3, <2>2, <3>2, <4>1
            <4> QED
                BY <1>4, <4>1, <4>2 DEF Stranded
        <3> QED
            BY <3>1, <3>2
    <2> QED
        BY <2>4, <2>5, <2>6
<1>9. ASSUME NEW c \in Readers, NEW k \in Keys, Get(c, k)
      PROVE  Goal
    <2> DEFINE m == Home[c]
    <2>1. m \in Managers /\ store' = store
        BY <1>3, <1>9 DEF Get
    <2>2. CASE store[m][k] # None
        <3>1. event' = event /\ wait' = [wait EXCEPT ![c] = NoWait]
            BY <1>9, <2>2 DEF Get, Answered
        <3>2. \A d \in Readers : wait'[d] = wait[d] \/ wait'[d] = NoWait
            BY <1>2, <3>1
        <3>3. NoWait.key = None
            BY DEF NoWait
        <3> QED
            BY <1>4, <2>1, <3>1, <3>2, <3>3 DEF StubsAreMirrored, NoIdleWait, Stranded
    <2>3. CASE store[m][k] = None
        <3>1. /\ event' = [event EXCEPT ![m][k] = IF @ = None THEN "clear" ELSE @]
              /\ wait' = [wait EXCEPT ![c] = [key |-> k, on |-> "shared"]]
            BY <1>9, <2>3 DEF Get
        <3>2. \A n \in Managers, j \in Keys :
                  event'[n][j] = IF n = m /\ j = k /\ event[n][j] = None THEN "clear"
                                 ELSE event[n][j]
            BY <1>2, <2>1, <3>1
        <3>3. /\ wait'[c].key = k /\ wait'[c].on = "shared"
              /\ \A d \in Readers : d # c => wait'[d] = wait[d]
            BY <1>2, <3>1
        <3>4. StubsAreMirrored' /\ NoIdleWait' /\ Entered'
            BY <1>4, <1>6, <2>1, <2>3, <3>2, <3>3 DEF StubsAreMirrored, NoIdleWait
        <3>5. Awaited'
            <4> SUFFICES ASSUME NEW d \in Readers, wait'[d].key # None
                         PROVE  IF wait'[d].on = "shared"
                                THEN event'[Home[d]][wait'[d].key] # None
                                ELSE wait'[d].on = "set" \/ Stranded(d)'
                OBVIOUS
            <4>1. CASE d = c
                BY <1>6, <2>1, <3>2, <3>3, <4>1
            <4>2. CASE d # c
                <5>1. wait'[d] = wait[d] /\ wait[d].key \in Keys /\ Home[d] \in Managers
                    BY <1>2, <1>3, <3>3, <4>2 DEF Wait
                <5>2. event[Home[d]][wait[d].key] # None => event'[Home[d]][wait[d].key] # None
                    BY <1>6, <3>2, <5>1
                <5> QED
                    BY <1>4, <5>1, <5>2 DEF Stranded
            <4> QED
                BY <4>1, <4>2
        <3> QED
            BY <3>4, <3>5
    <2> QED
        BY <2>2, <2>3
<1>10. ASSUME NEW c \in Readers, TimeOut(c) \/ Fetch(c)
       PROVE  Goal
    <2> DEFINE m == Home[c]
               k == wait[c].key
    <2>1. m \in Managers /\ k \in Keys /\ event' = event
        BY <1>3, <1>5, <1>10 DEF TimeOut, Fetch, Waiting
    <2>2. wait' = [wait EXCEPT ![c] = NoWait]
        BY <1>10 DEF TimeOut, Fetch, Answered
    <2>3. \A d \in Readers : wait'[d] = wait[d] \/ wait'[d] = NoWait
        BY <1>2, <2>2
    <2>4. NoWait.key = None
        BY DEF NoWait
    <2>5. NoIdleWait' /\ Awaited'
        BY <1>4, <2>1, <2>3, <2>4 DEF NoIdleWait, Stranded
    <2>6. CASE store' = store
        BY <1>4, <2>1, <2>5, <2>6 DEF StubsAreMirrored
    <2>7. CASE store' # store
        <3>1. /\ store[m][k] = None /\ k \notin AsyncKeys /\ HasBackend /\ backend[k] # None
              /\ store' = [store EXCEPT ![m][k] = Entry(backend[k], "backend")]
            BY <1>10, <2>7 DEF TimeOut, Fetch
        <3>2. backend[k] \in Texts
            BY <1>2, <2>1, <3>1 DEF Stored
        <3>3. PICK e \in Entries : e = Entry(backend[k], "backend") /\ e.by = "backend" /\ e # None
            BY <3>2, EntryKinds
        <3>4. \A n \in Managers, j \in Keys :
                  store'[n][j] = IF n = m /\ j = k THEN e ELSE store[n][j]
            BY <1>2, <2>1, <3>1, <3>3
        <3> QED
            BY <1>4, <2>1, <2>5, <3>1, <3>3, <3>4 DEF StubsAreMirrored
    <2> QED
        BY <2>6, <2>7
<1>11. ASSUME NEW m \in Managers, Restart(m)
       PROVE  Goal
    <2>1. \A n \in Managers, k \in Keys :
              IF n = m THEN store'[n][k] = None /\ event'[n][k] = None
              ELSE store'[n][k] = store[n][k] /\ event'[n][k] = event[n][k]
        BY <1>2, <1>11 DEF Restart
    <2>2. \A c \in Readers : wait'[c] = IF Home[c] # m THEN wait[c] ELSE NoWait
        BY <1>11 DEF Restart
    <2>3. NoWait.key = None
        BY DEF NoWait
    <2>4. StubsAreMirrored' /\ NoIdleWait' /\ Entered'
        BY <1>4, <1>6, <2>1, <2>2 DEF StubsAreMirrored, NoIdleWait
    <2>5. Awaited'
        BY <1>2, <1>3, <1>4, <2>1, <2>2, <2>3 DEF Stranded, Wait
    <2> QED
        BY <2>4, <2>5
<1>12. ASSUME UNCHANGED <<store, event, wait>>
       PROVE  Goal
    <2>1. StubsAreMirrored' /\ NoIdleWait' /\ Entered'
        BY <1>4, <1>12 DEF StubsAreMirrored, NoIdleWait
    <2>2. Awaited'
        BY <1>4, <1>12 DEF Stranded
    <2> QED
        BY <2>1, <2>2
<1>13. Goal
    <2>1. ASSUME NEW p \in Owners, Mirror(p) \/ List(p) \/ \E k \in Keys : Delete(p, k)
          PROVE  UNCHANGED <<store, event, wait>>
        BY <2>1 DEF Mirror, List, Delete
    <2>2. ASSUME NEW k \in Keys, Expire(k)
          PROVE  UNCHANGED <<store, event, wait>>
        BY <2>2 DEF Expire
    <2>3. ASSUME UNCHANGED vars
          PROVE  Goal
        BY <1>12, <2>3 DEF vars
    <2> HIDE DEF Goal
    <2> QED
        BY <1>7, <1>8, <1>9, <1>10, <1>11, <1>12, <2>1, <2>2, <2>3 DEF Next
<1>14. EventsMatchStore'
    BY <1>2, <1>13, EntryKinds DEF EventsMatchStore, Produced
<1> QED
    BY <1>1, <1>13, <1>14 DEF SyncInv

(* put's mirroring and evict's deletions of one key never overlap, for one   *)
(* owner makes them one after the other: what is gone is not in the backend. *)
LEMMA WorkStep == TypeOK /\ WorkInv /\ [Next]_vars => WorkInv'
<1> SUFFICES ASSUME TypeOK, WorkInv, [Next]_vars PROVE WorkInv'
    OBVIOUS
<1>1. /\ work \in [Owners -> Call] /\ backend \in [Keys -> Stored]
      /\ gone \subseteq Keys
    BY DEF TypeOK, Call
<1>2. WorkIsOwned /\ PutsAreBack /\ EvictedIsGone
    BY DEF WorkInv
<1>3. Idle.keys = {} /\ Idle.op = "idle"
    BY DEF Idle
<1>4. \A p, q \in Owners : p # q => Mine(p) \cap Mine(q) = {}
    BY DEF Mine
<1>5. ASSUME NEW p \in Owners, NEW k \in Keys, NEW text \in Texts, Put(p, k, text)
      PROVE  WorkInv'
    <2>1. /\ gone' = gone \ {k} /\ backend' = backend /\ k \in Mine(p) /\ work[p].keys = {}
          /\ \A q \in Owners : q # p => work'[q] = work[q]
        BY <1>1, <1>3, <1>5 DEF Put, Mine
    <2>2. work'[p] = work[p] \/ (work'[p].op = "mirror" /\ work'[p].keys = {k})
        BY <1>1, <1>5 DEF Put
    <2> QED
        BY <1>2, <2>1, <2>2 DEF WorkInv, WorkIsOwned, PutsAreBack, EvictedIsGone
<1>6. ASSUME NEW p \in Owners, Mirror(p)
      PROVE  WorkInv'
    <2>1. /\ gone' = gone /\ work[p].op = "mirror"
          /\ \A k \in Keys \ work[p].keys : backend'[k] = backend[k]
          /\ \A q \in Owners : work'[q] = IF q = p THEN Idle ELSE work[q]
        BY <1>1, <1>6 DEF Mirror
    <2>2. \A k \in gone : k \notin work[p].keys
        BY <1>2, <2>1 DEF PutsAreBack
    <2> QED
        BY <1>1, <1>2, <1>3, <2>1, <2>2 DEF WorkInv, WorkIsOwned, PutsAreBack, EvictedIsGone
<1>7. ASSUME NEW p \in Owners, NEW scope \in SUBSET Keys, Evict(p, scope)
      PROVE  WorkInv'
    <2>1. scope \subseteq Mine(p) /\ backend' = backend /\ work[p] = Idle
        BY <1>7 DEF Evict
    <2>2. \A q \in Owners : q # p => work'[q] = work[q]
        BY <1>1, <1>7 DEF Evict
    <2>3. CASE HasBackend
        <3>1. gone' = gone /\ work'[p].op = "list" /\ work'[p].keys = scope
            BY <1>1, <1>7, <2>3 DEF Evict
        <3> QED
            BY <1>2, <2>1, <2>2, <3>1 DEF WorkInv, WorkIsOwned, PutsAreBack, EvictedIsGone
    <2>4. CASE ~HasBackend
        <3>1. gone' = gone \cup scope /\ work' = work
            BY <1>7, <2>4 DEF Evict
        <3>2. ASSUME NEW q \in Owners, work[q].op = "mirror"
              PROVE  work[q].keys \cap gone' = {}
            <4>1. q # p
                BY <1>3, <2>1, <3>2
            <4> QED
                BY <1>2, <1>4, <2>1, <3>1, <3>2, <4>1 DEF WorkIsOwned, PutsAreBack
        <3> QED
            BY <1>2, <2>4, <3>1, <3>2 DEF WorkInv, WorkIsOwned, PutsAreBack, EvictedIsGone
    <2> QED
        BY <2>3, <2>4
<1>8. ASSUME NEW p \in Owners, List(p) \/ \E k \in Keys : Delete(p, k)
      PROVE  WorkInv'
    <2>1. work[p].op \in {"list", "delete"} /\ work[p].keys \subseteq Mine(p)
        BY <1>2, <1>8 DEF List, Delete, WorkIsOwned
    <2>2. \A q \in Owners : q # p => work'[q] = work[q]
        BY <1>1, <1>8 DEF List, Delete
    <2>3. work'[p].keys \subseteq work[p].keys /\ work'[p].op # "mirror"
        <3> DEFINE in == InBackend(p)
                   w  == [work[p] EXCEPT !.op = "delete", !.keys = in]
        <3>0. in \subseteq work[p].keys /\ work[p] \in Call
            BY <1>1 DEF InBackend
        <3> HIDE DEF in
        <3>1. CASE List(p)
            <4>1. work'[p] = Idle \/ work'[p] = w
                BY <1>1, <3>1 DEF List, in
            <4>2. w.op = "delete" /\ w.keys = in
                BY <3>0 DEF Call
            <4> HIDE DEF w
            <4> QED
                BY <1>3, <3>0, <4>1, <4>2
        <3>2. CASE \E k \in Keys : Delete(p, k)
            BY <1>1, <1>3, <3>2 DEF Delete, Call
        <3> QED
            BY <1>8, <3>1, <3>2
    <2>4. gone' \subseteq gone \cup work[p].keys
        BY <1>8 DEF List, Delete, InBackend
    <2>5. \A k \in gone' : backend'[k] = None \/ k \in gone
        BY <1>1, <1>8 DEF List, Delete, InBackend
    <2>6. \A k \in gone : backend'[k] = backend[k] \/ backend'[k] = None
        BY <1>1, <1>8 DEF List, Delete
    <2>7. ASSUME NEW q \in Owners, work'[q].op = "mirror"
          PROVE  work'[q].keys \cap gone' = {}
        <3>1. q # p /\ work'[q] = work[q] /\ work[q].keys \subseteq Mine(q)
            BY <1>2, <2>2, <2>3, <2>7 DEF WorkIsOwned
        <3> QED
            BY <1>2, <1>4, <2>1, <2>4, <2>7, <3>1 DEF PutsAreBack
    <2>8. WorkIsOwned' /\ EvictedIsGone'
        BY <1>2, <2>1, <2>2, <2>3, <2>5, <2>6 DEF WorkIsOwned, EvictedIsGone
    <2> QED
        BY <2>7, <2>8 DEF WorkInv, PutsAreBack
<1>9. ASSUME NEW k \in Keys, Expire(k)
      PROVE  WorkInv'
    BY <1>1, <1>2, <1>9 DEF Expire, WorkInv, WorkIsOwned, PutsAreBack, EvictedIsGone
<1>10. ASSUME NEW m \in Managers, Restart(m)
       PROVE  WorkInv'
    <2>1. gone' = gone /\ backend' = backend /\ \A p \in Owners : work'[p] = work[p] \/ work'[p] = Idle
        BY <1>10 DEF Restart
    <2> QED
        BY <1>2, <1>3, <2>1 DEF WorkInv, WorkIsOwned, PutsAreBack, EvictedIsGone
<1>11. ASSUME UNCHANGED <<backend, work, gone>>
       PROVE  WorkInv'
    BY <1>2, <1>11 DEF WorkInv, WorkIsOwned, PutsAreBack, EvictedIsGone
<1>12. ASSUME NEW c \in Readers, TimeOut(c) \/ Fetch(c) \/ \E k \in Keys : Get(c, k)
       PROVE  UNCHANGED <<backend, work, gone>>
    BY <1>12 DEF TimeOut, Fetch, Get
<1>13. CASE UNCHANGED vars
    BY <1>11, <1>13 DEF vars
<1> QED
    BY <1>5, <1>6, <1>7, <1>8, <1>9, <1>10, <1>11, <1>12, <1>13 DEF Next

-----------------------------------------------------------------------------
(* Both invariants hold of an empty manager over an empty backend.           *)
LEMMA InitHolds == Init => SyncInv /\ WorkInv
<1> SUFFICES ASSUME Init PROVE SyncInv /\ WorkInv
    OBVIOUS
<1> USE DEF Init
<1>1. TypeOK
    BY DEF TypeOK, Stored, Idle, NoWait
<1>2. StubsAreMirrored /\ NoIdleWait
    BY DEF StubsAreMirrored, NoIdleWait
<1>3. EventsMatchStore
    BY NoneAssumption DEF EventsMatchStore, NoWait
<1>4. WorkInv
    BY DEF WorkInv, WorkIsOwned, PutsAreBack, EvictedIsGone, Idle
<1> QED
    BY <1>1, <1>2, <1>3, <1>4 DEF SyncInv

LEMMA SyncInvariant == Spec => []SyncInv
<1>1. Init => SyncInv
    BY InitHolds
<1>2. SyncInv /\ [Next]_vars => SyncInv'
    BY SyncStep
<1> QED
    BY <1>1, <1>2, PTL DEF Spec

(* Every variable of the manager keeps its type.                             *)
THEOREM TypeCorrect == Spec => []TypeOK
<1>1. SyncInv => TypeOK
    BY DEF SyncInv
<1> QED
    BY <1>1, SyncInvariant, PTL

(* No event of put_sync and get_sync is lost or left over: each belongs to   *)
(* an entry or to a waiter, and a waiter holds one somebody can still set,   *)
(* unless a stub was evicted under it.                                       *)
THEOREM EventsMatch == Spec => []EventsMatchStore
<1>1. SyncInv => EventsMatchStore
    BY DEF SyncInv
<1> QED
    BY <1>1, SyncInvariant, PTL

(* A text that evict or evict_tag removed is in the backend again only after *)
(* its owner's next put, through any interleaving with mirroring, expiry and *)
(* restarts.                                                                 *)
THEOREM EvictionHolds == Spec => []EvictedIsGone
<1>1. Init => WorkInv
    BY InitHolds
<1>2. TypeOK /\ WorkInv /\ [Next]_vars => WorkInv'
    BY WorkStep
<1>3. WorkInv => EvictedIsGone
    BY DEF WorkInv
<1> QED
    BY <1>1, <1>2, <1>3, TypeCorrect, PTL DEF Spec

(* get_sync raises TimeoutError only while its key has no produced item in   *)
(* its store, and KeyError only when the entry was evicted while it waited.  *)
THEOREM ErrorsHold == Spec => ErrorsAreTrue
<1> DEFINE Reason(c) ==
        /\ answer'[c] = "TimeoutError" => Stranded(c) \/ ~Produced(Home[c], wait[c].key)
        /\ answer'[c] = "KeyError"     => wait[c].on = "set"
<1>1. SyncInv /\ [Next]_vars => [\A c \in Readers : Waiting(c) /\ ~Waiting(c)' => Reason(c)]_vars
    <2> SUFFICES ASSUME SyncInv, Next, NEW c \in Readers, Waiting(c), ~Waiting(c)'
                 PROVE  Reason(c)
        OBVIOUS
    <2> DEFINE m == Home[c]
               k == wait[c].key
    <2>1. /\ wait \in [Readers -> Wait] /\ answer \in [Readers -> Stored \cup Errors]
          /\ store \in [Managers -> [Keys -> Entries \cup {None}]]
          /\ event \in [Managers -> [Keys -> {None, "clear", "set"}]]
          /\ backend \in [Keys -> Stored]
        BY DEF SyncInv, TypeOK, Wait
    <2>2. m \in Managers /\ k \in Keys
        BY <2>1, SyncAssumption DEF SyncInv, NoIdleWait, Wait, Waiting, Threads
    <2>3. ASSUME answer'[c] \notin Errors
          PROVE  Reason(c)
        BY <2>3 DEF Errors
    <2>4. CASE TimeOut(c)
        <3>1. answer'[c] = "TimeoutError" /\ ~Woken(c)
            BY <2>1, <2>4 DEF TimeOut, Answered
        <3>2. Stranded(c) \/ ~Produced(m, k)
            BY <2>1, <2>2, <3>1, NoneAssumption DEF SyncInv, EventsMatchStore, Woken, Wait
        <3> QED
            BY <3>1, <3>2
    <2>5. CASE Fetch(c)
        <3>1. CASE store[m][k] # None
            <4>1. answer'[c] = store[m][k].text
                BY <2>1, <2>5, <3>1 DEF Fetch, Answered
            <4>2. store[m][k].text \in Texts
                BY <2>1, <2>2, <3>1, EntryKinds
            <4> QED
                BY <2>3, <4>1, <4>2, NoneAssumption
        <3>2. CASE store[m][k] = None /\ k \notin AsyncKeys /\ HasBackend /\ backend[k] # None
            <4>1. answer'[c] = backend[k] /\ backend[k] \in Texts
                BY <2>1, <2>2, <2>5, <3>2 DEF Fetch, Answered, Stored
            <4> QED
                BY <2>3, <4>1, NoneAssumption
        <3>3. CASE store[m][k] = None /\ ~(k \notin AsyncKeys /\ HasBackend /\ backend[k] # None)
            <4>1. answer'[c] = "KeyError" /\ Woken(c)
                BY <2>1, <2>5, <3>3 DEF Fetch, Answered
            <4>2. event[m][k] # "set"
                BY <2>2, <3>3 DEF SyncInv, EventsMatchStore
            <4> QED
                BY <4>1, <4>2 DEF Woken
        <3> QED
            BY <3>1, <3>2, <3>3
    <2>6. CASE \E n \in Managers : Restart(n)
        <3>1. answer'[c] = None
            BY <2>6 DEF Restart, Waiting
        <3> QED
            BY <2>3, <3>1, NoneAssumption
    <2>7. CASE \E d \in Readers \ {c} : TimeOut(d) \/ Fetch(d) \/ \E j \in Keys : Get(d, j)
        <3>1. wait'[c] = wait[c]
            BY <2>1, <2>7 DEF TimeOut, Fetch, Get, Answered
        <3> QED
            BY <3>1 DEF Waiting
    <2>8. CASE \E p \in Owners, scope \in SUBSET Keys : Evict(p, scope)
        <3>1. wait'[c].key = wait[c].key
            BY <2>1, <2>8 DEF Evict, Wait
        <3>2. NoWait.key = None
            BY DEF NoWait
        <3> QED
            BY <2>2, <3>1, <3>2, NoneAssumption DEF Waiting
    <2>9. CASE UNCHANGED wait
        BY <2>9 DEF Waiting
    <2>10. ASSUME NEW j \in Keys, Get(c, j)
           PROVE  FALSE
        BY <2>10 DEF Get
    <2>11. ASSUME NEW p \in Owners, Mirror(p) \/ List(p) \/ \E j \in Keys : Delete(p, j) \/ \E text \in Texts : Put(p, j, text)
           PROVE  UNCHANGED wait
        BY <2>11 DEF Mirror, List, Delete, Put
    <2>12. ASSUME NEW j \in Keys, Expire(j)
           PROVE  UNCHANGED wait
        BY <2>12 DEF Expire
    <2> QED
        BY <2>4, <2>5, <2>6, <2>7, <2>8, <2>9, <2>10, <2>11, <2>12 DEF Next
<1> QED
    BY <1>1, SyncInvariant, PTL DEF Spec, ErrorsAreTrue
=============================================================================
