------------------------- MODULE PipelineCheckpoint -------------------------
(***************************************************************************)
(* The group-level checkpoint of one task_id: the in-memory cache of a     *)
(* PipelineCheckpoint object beside the task's JSON file.                  *)
(*                                                                         *)
(* A group's record (its outputs and final output) is a natural number:    *)
(* the task it was produced for.  A client may run one task_id for several *)
(* tasks, one after the other.  The file is written in place, so between   *)
(* the open and the last byte it holds no valid JSON.                      *)
(***************************************************************************)
EXTENDS Lists

CONSTANTS
    Groups,    \* the groups of the pipeline
    Missing,   \* no such file
    Corrupt,   \* a file json.loads rejects
    HasPath    \* PipelineCheckpoint(path=...)

ASSUME CheckpointAssumption ==
    /\ HasPath \in BOOLEAN
    /\ None \notin Nat

Records == [Groups -> Nat \cup {None}]

ASSUME FileAssumption == Missing \notin Records /\ Corrupt \notin Records

\* The object's cache, and the file at its path.
Checkpoint == [cache : Records, file : Records \cup {Missing, Corrupt}]

NoRecords == [g \in Groups |-> None]

\* PipelineCheckpoint(path): a new object over the file there is.
NewCheckpoint(c) == [c EXCEPT !.cache = NoRecords]

\* _read_task_file: a readable file replaces the task's whole cache.
ReadTaskFile(c) ==
    IF c.file \in {Missing, Corrupt} THEN c ELSE [c EXCEPT !.cache = c.file]

\* load_group, for its effect on the object.  The file is read only for a
\* group the cache does not have; the read may fail.
LoadGroup(c, g, readable) ==
    IF c.cache[g] = None /\ HasPath /\ readable THEN ReadTaskFile(c) ELSE c

\* save_group under the object's lock: the record enters the cache, the file
\* is opened (and truncated), and the whole cache is written to it.
MutCacheReplaces(c, g, record) ==
    [c EXCEPT !.cache = [NoRecords EXCEPT ![g] = record]]

CacheGroup(c, g, record) == [c EXCEPT !.cache[g] = record]
OpenTaskFile(c)          == [c EXCEPT !.file = Corrupt]
WriteTaskFile(c)         == [c EXCEPT !.file = c.cache]

\* clear: an unlink that fails is ignored.
MutClearKeepsCache(c, unlinked) ==
    [c EXCEPT !.file = IF HasPath /\ unlinked THEN Missing ELSE @]

Clear(c, unlinked) ==
    [c EXCEPT !.cache = NoRecords,
              !.file  = IF HasPath /\ unlinked THEN Missing ELSE @]
=============================================================================
