-------------------------------- MODULE Lists --------------------------------
(***************************************************************************)
(* None, and lists and dicts as Python builds them.  A dict is a function  *)
(* from its keys.  Lists are recursive functions, which the proof system   *)
(* can reason about.                                                       *)
(***************************************************************************)
EXTENDS Integers, Sequences, Functions

CONSTANT None    \* Python's None

\* d[key] = value
With(d, key, value) ==
    [k \in DOMAIN d \cup {key} |-> IF k = key THEN value ELSE d[k]]

\* d.update(new)
Over(new, d) ==
    [k \in DOMAIN new \cup DOMAIN d |-> IF k \in DOMAIN new THEN new[k] ELSE d[k]]

\* [x for x in s if x in S]
Keep(s, S) ==
    LET kept[n \in 0..Len(s)] ==
            IF n = 0 THEN <<>>
            ELSE IF s[n] \in S THEN Append(kept[n - 1], s[n]) ELSE kept[n - 1]
    IN  kept[Len(s)]

\* The keys of a dict built from a list: first occurrences, in order.
DictKeys(s) ==
    LET keys[n \in 0..Len(s)] ==
            IF n = 0 THEN <<>>
            ELSE IF s[n] \in Range(keys[n - 1]) THEN keys[n - 1]
            ELSE Append(keys[n - 1], s[n])
    IN  keys[Len(s)]
=============================================================================
