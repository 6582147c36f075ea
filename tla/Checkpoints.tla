----------------------------- MODULE Checkpoints -----------------------------
(***************************************************************************)
(* The notarised checkpoints of komodo_state (komodo_structs.cpp): a       *)
(* vector NPOINTS of checkpoints, each with the height nHeight of the      *)
(* block that carried the notarisation and the notarized_height it         *)
(* notarises, and the search that komodo_checkpoint relies on.             *)
(***************************************************************************)
EXTENDS Integers, Sequences, FiniteSets

\* the first 0-based index from `start' whose checkpoint is at or above h, or
\* the length of the vector: start plus the length of the run below h
FirstAtOrAbove(points, start, h) ==
    start + Cardinality({i \in start..(Len(points) - 1) :
                            \A j \in start..i : points[j + 1].nHeight < h})

\* the cached index can be used: it is inside the vector, not its start, and
\* the checkpoint before it is below h
CacheApplies(points, idx, h) ==
    /\ idx > 0 /\ idx < Len(points)
    /\ points[idx].nHeight < h

\* the forward search from the cached index finds a checkpoint at or above h
CacheHits(points, idx, h) ==
    /\ CacheApplies(points, idx, h)
    /\ FirstAtOrAbove(points, idx, h) < Len(points)

\* how many checkpoints precede the place where the search stops; 0 means
\* that it found no checkpoint below h
FoundAt(points, idx, h) ==
    IF CacheHits(points, idx, h)
    THEN FirstAtOrAbove(points, idx, h)
    ELSE FirstAtOrAbove(points, 0, h)

\* komodo_state::NotarizedData: the notarised block and height, or `none'
NotarizedData(points, idx, h, none) ==
    LET k == FoundAt(points, idx, h)
    IN  IF k = 0 THEN none ELSE points[k]

\* NPOINTS_last_index after that search (the cache is mutable in a const
\* method)
LastIndexAfter(points, idx, h) ==
    LET k == FoundAt(points, idx, h)
    IN  IF CacheHits(points, idx, h)
        THEN IF k > idx THEN k - 1 ELSE idx
        ELSE IF k > 0 THEN k - 1
             ELSE IF CacheApplies(points, idx, h) THEN Len(points) - 1 ELSE idx
=============================================================================
