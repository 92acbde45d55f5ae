-------------------------- MODULE MCThumbnailDiskCache -------------------------
(* TLC instances of ThumbnailDiskCache: their symmetry and their view.     *)
EXTENDS ThumbnailDiskCache, TLC

Symmetry == Permutations(Elements) \cup Permutations(Versions)

\* When the service will not be opened again, what the metadata files hold is
\* never read: leave it out of the fingerprint.
View ==
    <<entryVars, genVars, [f \in Flushers |-> flush[f].at], enabled, limit, queue,
      producer, writer, reader, ui, runVars>>
    \o IF restarts = MaxRestarts THEN <<>> ELSE metaVars
================================================================================
