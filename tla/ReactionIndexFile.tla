------------------------- MODULE ReactionIndexFile -------------------------
(* reactions/index.jsonl, io/reaction_index.py: one definition per reaction
   class, written once, so that event rows need only name the reaction.  While
   a session runs the file is a journal of definitions and of later statistics;
   a constructor or a clean close replaces it atomically by one definition row
   per reaction.

   A file is a record
     open     is there a writer?
     entries  the writer's memory: reaction -> firing count
     stale    reactions whose statistics have not been written (_pending_stats)
     disk     what the synced rows of the file fold to: reaction -> firing count
     rows     rows written behind an fsync, in order
   A row is [kind, reaction, count]; what a definition says besides the count
   never changes here. *)
EXTENDS Naturals, Sequences, SequencesExt, Functions

NoEntries == [r \in {} |-> 0]

NoFile == [open |-> FALSE, entries |-> NoEntries, stale |-> {}, disk |-> NoEntries, rows |-> << >>]

Updated(f, r, n) == [x \in DOMAIN f \cup {r} |-> IF x = r THEN n ELSE f[x]]

(* _merge_index_record: both kinds of rows set the counts, and a definition
   written with its statistics replaces those of earlier rows; so the last row
   about a reaction is the one that counts. *)
LastAbout(rows, r) ==
    CHOOSE i \in DOMAIN rows :
        /\ rows[i].reaction = r
        /\ \A k \in DOMAIN rows : rows[k].reaction = r => k <= i

Folded(disk, rows) ==
    LET about == {rows[i].reaction : i \in DOMAIN rows}
    IN  [r \in DOMAIN disk \cup about |->
            IF r \in about THEN rows[LastAbout(rows, r)].count ELSE disk[r]]

(* ReactionIndexWriter(initial_entries): compact at once, then append. *)
Opened(entries) ==
    [open |-> TRUE, entries |-> entries, stale |-> {}, disk |-> entries, rows |-> << >>]

(* register: a definition that says nothing new is not written again. *)
Registered(file, r, n) ==
    IF r \in DOMAIN file.entries /\ file.entries[r] = n THEN file
    ELSE [file EXCEPT !.entries = Updated(@, r, n),
                      !.rows = Append(@, [kind |-> "reaction", reaction |-> r, count |-> n])]

(* update_stats: remembered until the next sync. *)
Counted(file, r, n) ==
    [file EXCEPT !.entries = Updated(@, r, n), !.stale = @ \cup {r}]

(* sync: one statistics row per stale reaction, then fsync. *)
StatsRows(file) ==
    LET sorted == SetToSeq(file.stale)
    IN  [i \in DOMAIN sorted |-> [kind |-> "stats", reaction |-> sorted[i], count |-> file.entries[sorted[i]]]]

SyncedLater(file) == [file EXCEPT !.rows = @ \o StatsRows(file), !.stale = {}]  \* mutant: no fsync

Synced(file) ==
    [file EXCEPT !.disk = Folded(@, file.rows \o StatsRows(file)), !.rows = << >>, !.stale = {}]

(* close: sync, close, compact. *)
Closed(file) == [file EXCEPT !.open = FALSE, !.disk = file.entries, !.rows = << >>, !.stale = {}]

(* A crash forgets the writer; of the rows that were not synced any number may
   have reached the file, and the last one in part, which counts as absent. *)
Crashes(file) ==
    {[NoFile EXCEPT !.disk = Folded(file.disk, SubSeq(file.rows, 1, k))] : k \in 0..Len(file.rows)}
===========================================================================
