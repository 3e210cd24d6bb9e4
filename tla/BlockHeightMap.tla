---------------------------- MODULE BlockHeightMap -----------------------------
(***************************************************************************)
(* BlockHeightMap (lotus/full_node/block_height_map.py): the block of the  *)
(* current chain at every height and the sub-epoch summaries the chain     *)
(* includes, kept in memory, written to two files now and then, and        *)
(* completed from the database when the node starts.                       *)
(*                                                                         *)
(* The map is changed by receive_block under the blockchain lock and is    *)
(* committed with the peak; that the blocks of the path to the peak are in *)
(* the database is what module Blockchain shows (PathIsStored).  A block   *)
(* hash is the block, the zero bytes that extend the map are NoBlock.      *)
(***************************************************************************)
EXTENDS Integers

CONSTANTS
    Blocks,         \* the blocks that may become the peak
    Height,         \* height of each block
    Chain,          \* Chain[b][i] is the ancestor of b at height i; b itself is the last
    Weight,         \* total difficulty of the chain of each block
    Summary,        \* the sub-epoch summary that each block includes, or NoSummary
    NoBlock,        \* no peak
    NoSummary,
    FlushLimit,     \* dirty entries that make maybe_flush write the files
    Interrupts      \* what may happen to the process: see InterruptKinds

(***************************************************************************)
(* "restart": it stops between two calls; "crash": it stops, or its task   *)
(* is cancelled, in the middle of a flush; "disk": a file cannot be moved  *)
(* into place, which write_file_async logs and ignores.                    *)
(***************************************************************************)
InterruptKinds == {"restart", "crash", "disk"}

ASSUME ChainAssumption ==
    /\ NoBlock \notin Blocks
    /\ Height \in [Blocks -> Nat]
    /\ \A b \in Blocks :
        /\ Chain[b] \in [0..Height[b] -> Blocks]
        /\ Chain[b][Height[b]] = b
        /\ \A i \in 0..Height[b] :
            /\ Height[Chain[b][i]] = i
            /\ \A j \in 0..i : Chain[Chain[b][i]][j] = Chain[b][j]

(* The first block includes no summary.                                    *)
ASSUME SummaryAssumption ==
    \A b \in Blocks : Height[b] = 0 => Summary[b] = NoSummary

ASSUME ParametersAssumption ==
    /\ Weight \in [Blocks -> Nat]
    /\ FlushLimit \in Nat \ {0}
    /\ Interrupts \in SUBSET InterruptKinds

VARIABLES
    peak,           \* current_peak in the database
    hashes,         \* __height_to_hash: a function from 0..n, or empty
    summaries,      \* __sub_epoch_summaries: a function from heights
    dirty,          \* __dirty
    hashFile,       \* the file height-to-hash
    sesFile,        \* the file sub-epoch-summaries
    pc,             \* "idle", or the file that maybe_flush is about to write
    torn            \* history: did something keep a flush from writing both files?

vars == <<peak, hashes, summaries, dirty, hashFile, sesFile, pc, torn>>
files == <<hashFile, sesFile>>

Empty == [i \in {} |-> NoBlock]

TypeOK ==
    /\ peak \in Blocks \cup {NoBlock}
    /\ DOMAIN hashes \subseteq Nat
    /\ DOMAIN summaries \subseteq Nat
    /\ dirty \in Nat
    /\ pc \in {"idle", "hashes", "summaries"}
    /\ torn \in BOOLEAN

Init ==
    /\ peak = NoBlock
    /\ hashes = Empty /\ summaries = Empty
    /\ hashFile = Empty /\ sesFile = Empty
    /\ dirty = 0
    /\ pc = "idle"
    /\ torn = FALSE

--------------------------------------------------------------------------------
(* maybe_flush, after n more entries were set: it writes the files next,   *)
(* the hashes first.                                                       *)
MaybeFlush(n) ==
    IF dirty + n < FlushLimit
    THEN dirty' = dirty + n /\ pc' = "idle"
    ELSE dirty' = 0 /\ pc' = "hashes"

(* The last height at which the chains of the peak and of b agree.         *)
IsForkHeight(b, f) ==
    IF peak = NoBlock THEN f = -1
    ELSE /\ f <= Height[peak]
         /\ f >= 0 => Chain[peak][f] = Chain[b][f]
         /\ \A i \in 0..Height[peak] : f < i /\ i <= Height[b] => Chain[peak][i] # Chain[b][i]

(* rollback(max(f, 0)), and update_height for the blocks after f.          *)
NewHashes(b, f) ==
    LET kept == {i \in DOMAIN hashes : i <= f \/ i = 0}
        added == (f + 1)..Height[b]
    IN  [i \in kept \cup added |-> IF i \in added THEN Chain[b][i] ELSE hashes[i]]

(* Mutant of NewSummaries: without the rollback.                           *)
NewSummariesNoRollback(b, f) ==
    LET added == {i \in (f + 1)..Height[b] : Summary[Chain[b][i]] # NoSummary}
    IN  [i \in DOMAIN summaries \cup added |->
            IF i \in added THEN Summary[Chain[b][i]] ELSE summaries[i]]

NewSummaries(b, f) ==
    LET kept == {i \in DOMAIN summaries : i <= f \/ i = 0}
        added == {i \in (f + 1)..Height[b] : Summary[Chain[b][i]] # NoSummary}
    IN  [i \in kept \cup added |-> IF i \in added THEN Summary[Chain[b][i]] ELSE summaries[i]]

(***************************************************************************)
(* receive_block with a block that becomes the peak.  Its parent was       *)
(* received before and is not heavier than the peak (PeakIsHeaviest of     *)
(* module Blockchain).                                                     *)
(***************************************************************************)
NewPeak(b) ==
    /\ pc = "idle"
    /\ IF peak = NoBlock THEN Height[b] = 0
       ELSE /\ Height[b] > 0
            /\ Weight[b] > Weight[peak]
            /\ Weight[Chain[b][Height[b] - 1]] <= Weight[peak]
    /\ peak' = b
    /\ \E f \in -1..(Height[b] - 1) :
        /\ IsForkHeight(b, f)
        /\ hashes' = NewHashes(b, f)
        /\ summaries' = NewSummaries(b, f)
        /\ MaybeFlush(Height[b] - f)
    /\ UNCHANGED <<files, torn>>

WriteHashes ==
    /\ pc = "hashes"
    /\ hashFile' = hashes
    /\ pc' = "summaries"
    /\ UNCHANGED <<peak, hashes, summaries, dirty, sesFile, torn>>

WriteSummaries ==
    /\ pc = "summaries"
    /\ sesFile' = summaries
    /\ pc' = "idle"
    /\ UNCHANGED <<peak, hashes, summaries, dirty, hashFile, torn>>

(* write_file_async could not move the temporary file into place.          *)
WriteFails ==
    /\ "disk" \in Interrupts
    /\ pc \in {"hashes", "summaries"}
    /\ pc' = IF pc = "hashes" THEN "summaries" ELSE "idle"
    /\ torn' = TRUE
    /\ UNCHANGED <<peak, hashes, summaries, dirty, files>>

(* The task is cancelled while it waits for a file.                        *)
CancelFlush ==
    /\ "crash" \in Interrupts
    /\ pc \in {"hashes", "summaries"}
    /\ pc' = "idle"
    /\ torn' = TRUE
    /\ UNCHANGED <<peak, hashes, summaries, dirty, files>>

--------------------------------------------------------------------------------
(* create.                                                                 *)

(* The file, cut or extended with zeros to the height of the peak.         *)
Padded(i) == IF i \in DOMAIN hashFile THEN hashFile[i] ELSE NoBlock

(***************************************************************************)
(* _load_blocks_from stops at a block with a summary that the files have   *)
(* with this summary: it assumes that they have everything below.          *)
(***************************************************************************)
InFiles(i) ==
    LET s == Summary[Chain[peak][i]]
    IN  s # NoSummary /\ Padded(i) = Chain[peak][i] /\ i \in DOMAIN sesFile /\ sesFile[i] = s

(* The height at which it stops, -1 if it goes back to the first block.    *)
IsStop(s) ==
    LET have == {i \in 0..(Height[peak] - 1) : InFiles(i)}
    IN  s \in have \cup {-1} /\ \A i \in have : i <= s

(***************************************************************************)
(* The blocks above the stop are taken from the database.  Summaries of    *)
(* the files are removed below the height of the peak only.                *)
(***************************************************************************)
LoadedHashes(s) ==
    [i \in 0..Height[peak] |-> IF i > s THEN Chain[peak][i] ELSE Padded(i)]

(* Mutant of LoadedSummaries: the summary of the peak itself is forgotten.  *)
LoadedSummariesBelowPeak(s) ==
    LET kept == {i \in DOMAIN sesFile : i <= s \/ i >= Height[peak]}
        added == {i \in (s + 1)..(Height[peak] - 1) : Summary[Chain[peak][i]] # NoSummary}
    IN  [i \in kept \cup added |-> IF i \in added THEN Summary[Chain[peak][i]] ELSE sesFile[i]]

LoadedSummaries(s) ==
    LET kept == {i \in DOMAIN sesFile : i <= s \/ i >= Height[peak]}
        added == {i \in (s + 1)..Height[peak] : Summary[Chain[peak][i]] # NoSummary}
    IN  [i \in kept \cup added |-> IF i \in added THEN Summary[Chain[peak][i]] ELSE sesFile[i]]

(* Mutant of LoadFiles: the file is long enough, whatever it holds.         *)
LoadFilesBySize ==
    /\ Height[peak] \in DOMAIN hashFile
    /\ hashes' = [i \in 0..Height[peak] |-> Padded(i)]
    /\ summaries' = sesFile
    /\ dirty' = 0
    /\ pc' = "idle"

(* The files have the peak: nothing is loaded from the database.           *)
LoadFiles ==
    /\ Padded(Height[peak]) = peak
    /\ hashes' = [i \in 0..Height[peak] |-> Padded(i)]
    /\ summaries' = sesFile
    /\ dirty' = 0
    /\ pc' = "idle"

LoadFromDatabase ==
    /\ Padded(Height[peak]) # peak
    /\ \E s \in -1..(Height[peak] - 1) :
        /\ IsStop(s)
        /\ hashes' = LoadedHashes(s)
        /\ summaries' = LoadedSummaries(s)
        /\ LET n == Height[peak] - s
           IN  IF n < FlushLimit THEN dirty' = n /\ pc' = "idle"
               ELSE dirty' = 0 /\ pc' = "hashes"

LoadNothing ==
    /\ peak = NoBlock
    /\ hashes' = Empty /\ summaries' = Empty
    /\ dirty' = 0
    /\ pc' = "idle"

(* The process stops, and starts again.                                    *)
Restart ==
    /\ IF pc = "idle" THEN "restart" \in Interrupts ELSE "crash" \in Interrupts
    /\ IF peak = NoBlock THEN LoadNothing ELSE LoadFiles \/ LoadFromDatabase
    /\ torn' = (torn \/ pc # "idle")
    /\ UNCHANGED <<peak, files>>

Next ==
    \/ \E b \in Blocks : NewPeak(b)
    \/ WriteHashes
    \/ WriteSummaries
    \/ WriteFails
    \/ CancelFlush
    \/ Restart

Spec == Init /\ [][Next]_vars

--------------------------------------------------------------------------------
(***************************************************************************)
(* "Defines the path from genesis to the peak, no orphan blocks": after    *)
(* any reorganisations, interrupted or failed flushes and restarts, the    *)
(* map in memory is the chain of the peak in the database.                 *)
(***************************************************************************)
MapIsPath == hashes = IF peak = NoBlock THEN Empty ELSE Chain[peak]

(* The summaries that the chain of the peak includes.                      *)
OnPath(i) == peak # NoBlock /\ i \in 0..Height[peak] /\ Summary[Chain[peak][i]] # NoSummary

(***************************************************************************)
(* "All sub-epoch summaries that have been included in the blockchain from *)
(* the beginning until and including the peak" are in memory.              *)
(***************************************************************************)
SummariesComplete ==
    peak # NoBlock => \A i \in 0..Height[peak] :
        OnPath(i) => i \in DOMAIN summaries /\ summaries[i] = Summary[Chain[peak][i]]

(***************************************************************************)
(* Reorganisations, flushes and restarts between two calls lose no summary *)
(* of the chain, as long as no flush was torn: the two files always belong *)
(* together then, and what is below the block at which loading stops is    *)
(* complete.                                                               *)
(***************************************************************************)
CompleteUnlessTorn == ~torn => SummariesComplete

(***************************************************************************)
(* "Note: ONLY for the blocks in the path to the peak".                    *)
(***************************************************************************)
SummariesOnPath ==
    \A i \in DOMAIN summaries : OnPath(i) /\ summaries[i] = Summary[Chain[peak][i]]

(***************************************************************************)
(* A reorganisation leaves no summary of an abandoned block in the map.    *)
(***************************************************************************)
ReorgKeepsOnPath == [][peak' # peak /\ SummariesOnPath => SummariesOnPath']_vars

--------------------------------------------------------------------------------
(* The inductive invariants.                                               *)

(* The file holds the chain of some block: it is replaced as a whole.      *)
FileIsChain == hashFile = Empty \/ \E q \in Blocks : hashFile = Chain[q]

Inv ==
    /\ TypeOK
    /\ DOMAIN sesFile \subseteq Nat
    /\ MapIsPath
    /\ FileIsChain

(* The file of the summaries has those of the blocks of the other file.    *)
FilesMatch ==
    \A i \in DOMAIN hashFile :
        LET s == Summary[hashFile[i]]
        IN  s # NoSummary => i \in DOMAIN sesFile /\ sesFile[i] = s

SummariesInv ==
    ~torn =>
        /\ SummariesComplete
        /\ IF pc = "summaries" THEN hashFile = hashes ELSE FilesMatch
================================================================================
