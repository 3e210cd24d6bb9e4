------------------------- MODULE BlockHeightMapProofs --------------------------
(***************************************************************************)
(* The height map after restarts, for every tree of blocks.                *)
(***************************************************************************)
EXTENDS BlockHeightMap, TLAPS

(* Chains that meet at a height agree below it.                            *)
LEMMA AgreeBelow ==
    ASSUME NEW a \in Blocks, NEW b \in Blocks, NEW h \in 0..Height[a],
           h <= Height[b], Chain[a][h] = Chain[b][h]
    PROVE  \A i \in 0..h : Chain[a][i] = Chain[b][i]
<1>1. h \in 0..Height[b] /\ Height[a] \in Nat /\ Height[b] \in Nat
    BY ChainAssumption
<1>2. \A i \in 0..h : Chain[Chain[a][h]][i] = Chain[a][i] /\ Chain[Chain[b][h]][i] = Chain[b][i]
    BY <1>1, ChainAssumption
<1>3. QED
    BY <1>2

(***************************************************************************)
(* A height at which the file has the block of the chain of the peak: it   *)
(* has the whole chain up to there.                                        *)
(***************************************************************************)
LEMMA FileAgrees ==
    ASSUME FileIsChain, peak \in Blocks, NEW h \in 0..Height[peak], Padded(h) = Chain[peak][h]
    PROVE  \A i \in 0..h : i \in DOMAIN hashFile /\ Padded(i) = Chain[peak][i]
<1>1. Chain[peak][h] \in Blocks /\ Height[peak] \in Nat
    BY ChainAssumption
<1>2. h \in DOMAIN hashFile /\ hashFile[h] = Chain[peak][h]
    BY <1>1, ChainAssumption DEF Padded
<1>3. PICK q \in Blocks : hashFile = Chain[q]
    BY <1>2 DEF FileIsChain, Empty
<1>4. DOMAIN hashFile = 0..Height[q] /\ Height[q] \in Nat
    BY <1>3, ChainAssumption
<1>5. \A i \in 0..h : Chain[peak][i] = Chain[q][i]
    BY <1>1, <1>2, <1>3, <1>4, AgreeBelow
<1>6. QED
    BY <1>1, <1>2, <1>3, <1>4, <1>5 DEF Padded

(* What a new peak is added after.                                         *)
LEMMA ForkHeight ==
    ASSUME Inv, NEW b \in Blocks, NEW f \in -1..(Height[b] - 1), IsForkHeight(b, f)
    PROVE  /\ Height[b] \in Nat
           /\ peak = NoBlock => f = -1 /\ hashes = Empty
           /\ peak # NoBlock => /\ peak \in Blocks /\ Height[peak] \in Nat /\ hashes = Chain[peak]
                                /\ DOMAIN hashes = 0..Height[peak] /\ f <= Height[peak]
                                /\ \A i \in 0..f : Chain[peak][i] = Chain[b][i]
<1>1. Height[b] \in Nat
    BY ChainAssumption
<1>2. CASE peak = NoBlock
    BY <1>1, <1>2 DEF IsForkHeight, Inv, MapIsPath
<1>3. CASE peak # NoBlock
  <2>1. peak \in Blocks /\ Height[peak] \in Nat /\ hashes = Chain[peak]
        /\ DOMAIN hashes = 0..Height[peak]
      BY <1>3, ChainAssumption DEF Inv, TypeOK, MapIsPath
  <2>2. f <= Height[peak] /\ (f >= 0 => Chain[peak][f] = Chain[b][f])
      BY <1>3 DEF IsForkHeight
  <2>3. \A i \in 0..f : Chain[peak][i] = Chain[b][i]
    <3>1. CASE f = -1
        BY <3>1
    <3>2. CASE f # -1
      <4>1. f \in 0..Height[peak] /\ f <= Height[b] /\ Chain[peak][f] = Chain[b][f]
          BY <1>1, <2>1, <2>2, <3>2
      <4>2. QED
          BY <2>1, <4>1, AgreeBelow
    <3>3. QED
        BY <3>1, <3>2
  <2>4. QED
      BY <1>1, <1>3, <2>1, <2>2, <2>3
<1>4. QED
    BY <1>2, <1>3

(* rollback and update_height make the map the chain of the new peak.      *)
LEMMA NewHashesIsChain ==
    ASSUME Inv, NEW b \in Blocks, NEW f \in -1..(Height[b] - 1), IsForkHeight(b, f)
    PROVE  NewHashes(b, f) = Chain[b]
<1> DEFINE kept == {i \in DOMAIN hashes : i <= f \/ i = 0}
           added == (f + 1)..Height[b]
<1>1. kept \cup added = 0..Height[b]
  <2>1. CASE peak = NoBlock
      BY <2>1, ForkHeight DEF Empty
  <2>2. CASE peak # NoBlock
      BY <2>2, ForkHeight
  <2>3. QED
      BY <2>1, <2>2
<1>2. \A i \in kept : i \notin added => hashes[i] = Chain[b][i]
  <2>1. CASE peak = NoBlock
      BY <2>1, ForkHeight DEF Empty
  <2>2. CASE peak # NoBlock
      BY <2>2, ForkHeight
  <2>3. QED
      BY <2>1, <2>2
<1>3. NewHashes(b, f) = [i \in kept \cup added |-> IF i \in added THEN Chain[b][i] ELSE hashes[i]]
    BY DEF NewHashes
<1> HIDE DEF kept, added
<1>4. \A i \in kept \cup added : (IF i \in added THEN Chain[b][i] ELSE hashes[i]) = Chain[b][i]
    BY <1>2
<1>5. NewHashes(b, f) = [i \in 0..Height[b] |-> Chain[b][i]]
    BY <1>1, <1>3, <1>4
<1>6. Chain[b] = [i \in 0..Height[b] |-> Chain[b][i]]
    BY ChainAssumption
<1>7. QED
    BY <1>5, <1>6

(* What a step does to the history variable.                               *)
LEMMA TornIsBoolean ==
    ASSUME torn \in BOOLEAN, [Next]_vars
    PROVE  torn' \in BOOLEAN
<1>1. ASSUME NEW b \in Blocks, NewPeak(b) PROVE torn' = torn
    BY <1>1 DEF NewPeak
<1>2. CASE WriteHashes \/ WriteSummaries \/ UNCHANGED vars
    BY <1>2 DEF WriteHashes, WriteSummaries, vars
<1>3. CASE WriteFails \/ CancelFlush
    BY <1>3 DEF WriteFails, CancelFlush
<1>4. CASE Restart
  <2>1. torn' = (torn \/ pc # "idle")
      BY <1>4 DEF Restart
  <2>2. QED
      BY <2>1, Zenon
<1>5. QED
    BY <1>1, <1>2, <1>3, <1>4 DEF Next

LEMMA InitInv == Init => Inv
<1>1. Init => torn \in BOOLEAN
    BY Zenon DEF Init
<1>2. QED
    BY <1>1 DEF Init, Inv, TypeOK, MapIsPath, FileIsChain, Empty

LEMMA NewPeakInv ==
    ASSUME Inv, NEW b \in Blocks, NewPeak(b), torn' \in BOOLEAN
    PROVE  Inv'
<1>1. PICK f \in -1..(Height[b] - 1) : IsForkHeight(b, f) /\ hashes' = NewHashes(b, f)
                                       /\ summaries' = NewSummaries(b, f) /\ MaybeFlush(Height[b] - f)
    BY DEF NewPeak
<1>2. peak' = b /\ hashFile' = hashFile /\ sesFile' = sesFile
    BY DEF NewPeak, files
<1>3. Height[b] \in Nat /\ Height[b] - f \in Nat /\ b # NoBlock
    BY ChainAssumption
<1>4. hashes' = Chain[b]
    BY <1>1, NewHashesIsChain
<1>5. DOMAIN hashes' \subseteq Nat
    BY <1>3, <1>4, ChainAssumption
<1>6. DOMAIN summaries' \subseteq Nat
    BY <1>1, <1>3 DEF NewSummaries, Inv, TypeOK
<1>7. dirty' \in Nat /\ pc' \in {"idle", "hashes", "summaries"}
    BY <1>1, <1>3, ParametersAssumption DEF MaybeFlush, Inv, TypeOK
<1>8. QED
    BY <1>2, <1>3, <1>4, <1>5, <1>6, <1>7 DEF Inv, TypeOK, MapIsPath, FileIsChain

LEMMA WriteHashesInv ==
    ASSUME Inv, WriteHashes, torn' \in BOOLEAN
    PROVE  Inv'
<1>1. FileIsChain'
  <2>1. hashes = Empty \/ \E q \in Blocks : hashes = Chain[q]
      BY DEF Inv, MapIsPath, TypeOK
  <2>2. QED
      BY <2>1 DEF WriteHashes, FileIsChain, Empty
<1>2. QED
    BY <1>1 DEF WriteHashes, Inv, TypeOK, MapIsPath

(* What is read from the files is what the database has.                   *)
LEMMA RestartInv ==
    ASSUME Inv, Restart, torn' \in BOOLEAN
    PROVE  Inv'
<1>1. peak' = peak /\ hashFile' = hashFile /\ sesFile' = sesFile
    BY DEF Restart, files
<1>2. CASE peak = NoBlock
  <2>1. LoadNothing
      BY <1>2 DEF Restart
  <2>2. QED
      BY <1>1, <1>2, <2>1 DEF LoadNothing, Inv, TypeOK, MapIsPath, FileIsChain, Empty
<1>3. CASE peak # NoBlock
  <2>1. peak \in Blocks /\ Height[peak] \in Nat /\ Chain[peak][Height[peak]] = peak
        /\ Chain[peak] = [i \in 0..Height[peak] |-> Chain[peak][i]]
      BY <1>3, ChainAssumption DEF Inv, TypeOK
  <2>2. CASE LoadFiles
    <3>1. \A i \in 0..Height[peak] : Padded(i) = Chain[peak][i]
      <4>1. Height[peak] \in 0..Height[peak] /\ FileIsChain
          BY <2>1 DEF Inv
      <4>2. Padded(Height[peak]) = Chain[peak][Height[peak]]
          BY <2>1, <2>2 DEF LoadFiles
      <4>3. QED
          BY <2>1, <4>1, <4>2, FileAgrees
    <3>2. hashes' = Chain[peak]
        BY <2>1, <2>2, <3>1 DEF LoadFiles
    <3>3. DOMAIN hashes' \subseteq Nat
        BY <2>1, <3>2, ChainAssumption
    <3>4. QED
        BY <1>1, <1>3, <2>2, <3>2, <3>3 DEF LoadFiles, Inv, TypeOK, MapIsPath, FileIsChain
  <2>3. CASE LoadFromDatabase
    <3>1. PICK s \in -1..(Height[peak] - 1) :
            /\ IsStop(s)
            /\ hashes' = LoadedHashes(s)
            /\ summaries' = LoadedSummaries(s)
            /\ LET n == Height[peak] - s
               IN  IF n < FlushLimit THEN dirty' = n /\ pc' = "idle"
                   ELSE dirty' = 0 /\ pc' = "hashes"
        BY <2>3 DEF LoadFromDatabase
    <3>2. \A i \in 0..s : Padded(i) = Chain[peak][i]
      <4>1. CASE s = -1
          BY <4>1
      <4>2. CASE s # -1
        <5>1. s \in 0..Height[peak] /\ Padded(s) = Chain[peak][s]
            BY <2>1, <3>1, <4>2 DEF IsStop, InFiles
        <5>2. QED
            BY <2>1, <5>1, FileAgrees DEF Inv
      <4>3. QED
          BY <4>1, <4>2
    <3>3. \A i \in 0..Height[peak] : (IF i > s THEN Chain[peak][i] ELSE Padded(i)) = Chain[peak][i]
      <4>1. \A i \in 0..Height[peak] : i <= s => i \in 0..s
          BY <2>1
      <4>2. \A i \in 0..Height[peak] : i > s \/ i <= s
          BY <2>1
      <4>3. QED
          BY <3>2, <4>1, <4>2
    <3>4. hashes' = Chain[peak]
        BY <2>1, <3>1, <3>3 DEF LoadedHashes
    <3>5. DOMAIN hashes' \subseteq Nat
        BY <2>1, <3>4, ChainAssumption
    <3>6. DOMAIN summaries' \subseteq Nat
        BY <2>1, <3>1 DEF LoadedSummaries, Inv
    <3>7. dirty' \in Nat /\ pc' \in {"idle", "hashes", "summaries"}
        BY <2>1, <3>1
    <3>8. QED
        BY <1>1, <1>3, <3>4, <3>5, <3>6, <3>7 DEF Inv, TypeOK, MapIsPath, FileIsChain
  <2>4. QED
      BY <1>3, <2>2, <2>3 DEF Restart
<1>4. QED
    BY <1>2, <1>3

LEMMA NextInv == Inv /\ [Next]_vars => Inv'
<1> SUFFICES ASSUME Inv, [Next]_vars PROVE Inv'
    OBVIOUS
<1>0. torn' \in BOOLEAN
    BY TornIsBoolean DEF Inv, TypeOK
<1>1. ASSUME NEW b \in Blocks, NewPeak(b) PROVE Inv'
    BY <1>0, <1>1, NewPeakInv
<1>2. CASE WriteHashes
    BY <1>0, <1>2, WriteHashesInv
<1>3. CASE WriteSummaries
    BY <1>0, <1>3 DEF WriteSummaries, Inv, TypeOK, MapIsPath, FileIsChain
<1>4. CASE WriteFails \/ CancelFlush
    BY <1>0, <1>4 DEF WriteFails, CancelFlush, files, Inv, TypeOK, MapIsPath, FileIsChain
<1>5. CASE Restart
    BY <1>0, <1>5, RestartInv
<1>6. CASE UNCHANGED vars
    BY <1>0, <1>6 DEF vars, Inv, TypeOK, MapIsPath, FileIsChain
<1>7. QED
    BY <1>1, <1>2, <1>3, <1>4, <1>5, <1>6 DEF Next

(***************************************************************************)
(* The map in memory is the chain of the peak in the database, whatever    *)
(* stops or fails while the files are written: this is what module         *)
(* Blockchain assumes when it starts.                                      *)
(***************************************************************************)
THEOREM MapTheorem == Spec => []MapIsPath
<1>1. Inv => MapIsPath
    BY DEF Inv
<1>2. QED
    BY <1>1, InitInv, NextInv, PTL DEF Spec

--------------------------------------------------------------------------------
(* The summaries, as long as no flush was torn.                            *)

(* The summaries of the new chain: kept up to the fork, added after it.    *)
LEMMA NewPeakSummaries ==
    ASSUME Inv, SummariesInv, ~torn, NEW b \in Blocks, NewPeak(b)
    PROVE  SummariesInv'
<1>1. PICK f \in -1..(Height[b] - 1) : IsForkHeight(b, f) /\ summaries' = NewSummaries(b, f)
                                       /\ MaybeFlush(Height[b] - f)
    BY DEF NewPeak
<1>2. pc = "idle" /\ peak' = b /\ hashFile' = hashFile /\ sesFile' = sesFile /\ pc' # "summaries"
    BY <1>1 DEF NewPeak, files, MaybeFlush
<1>3. ASSUME NEW i \in 0..Height[b], Summary[Chain[b][i]] # NoSummary
      PROVE  i \in DOMAIN NewSummaries(b, f) /\ NewSummaries(b, f)[i] = Summary[Chain[b][i]]
  <2>1. CASE i > f
    <3>1. i \in (f + 1)..Height[b]
        BY <2>1, ForkHeight, <1>1
    <3>2. QED
        BY <1>3, <3>1 DEF NewSummaries
  <2>2. CASE i <= f
    <3>1. /\ peak # NoBlock /\ i \in 0..Height[peak] /\ Chain[peak][i] = Chain[b][i]
          /\ i \notin (f + 1)..Height[b]
        BY <1>1, <2>2, ForkHeight
    <3>2. i \in DOMAIN summaries /\ summaries[i] = Summary[Chain[b][i]]
        BY <1>3, <3>1 DEF SummariesInv, SummariesComplete, OnPath
    <3>3. QED
        BY <2>2, <3>1, <3>2 DEF NewSummaries
  <2>3. QED
      BY <1>1, <2>1, <2>2, ForkHeight
<1>4. SummariesComplete'
    BY <1>1, <1>2, <1>3 DEF SummariesComplete, OnPath
<1>5. FilesMatch'
    BY <1>2 DEF SummariesInv, FilesMatch
<1>6. QED
    BY <1>2, <1>4, <1>5 DEF SummariesInv

(* The files that a restart finds belong together.                         *)
LEMMA RestartSummaries ==
    ASSUME Inv, SummariesInv, Restart, ~torn, pc = "idle"
    PROVE  SummariesInv'
<1>1. pc = "idle" /\ peak' = peak /\ hashFile' = hashFile /\ sesFile' = sesFile /\ pc' # "summaries"
    BY DEF Restart, files, LoadNothing, LoadFiles, LoadFromDatabase
<1>2. FilesMatch /\ FilesMatch'
    BY <1>1 DEF SummariesInv, FilesMatch
<1>3. CASE peak = NoBlock
    BY <1>1, <1>2, <1>3 DEF SummariesInv, SummariesComplete
<1>4. CASE peak # NoBlock
  <2>1. peak \in Blocks /\ Height[peak] \in Nat /\ Chain[peak][Height[peak]] = peak /\ FileIsChain
      BY <1>4, ChainAssumption DEF Inv, TypeOK
  (* Up to a height that both files know, the file has the summaries.      *)
  <2>2. ASSUME NEW h \in 0..Height[peak], Padded(h) = Chain[peak][h],
               NEW i \in 0..h, Summary[Chain[peak][i]] # NoSummary
        PROVE  i \in DOMAIN sesFile /\ sesFile[i] = Summary[Chain[peak][i]]
    <3>1. i \in DOMAIN hashFile /\ Padded(i) = Chain[peak][i]
        BY <2>1, <2>2, FileAgrees
    <3>2. hashFile[i] = Chain[peak][i]
        BY <3>1 DEF Padded
    <3>3. QED
        BY <1>2, <2>2, <3>1, <3>2 DEF FilesMatch
  <2>3. CASE LoadFiles
    <3>1. Height[peak] \in 0..Height[peak] /\ Padded(Height[peak]) = Chain[peak][Height[peak]]
        BY <2>1, <2>3 DEF LoadFiles
    <3>2. SummariesComplete'
        BY <1>1, <2>2, <2>3, <3>1 DEF LoadFiles, SummariesComplete, OnPath
    <3>3. QED
        BY <1>1, <1>2, <3>2 DEF SummariesInv
  <2>4. CASE LoadFromDatabase
    <3>1. PICK s \in -1..(Height[peak] - 1) : IsStop(s) /\ summaries' = LoadedSummaries(s)
        BY <2>4 DEF LoadFromDatabase
    <3>2. ASSUME NEW i \in 0..Height[peak], Summary[Chain[peak][i]] # NoSummary
          PROVE  i \in DOMAIN LoadedSummaries(s) /\ LoadedSummaries(s)[i] = Summary[Chain[peak][i]]
      <4>1. CASE i > s
        <5>1. i \in (s + 1)..Height[peak]
            BY <2>1, <4>1
        <5>2. QED
            BY <3>2, <5>1 DEF LoadedSummaries
      <4>2. CASE i <= s
        <5>1. s \in 0..Height[peak] /\ Padded(s) = Chain[peak][s] /\ i \in 0..s
              /\ i \notin (s + 1)..Height[peak]
            BY <2>1, <3>1, <4>2 DEF IsStop, InFiles
        <5>2. i \in DOMAIN sesFile /\ sesFile[i] = Summary[Chain[peak][i]]
            BY <2>2, <3>2, <5>1
        <5>3. QED
            BY <4>2, <5>1, <5>2 DEF LoadedSummaries
      <4>3. QED
          BY <2>1, <4>1, <4>2
    <3>3. SummariesComplete'
        BY <1>1, <3>1, <3>2 DEF SummariesComplete, OnPath
    <3>4. QED
        BY <1>1, <1>2, <3>3 DEF SummariesInv
  <2>5. QED
      BY <1>4, <2>3, <2>4 DEF Restart
<1>5. QED
    BY <1>3, <1>4

LEMMA WriteSummariesMatch ==
    ASSUME Inv, SummariesInv, ~torn, WriteSummaries
    PROVE  SummariesInv'
<1>1. hashFile = hashes /\ hashFile' = hashFile /\ sesFile' = summaries /\ pc' = "idle"
      /\ peak' = peak /\ summaries' = summaries
    BY DEF WriteSummaries, SummariesInv
<1>2. FilesMatch'
  <2>1. CASE peak = NoBlock
      BY <1>1, <2>1 DEF Inv, MapIsPath, FilesMatch, Empty
  <2>2. CASE peak # NoBlock
    <3>1. hashes = Chain[peak] /\ DOMAIN hashes = 0..Height[peak]
        BY <2>2, ChainAssumption DEF Inv, MapIsPath, TypeOK
    <3>2. QED
        BY <1>1, <2>2, <3>1 DEF SummariesInv, SummariesComplete, OnPath, FilesMatch
  <2>3. QED
      BY <2>1, <2>2
<1>3. QED
    BY <1>1, <1>2 DEF SummariesInv, SummariesComplete, OnPath

(***************************************************************************)
(* As long as every flush wrote both files, neither reorganisations nor    *)
(* restarts lose a summary of the chain.  The invariant that is needed:    *)
(* the file of the summaries covers the blocks of the other file, but      *)
(* between the two writes, when the first file is what is in memory.       *)
(***************************************************************************)
THEOREM SummariesTheorem == Spec => []CompleteUnlessTorn
<1>1. Init => SummariesInv
    BY DEF Init, SummariesInv, SummariesComplete, FilesMatch, Empty
<1>2. Inv /\ SummariesInv /\ [Next]_vars => SummariesInv'
  <2> SUFFICES ASSUME Inv, SummariesInv, [Next]_vars PROVE SummariesInv'
      OBVIOUS
  <2>1. CASE torn'
      BY <2>1 DEF SummariesInv
  <2>2. CASE ~torn'
    <3>1. ASSUME NEW b \in Blocks, NewPeak(b) PROVE SummariesInv'
      <4>1. ~torn
          BY <2>2, <3>1 DEF NewPeak
      <4>2. QED
          BY <3>1, <4>1, NewPeakSummaries
    <3>2. CASE WriteHashes
      <4>1. ~torn
          BY <2>2, <3>2 DEF WriteHashes
      <4>2. QED
          BY <3>2, <4>1 DEF WriteHashes, SummariesInv, SummariesComplete, OnPath
    <3>3. CASE WriteSummaries
      <4>1. ~torn
          BY <2>2, <3>3 DEF WriteSummaries
      <4>2. QED
          BY <3>3, <4>1, WriteSummariesMatch
    <3>4. CASE WriteFails \/ CancelFlush
        BY <2>2, <3>4 DEF WriteFails, CancelFlush
    <3>5. CASE Restart
      <4>1. torn' = (torn \/ pc # "idle")
          BY <3>5 DEF Restart
      <4>2. ~torn /\ pc = "idle"
          BY <2>2, <4>1, Zenon
      <4>3. QED
          BY <3>5, <4>2, RestartSummaries
    <3>6. CASE UNCHANGED vars
        BY <3>6 DEF vars, SummariesInv, SummariesComplete, OnPath, FilesMatch
    <3>7. QED
        BY <3>1, <3>2, <3>3, <3>4, <3>5, <3>6 DEF Next
  <2>3. QED
      BY <2>1, <2>2
<1>3. SummariesInv => CompleteUnlessTorn
    BY DEF SummariesInv, CompleteUnlessTorn
<1>4. QED
    BY <1>1, <1>2, <1>3, InitInv, NextInv, PTL DEF Spec

(* The summaries that rollback keeps are below the fork, and so on the     *)
(* path to the new peak too; rollback(0) keeps none, as the first block    *)
(* includes none.                                                          *)
LEMMA NewPeakOnPath ==
    ASSUME Inv, SummariesOnPath, NEW b \in Blocks, NewPeak(b)
    PROVE  SummariesOnPath'
<1>1. PICK f \in -1..(Height[b] - 1) : IsForkHeight(b, f) /\ summaries' = NewSummaries(b, f)
    BY DEF NewPeak
<1>2. peak' = b /\ b # NoBlock /\ Height[b] \in Nat
    BY ChainAssumption DEF NewPeak
<1> DEFINE kept == {i \in DOMAIN summaries : i <= f \/ i = 0}
           added == {i \in (f + 1)..Height[b] : Summary[Chain[b][i]] # NoSummary}
<1>3. summaries' = [i \in kept \cup added |-> IF i \in added THEN Summary[Chain[b][i]] ELSE summaries[i]]
    BY <1>1 DEF NewSummaries
<1>4. ASSUME NEW i \in added PROVE i \in 0..Height[b] /\ Summary[Chain[b][i]] # NoSummary
    BY <1>2
<1>5. ASSUME NEW i \in kept
      PROVE  /\ i \in 0..Height[b] /\ Summary[Chain[b][i]] # NoSummary
             /\ summaries[i] = Summary[Chain[b][i]]
  <2>1. /\ peak # NoBlock /\ i \in 0..Height[peak] /\ Summary[Chain[peak][i]] # NoSummary
        /\ summaries[i] = Summary[Chain[peak][i]]
      BY DEF SummariesOnPath, OnPath
  <2>2. /\ peak \in Blocks /\ Height[peak] \in Nat
        /\ \A j \in 0..f : Chain[peak][j] = Chain[b][j]
      BY <1>1, <2>1, ForkHeight
  <2>3. i # 0
    <3>1. Chain[peak][i] \in Blocks /\ Height[Chain[peak][i]] = i
        BY <2>1, <2>2, ChainAssumption
    <3>2. QED
        BY <2>1, <3>1, SummaryAssumption
  <2>4. i \in 0..f
      BY <2>1, <2>2, <2>3
  <2>5. QED
      BY <1>2, <2>1, <2>2, <2>4
<1> HIDE DEF kept, added
<1>6. QED
    BY <1>2, <1>3, <1>4, <1>5 DEF SummariesOnPath, OnPath

(***************************************************************************)
(* A reorganisation leaves no summary of an abandoned block in the map,    *)
(* whatever the fork height, -1 included, and also when the new chain is   *)
(* shorter than the old one.                                               *)
(***************************************************************************)
THEOREM ReorgTheorem == Spec => ReorgKeepsOnPath
<1>1. Inv /\ [Next]_vars => [peak' # peak /\ SummariesOnPath => SummariesOnPath']_vars
  <2> SUFFICES ASSUME Inv, Next, peak' # peak, SummariesOnPath PROVE SummariesOnPath'
      OBVIOUS
  <2>1. ~WriteHashes /\ ~WriteSummaries /\ ~WriteFails /\ ~CancelFlush /\ ~Restart
      BY DEF WriteHashes, WriteSummaries, WriteFails, CancelFlush, Restart
  <2>2. PICK b \in Blocks : NewPeak(b)
      BY <2>1 DEF Next
  <2>3. QED
      BY <2>2, NewPeakOnPath
<1>2. QED
    BY <1>1, InitInv, NextInv, PTL DEF Spec, ReorgKeepsOnPath
================================================================================
