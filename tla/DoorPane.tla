------------------------------ MODULE DoorPane ------------------------------
(***************************************************************************)
(* The records in the public page's frame (PressCollectionPreview.jsx):    *)
(* the pane reads the collection's published sample and, with it, the      *)
(* codebook its headings come from, and shows them together or not at all. *)
(*                                                                         *)
(* The page mounts a pane of its own for every collection it shows, so     *)
(* what a pane has read goes with it; only the codebook is the module's.   *)
(***************************************************************************)
EXTENDS Naturals, Sequences, FiniteSets, SequencesExt

CONSTANTS Collections,
          Samples,     \* the served download of each collection that has one: its records
          LandingSets, \* the record ids each chooses of it for this page, <<>> for all
          Excluded,    \* EXCLUDED_EXAMPLES: the ids that would mislead
          Rules,       \* SHOWCASE_RULES, one for each collection
          PaneRows, PhoneRows, \* the records a screen and a phone open on
          MaxMoves,    \* bound: how often another collection is shown
          MaxFaults    \* bound: outages, and answers that are not the table

Sampled == DOMAIN Samples
-----------------------------------------------------------------------------
(* The records and their order (landingExamples.js, showcase.js).            *)

(* The download's records the collection's set chooses, in its order; an id  *)
(* the download no longer holds is skipped.                                  *)
LandingSample(c) ==
  LET chosen == SelectSeq(LandingSets[c], LAMBDA id : \E r \in Range(Samples[c]) : r.id = id)
  IN  IF LandingSets[c] = <<>> THEN Samples[c]
      ELSE [i \in DOMAIN chosen |-> CHOOSE r \in Range(Samples[c]) : r.id = chosen[i]]

Kept(c) ==
  SelectSeq(LandingSample(c),
            LAMBDA r : /\ r.id \notin Excluded
                       /\ Rules[c].requireEntity => r.entity
                       /\ Rules[c].positiveAmount => r.amount > 0)

(* How many before this one report the same, where the collection is spread. *)
Repeats(c, i) ==
  IF Rules[c].spread THEN Cardinality({j \in 1..(i - 1) : Kept(c)[j].same = Kept(c)[i].same}) ELSE 0

Standing(c, r) ==
  (IF r.entity THEN 0 ELSE 2) + (IF Rules[c].amountFirst /\ r.amount <= 0 THEN 1 ELSE 0)

Precedes(c, i, j) ==
  LET a == <<Repeats(c, i), Standing(c, Kept(c)[i]), i>>
      b == <<Repeats(c, j), Standing(c, Kept(c)[j]), j>>
  IN  \E n \in 1..3 : a[n] < b[n] /\ \A m \in 1..(n - 1) : a[m] = b[m]

ShowcaseItems(c) ==
  [n \in DOMAIN Kept(c) |->
     Kept(c)[CHOOSE i \in DOMAIN Kept(c) : Cardinality({j \in DOMAIN Kept(c) : Precedes(c, j, i)}) = n - 1]]

(* What the pane lists: at most ten, on a phone the first few until asked.   *)
Listed(c, all) ==
  LET most == IF all THEN PaneRows ELSE PhoneRows
      items == ShowcaseItems(c)
  IN  SubSeq(items, 1, IF most < Len(items) THEN most ELSE Len(items))

DoorPaneAssumption == /\ Sampled \subseteq Collections
                      /\ DOMAIN LandingSets = Sampled /\ DOMAIN Rules = Sampled
                      /\ \A c \in Sampled : Kept(c) # <<>>
                      /\ PhoneRows \in Nat \ {0} /\ PaneRows \in Nat \ (0..PhoneRows)
                      /\ MaxMoves \in Nat /\ MaxFaults \in Nat

VARIABLES shown,     \* the collection in the frame
          sample,    \* its sample: "none", "unread", "reading", "here" or "failed"
          waiting,   \* whether the pane's two reads are still awaited together
          codebook,  \* "absent", "loading", "refused" (the import failed) or "here"
          online, expanded,
          moves, faults

vars == <<shown, sample, waiting, codebook, online, expanded, moves, faults>>

(* usePreviewSample's answer, in the order it looks. *)
Status == CASE sample = "none" -> "none"
            [] sample = "failed" -> "failed"
            [] waiting \/ sample # "here" \/ codebook # "here" -> "loading"
            [] OTHER -> "ok"

(* What the pane holds on arrival; the effect starts the read at once. *)
Arriving(c) == IF c \in Sampled THEN "unread" ELSE "none"

-----------------------------------------------------------------------------
Init == /\ shown \in Collections
        /\ sample = Arriving(shown) /\ waiting = FALSE
        /\ codebook \in {"absent", "here"}
        /\ online \in BOOLEAN /\ expanded = FALSE
        /\ moves = 0 /\ faults = 0

(* loadCodebook: one import however many ask; one that failed is asked for again. *)
(* Mutant of Ask: the import that failed is what every later call is given. *)
AskForTheSame(book) == IF book = "absent" THEN "loading" ELSE book
Ask(book) == IF book \in {"absent", "refused"} THEN "loading" ELSE book

(* The pane's effect: the sample and the codebook are asked for together. *)
StartReading ==
  /\ sample = "unread"
  /\ waiting' = TRUE
  /\ sample' = IF Ask(codebook) = "refused" THEN "failed" ELSE "reading"
  /\ codebook' = Ask(codebook)
  /\ UNCHANGED <<shown, online, expanded, moves, faults>>

BothHere(s, b) == s = "here" /\ b = "here"
Keep(s, b) == waiting' = (waiting /\ ~BothHere(s, b))

(* fetchSampleText: the bytes arrive and match the published digest. *)
SampleArrives ==
  /\ sample = "reading" /\ online
  /\ sample' = "here" /\ Keep("here", codebook)
  /\ UNCHANGED <<shown, codebook, online, expanded, moves, faults>>

(* No answer within fifteen seconds, an error, another status, other bytes. *)
SampleFails ==
  /\ sample = "reading"
  /\ IF online THEN faults < MaxFaults /\ faults' = faults + 1 ELSE faults' = faults
  /\ sample' = "failed" /\ waiting' = FALSE
  /\ UNCHANGED <<shown, codebook, online, expanded, moves>>

CodebookArrives ==
  /\ codebook = "loading" /\ online
  /\ codebook' = "here" /\ Keep(sample, "here")
  /\ UNCHANGED <<shown, sample, online, expanded, moves, faults>>

(* The import has no deadline of its own: offline it fails or goes on waiting. *)
CodebookFails ==
  /\ codebook = "loading"
  /\ IF online THEN faults < MaxFaults /\ faults' = faults + 1 ELSE faults' = faults
  /\ codebook' = "refused"
  /\ sample' = IF waiting THEN "failed" ELSE sample
  /\ waiting' = FALSE
  /\ UNCHANGED <<shown, online, expanded, moves>>

(* Retry, and the browser's word that the connection is back, clear a failure. *)
Cleared(s) == IF s = "failed" THEN "unread" ELSE s
Retry ==
  /\ Status = "failed"
  /\ sample' = Cleared(sample)
  /\ UNCHANGED <<shown, waiting, codebook, online, expanded, moves, faults>>
BackOnline ==
  /\ ~online /\ online' = TRUE
  /\ sample' = Cleared(sample)
  /\ UNCHANGED <<shown, waiting, codebook, expanded, moves, faults>>
GoOffline ==
  /\ online /\ faults < MaxFaults
  /\ online' = FALSE /\ faults' = faults + 1
  /\ UNCHANGED <<shown, sample, waiting, codebook, expanded, moves>>

(* The frame shows another collection: a new pane, with nothing read. *)
Show(c) ==
  /\ moves < MaxMoves /\ c # shown
  /\ shown' = c /\ sample' = Arriving(c) /\ waiting' = FALSE /\ expanded' = FALSE
  /\ moves' = moves + 1
  /\ UNCHANGED <<codebook, online, faults>>

(* Show more examples, on a phone. *)
Expand == /\ Status = "ok" /\ Len(Listed(shown, TRUE)) > PhoneRows
          /\ expanded' = ~expanded
          /\ UNCHANGED <<shown, sample, waiting, codebook, online, moves, faults>>

Next == \/ StartReading \/ SampleArrives \/ SampleFails
        \/ CodebookArrives \/ CodebookFails
        \/ Retry \/ BackOnline \/ GoOffline \/ Expand
        \/ \E c \in Collections : Show(c)

Spec == Init /\ [][Next]_vars

(* The browser answers every read, the connection comes back, and a visitor *)
(* shown a failure presses Retry.                                           *)
Fairness == /\ WF_vars(StartReading) /\ WF_vars(BackOnline) /\ WF_vars(Retry)
            /\ SF_vars(SampleArrives) /\ SF_vars(CodebookArrives)
FairSpec == Spec /\ Fairness
-----------------------------------------------------------------------------
(* However the reads failed, a visitor who presses Retry is shown the        *)
(* records: no failure is remembered, neither the pane's nor the codebook's. *)
Readable == shown \in Sampled
RetryShowsTheRecords == Readable ~> Status = "ok" \/ ~Readable

(* What is listed misleads nobody: no record left out for that is shown, and *)
(* where a collection is spread, none repeats another while a different one  *)
(* is left off.                                                              *)
ListsTheDifferentFirst ==
  Status = "ok" =>
    LET rows == Listed(shown, expanded)
    IN  /\ \A i \in DOMAIN rows : rows[i].id \notin Excluded
        /\ Rules[shown].spread =>
             \A i, j \in DOMAIN rows :
               i < j /\ rows[i].same = rows[j].same =>
                 \A k \in DOMAIN Kept(shown) : \E m \in 1..(j - 1) : rows[m].same = Kept(shown)[k].same

=============================================================================
