----------------------------- MODULE ReleaseFiles -----------------------------
(* The files the site is built from, and the scripts that keep them true:    *)
(* the ledger of releases (record-release.mjs), the record of the samples    *)
(* the repository lacks (measure-samples.mjs), and the files generated from  *)
(* the release (derive-explore, seo-head, docs-markdown and dump), each with *)
(* its --check.  A commit is deployed when every check passes in a clean     *)
(* checkout of it.  Editing, git and the deployment are external.            *)
EXTENDS Integers, Sequences, SequencesExt, FiniteSets

CONSTANTS
  None,
  Collections, Samples,
  Outputs,      \* generator -> the files it writes, in order
  Atomic,       \* the generators that write a temporary file and rename it
  Refills,      \* the generators that refill a block of the file they write
  MaxVersion, MaxBytes, MaxEdition, MaxActs

Scripts == DOMAIN Outputs
Files == UNION {ToSet(Outputs[s]) : s \in Scripts}

ReleaseFilesAssumption ==
  /\ {"measure-samples", "record-release"} \cap Scripts = {}
  /\ Atomic \subseteq Scripts /\ Refills \subseteq Scripts
  /\ \A s \in Scripts : Outputs[s] # << >>
  /\ MaxVersion \in Nat \ {0} /\ MaxBytes \in Nat \ {0} /\ MaxEdition \in Nat \ {0} /\ MaxActs \in Nat

VARIABLES
  manifest,   \* per collection: its current version and the facts of it
  ledger,     \* how the ledger file reads, and the releases it holds
  record,     \* samples.published.json: what it lists, None before the first
  work, index,  \* the bytes of each declared sample on disk and in git's index, 0 for none
  edition,    \* which release the generators' sources are of
  made,       \* per generated file: the edition it was made of, 0 for none, None cut short
  run,        \* the script under way
  head,       \* the last commit, and whether its record was current where it was made
  site,       \* the commit deployed
  acts

vars == <<manifest, ledger, record, work, index, edition, made, run, head, site, acts>>

-----------------------------------------------------------------------------
(* The samples (measure-samples).                                            *)

\* Why a declared sample is not published, None when it is.
WhyUnpublished(p, disk, staged) ==
  CASE disk[p] = 0 -> "not in repository"
    [] disk[p] # 0 /\ staged[p] = 0 -> "on disk, NOT in the index"
    [] disk[p] # 0 /\ staged[p] # 0 /\ disk[p] # staged[p] -> "on disk, modified and NOT staged"
    [] OTHER -> None

Measure(disk, staged) ==
  {[path |-> p, why |-> WhyUnpublished(p, disk, staged)] :
     p \in {q \in Samples : WhyUnpublished(q, disk, staged) # None}}

SamplesCheck(disk, staged, held) == held = Measure(disk, staged)

-----------------------------------------------------------------------------
(* The ledger (record-release).                                              *)

Existing(history, version) == {i \in DOMAIN history : history[i].version = version}

\* The ledger as the script reads it: only a missing file starts a new one.
Readable(l) ==
  CASE l.kind = "missing" -> [kind |-> "ok", releases |-> [c \in Collections |-> << >>]]
    [] OTHER -> l

\* A release whose facts changed under its version is refused.
Contradicts(l, m) ==
  \E c \in Collections : \E i \in Existing(l.releases[c], m[c].version) : l.releases[c][i] # m[c]
Behind(l, m) == {c \in Collections : Existing(l.releases[c], m[c].version) = {}}

Recorded(l, m) ==
  [l EXCEPT !.releases = [c \in Collections |-> IF c \in Behind(l, m) THEN Append(@[c], m[c]) ELSE @[c]]]

LedgerCheck(l, m) ==
  Readable(l).kind = "ok" /\ ~Contradicts(Readable(l), m) /\ Behind(Readable(l), m) = {}

-----------------------------------------------------------------------------
(* The generated files.                                                      *)

(* Mutant of StaleFiles: the first file speaks for those written with it.    *)
StaleFilesByTheFirst(s, files, of) == {f \in {Outputs[s][1]} : files[f] # of}

StaleFiles(s, files, of) == {f \in ToSet(Outputs[s]) : files[f] # of}

-----------------------------------------------------------------------------
(* Running a script: it reads, works out all it writes, and writes file by   *)
(* file, so that it may be stopped between two of them.                      *)

Act == acts < MaxActs /\ acts' = acts + 1
Runs(script, value, left) == [script |-> script, value |-> value, left |-> left]

StartMeasure ==
  /\ run = None /\ Act
  /\ run' = Runs("measure-samples", Measure(work, index), <<"samples.published.json">>)
  /\ UNCHANGED <<manifest, ledger, record, work, index, edition, made, head, site>>

StartRecordRelease ==
  /\ run = None /\ Act
  /\ Readable(ledger).kind = "ok" /\ ~Contradicts(Readable(ledger), manifest)
  /\ run' = Runs("record-release", Recorded(Readable(ledger), manifest), <<"releases.json">>)
  /\ UNCHANGED <<manifest, ledger, record, work, index, edition, made, head, site>>

\* A file cut short has no block to fill.
StartGenerate(s) ==
  /\ run = None /\ Act
  /\ s \in Refills => made[Outputs[s][1]] # None
  /\ run' = Runs(s, edition, Outputs[s])
  /\ UNCHANGED <<manifest, ledger, record, work, index, edition, made, head, site>>

Writes(value) ==
  CASE run.script = "measure-samples" -> record' = value /\ UNCHANGED <<ledger, made>>
    [] run.script = "record-release" -> ledger' = value /\ UNCHANGED <<record, made>>
    [] OTHER -> made' = [made EXCEPT ![Head(run.left)] = value] /\ UNCHANGED <<record, ledger>>

WriteFile ==
  /\ run # None
  /\ UNCHANGED <<manifest, work, index, edition, head, site, acts>>
  /\ Writes(run.value)
  /\ run' = IF Tail(run.left) = << >> THEN None ELSE [run EXCEPT !.left = Tail(@)]

\* Stopped: a file written in place may be left cut short, a renamed one not.
Stop ==
  /\ run # None /\ Act
  /\ \/ UNCHANGED made
     \/ run.script \in Scripts \ Atomic /\ made' = [made EXCEPT ![Head(run.left)] = None]
  /\ run' = None
  /\ UNCHANGED <<manifest, ledger, record, work, index, edition, head, site>>

-----------------------------------------------------------------------------
(* The workspace around the scripts.                                         *)

Import(c) ==
  /\ Act
  /\ \E version \in manifest[c].version .. MaxVersion, facts \in 1 .. 2 :
       manifest' = [manifest EXCEPT ![c] = [version |-> version, facts |-> facts]]
  /\ manifest' # manifest
  /\ UNCHANGED <<ledger, record, work, index, edition, made, run, head, site>>

NewEdition ==
  /\ Act /\ edition < MaxEdition /\ edition' = edition + 1
  /\ UNCHANGED <<manifest, ledger, record, work, index, made, run, head, site>>

EditSample(p) ==
  /\ Act
  /\ \E bytes \in 0 .. MaxBytes : bytes # work[p] /\ work' = [work EXCEPT ![p] = bytes]
  /\ UNCHANGED <<manifest, ledger, record, index, edition, made, run, head, site>>

GitAdd(p) ==
  /\ Act /\ index[p] # work[p] /\ index' = [index EXCEPT ![p] = work[p]]
  /\ UNCHANGED <<manifest, ledger, record, work, edition, made, run, head, site>>

\* A merge that leaves the ledger unreadable, and its resolution.
BreakLedger ==
  /\ Act /\ ledger.kind = "ok" /\ ledger' = [ledger EXCEPT !.kind = "broken"]
  /\ UNCHANGED <<manifest, record, work, index, edition, made, run, head, site>>

MendLedger ==
  /\ ledger.kind = "broken" /\ ledger' = [ledger EXCEPT !.kind = "ok"]
  /\ UNCHANGED <<manifest, record, work, index, edition, made, run, head, site, acts>>

Commit ==
  /\ Act
  /\ head' = [manifest |-> manifest, ledger |-> ledger, record |-> record, samples |-> index,
              edition |-> edition, made |-> made, measured |-> SamplesCheck(work, index, record)]
  /\ UNCHANGED <<manifest, ledger, record, work, index, edition, made, run, site>>

\* A generated file is taken back from the last commit.
Checkout(f) ==
  /\ Act /\ head # None /\ made[f] # head.made[f] /\ made' = [made EXCEPT ![f] = head.made[f]]
  /\ UNCHANGED <<manifest, ledger, record, work, index, edition, run, head, site>>

\* In a clean checkout the disk and the index are the commit's.
Green(commit) ==
  /\ SamplesCheck(commit.samples, commit.samples, commit.record)
  /\ LedgerCheck(commit.ledger, commit.manifest)
  /\ \A s \in Scripts : StaleFiles(s, commit.made, commit.edition) = {}

Deploy ==
  /\ head # None /\ Green(head) /\ site' = head /\ site # head
  /\ UNCHANGED <<manifest, ledger, record, work, index, edition, made, run, head, acts>>

-----------------------------------------------------------------------------
Init ==
  /\ manifest = [c \in Collections |-> [version |-> 1, facts |-> 1]]
  /\ ledger = [kind |-> "missing", releases |-> [c \in Collections |-> << >>]]
  /\ record = None
  /\ work \in [Samples -> {0, 1}] /\ index = work
  /\ edition = 1 /\ made \in {[f \in Files |-> 0], [f \in Files |-> 1]}
  /\ run = None /\ head = None /\ site = None /\ acts = 0

Next ==
  \/ StartMeasure \/ StartRecordRelease \/ (\E s \in Scripts : StartGenerate(s)) \/ WriteFile \/ Stop
  \/ (\E c \in Collections : Import(c)) \/ NewEdition
  \/ \E p \in Samples : EditSample(p) \/ GitAdd(p)
  \/ \E f \in Files : Checkout(f)
  \/ BreakLedger \/ MendLedger \/ Commit \/ Deploy

Spec == Init /\ [][Next]_vars

-----------------------------------------------------------------------------
(* A release, once in the ledger, stays in it with the facts it was recorded *)
(* with, whatever the manifest moves on to and whatever a merge did to the   *)
(* file (record-release.mjs).                                                *)
LedgerKeepsReleases ==
  \A c \in Collections : IsPrefix(ledger.releases[c], ledger'.releases[c])

(* A commit made where the record was current names every declared sample    *)
(* the commit does not hold, whatever lay on that machine's disk             *)
(* (measure-samples.mjs).                                                    *)
CommitNamesMissing ==
  head # None /\ head.measured =>
    {p \in Samples : head.samples[p] = 0} \subseteq {entry.path : entry \in head.record}

(* What is deployed is of one release: every generated file is of the        *)
(* edition committed with it, though its script may have been stopped        *)
(* between two of the files it writes, and the ledger holds its manifest's   *)
(* releases.                                                                 *)
SiteIsOfOneRelease ==
  site # None =>
    /\ \A f \in Files : site.made[f] = site.edition
    /\ \A c \in Collections : \E i \in DOMAIN site.ledger.releases[c] : site.ledger.releases[c][i] = site.manifest[c]

=============================================================================
