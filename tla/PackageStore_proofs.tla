------------------------ MODULE PackageStore_proofs ------------------------
(***************************************************************************)
(* For every set of packages, uploads and collections and every age, lag   *)
(* and duration that StoreAssumption allows: types, whole files, no young  *)
(* file deleted, and the package of a promptly sealed letter kept.         *)
(***************************************************************************)
EXTENDS PackageStore, TLAPS

Writing(u) == upload[u].pc = "writing"

\* No request or collection is older than MaxRun, no file is of the future.
Timely ==
    /\ \A a \in Archive : Stored(a) => files[a].mtime <= now
    /\ \A u \in Upload : Writing(u) =>
          upload[u].since <= now /\ now <= upload[u].since + MaxRun
    /\ \A c \in Collector : gc[c].pc # "idle" =>
          gc[c].since <= now /\ now <= gc[c].since + MaxRun

OneRun ==
    \A c, d \in Collector : c # d => gc[c].pc = "idle" \/ gc[d].pc = "idle"

\* Whoever still writes a file that is there began before it was published.
WritersEarly ==
    \A u \in Upload :
        Writing(u) /\ Stored(upload[u].archive) =>
            upload[u].since <= files[upload[u].archive].mtime + MaxRun

\* What a collection will delete is there and old.
CandidatesOld ==
    \A c \in Collector : gc[c].pc = "delete" =>
        \A a \in gc[c].candidates : Stored(a) /\ Age(a) >= MinAge

\* A snapshot names every letter that was deep enough when it was taken.
SnapshotComplete ==
    \A c \in Collector, a \in Archive :
        /\ gc[c].pc = "snapshot" /\ sealed[a] # None
        /\ sealed[a].at <= gc[c].since - Confirmations - MaxLag
        => a \in gc[c].snapshot

Prompt(a) == sealed[a] # None /\ sealed[a].age <= SafeAge

\* The file of a promptly sealed letter was young when it was sealed: so is
\* any other that an upload begun earlier may put in its place.
PromptFilesYoung ==
    \A a \in Archive : Prompt(a) =>
        /\ Stored(a) /\ sealed[a].at <= now
        /\ sealed[a].at <= files[a].mtime + SafeAge

PromptSpared ==
    \A c \in Collector : gc[c].pc = "delete" =>
        \A a \in gc[c].candidates : ~Prompt(a)

IInv == /\ TypeOK /\ PublishedWhole /\ Timely /\ OneRun /\ WritersEarly
        /\ CandidatesOld /\ SnapshotComplete /\ PromptFilesYoung
        /\ PromptSpared

-----------------------------------------------------------------------------
(* Initially, and when nothing changes. *)

LEMMA InitInv == Init => IInv
  BY StoreAssumption, SMT
  DEF Init, IInv, TypeOK, NoUpload, NoRun, File, PublishedWhole, Timely,
      OneRun, WritersEarly, CandidatesOld, SnapshotComplete, Prompt,
      PromptFilesYoung, PromptSpared, Stored, Writing

LEMMA StutterInv == IInv /\ UNCHANGED vars => IInv'
  BY SMT
  DEF vars, IInv, TypeOK, NoUpload, NoRun, File, PublishedWhole, Timely,
      OneRun, WritersEarly, CandidatesOld, SnapshotComplete, Prompt,
      PromptFilesYoung, PromptSpared, Stored, Writing, Age, SafeAge

-----------------------------------------------------------------------------
(* Uploads. *)

LEMMA PutExistingStep ==
    ASSUME IInv, NEW a \in Archive, PutExisting(a) PROVE IInv'
  BY SMT
  DEF PutExisting, IInv, TypeOK, NoUpload, NoRun, File, PublishedWhole, Timely,
      OneRun, WritersEarly, CandidatesOld, SnapshotComplete, Prompt,
      PromptFilesYoung, PromptSpared, Stored, Writing, Age, SafeAge

LEMMA PutWriteStep ==
    ASSUME IInv, NEW u \in Upload, NEW a \in Archive, PutWrite(u, a)
    PROVE  IInv'
<1> USE StoreAssumption DEF PutWrite, IInv
<1>1. TypeOK'
  BY DEF TypeOK
<1>2. \A v \in Upload : v # u => upload'[v] = upload[v]
  BY DEF TypeOK
<1>3. upload'[u].since = now /\ upload'[u].archive = a
  BY DEF TypeOK
<1>4. Timely'
  BY <1>2, <1>3 DEF TypeOK, Timely, Stored, Writing
<1>5. WritersEarly'
  BY <1>2, <1>3 DEF TypeOK, WritersEarly, Stored, Writing
<1>6. /\ PublishedWhole' /\ OneRun' /\ CandidatesOld' /\ SnapshotComplete'
      /\ PromptFilesYoung' /\ PromptSpared'
  BY DEF PublishedWhole, OneRun, CandidatesOld, SnapshotComplete,
         PromptFilesYoung, PromptSpared, Prompt, Stored, Age
<1>7. QED
  BY <1>1, <1>4, <1>5, <1>6

LEMMA PutFailsStep ==
    ASSUME IInv, NEW u \in Upload, PutFails(u) PROVE IInv'
<1> USE DEF PutFails, IInv
<1>1. TypeOK'
  BY DEF TypeOK
<1>2. \A v \in Upload : Writing(v)' => upload'[v] = upload[v]
  BY DEF TypeOK, Writing, NoUpload
<1>3. Timely' /\ WritersEarly'
  BY <1>2 DEF Timely, WritersEarly, Stored, Writing
<1>4. /\ PublishedWhole' /\ OneRun' /\ CandidatesOld' /\ SnapshotComplete'
      /\ PromptFilesYoung' /\ PromptSpared'
  BY DEF PublishedWhole, OneRun, CandidatesOld, SnapshotComplete,
         PromptFilesYoung, PromptSpared, Prompt, Stored, Age
<1>5. QED
  BY <1>1, <1>3, <1>4

LEMMA PutPublishStep ==
    ASSUME IInv, NEW u \in Upload, PutPublish(u) PROVE IInv'
<1> USE StoreAssumption DEF IInv
<1>0. PICK b \in Archive : b = upload[u].archive
  BY DEF PutPublish, TypeOK, NoUpload
<1>1. PICK m \in upload[u].since..now :
          files' = [files EXCEPT ![b] = [mtime |-> m, whole |-> TRUE]]
  BY <1>0 DEF PutPublish
<1>2. /\ upload[u].pc = "writing"
      /\ upload[u].since \in Nat /\ now \in Nat /\ m \in Nat
      /\ upload[u].since <= m /\ m <= now /\ now <= upload[u].since + MaxRun
  BY <1>1 DEF PutPublish, TypeOK, NoUpload, Timely, Writing
<1>3. /\ upload' = [upload EXCEPT ![u] = NoUpload]
      /\ accepted' = accepted \cup {b} /\ UNCHANGED <<now, sealed, gc>>
  BY <1>0 DEF PutPublish
<1>4. /\ files'[b] = [mtime |-> m, whole |-> TRUE]
      /\ \A a \in Archive : a # b => files'[a] = files[a]
      /\ \A v \in Upload : Writing(v)' =>
            v # u /\ upload'[v] = upload[v] /\ Writing(v)
  BY <1>1, <1>2, <1>3 DEF TypeOK, Writing, NoUpload
<1>5. Stored(b)' /\ \A a \in Archive : Stored(a) => Stored(a)'
  <2>1. files'[b] \in [mtime: Nat, whole: BOOLEAN]
    BY <1>2, <1>4
  <2>2. files'[b] # None
    BY <2>1
  <2> QED
    BY <2>2, <1>4 DEF Stored
<1>6. TypeOK'
  BY <1>1, <1>2, <1>3 DEF TypeOK, File
<1>7. PublishedWhole' /\ Timely'
  BY <1>2, <1>3, <1>4 DEF PublishedWhole, Timely, Stored, Writing
<1>8. WritersEarly'
  <2> SUFFICES ASSUME NEW v \in Upload, Writing(v)', Stored(upload[v].archive)'
               PROVE  upload[v].since <= files'[upload[v].archive].mtime + MaxRun
    BY <1>4 DEF WritersEarly
  <2>1. upload[v].since \in Nat /\ upload[v].archive \in Archive
        /\ upload[v].since <= now
    BY <1>4 DEF Timely, TypeOK, NoUpload, Writing
  <2>2. CASE upload[v].archive = b
    BY <2>1, <2>2, <1>2, <1>4
  <2>3. CASE upload[v].archive # b
    BY <2>1, <2>3, <1>4 DEF WritersEarly, Stored
  <2> QED
    BY <2>2, <2>3
<1>9. \A c \in Collector : gc[c].pc = "delete" => b \notin gc[c].candidates
  <2> SUFFICES ASSUME NEW c \in Collector, gc[c].pc = "delete",
                      b \in gc[c].candidates
               PROVE  FALSE
    OBVIOUS
  <2>1. Stored(b) /\ Age(b) >= MinAge
    BY DEF CandidatesOld
  <2>2. files[b].mtime \in Nat /\ upload[u].since <= files[b].mtime + MaxRun
    BY <1>0, <1>2, <2>1 DEF WritersEarly, Writing, TypeOK, File, Stored
  <2> QED
    BY <1>2, <2>1, <2>2 DEF Age
<1>10. CandidatesOld'
  BY <1>2, <1>3, <1>4, <1>9 DEF CandidatesOld, Stored, Age, TypeOK
<1>11. PromptFilesYoung'
  <2> SUFFICES ASSUME NEW a \in Archive, Prompt(a)
               PROVE  /\ Stored(a)' /\ sealed[a].at <= now
                      /\ sealed[a].at <= files'[a].mtime + SafeAge
    BY <1>3 DEF PromptFilesYoung, Prompt
  <2>1. /\ Stored(a) /\ sealed[a].at <= now /\ sealed[a].at \in Nat
        /\ sealed[a].at <= files[a].mtime + SafeAge
    BY DEF PromptFilesYoung, Prompt, TypeOK
  <2>2. CASE a = b
    BY <2>1, <2>2, <1>2, <1>4, <1>5 DEF SafeAge
  <2>3. CASE a # b
    BY <2>1, <2>3, <1>4, <1>5
  <2> QED
    BY <2>2, <2>3
<1>12. OneRun' /\ SnapshotComplete' /\ PromptSpared'
  BY <1>3 DEF OneRun, SnapshotComplete, PromptSpared, Prompt
<1>13. QED
  BY <1>6, <1>7, <1>8, <1>10, <1>11, <1>12

-----------------------------------------------------------------------------
(* Collections. *)

LEMMA GcSnapshotStep ==
    ASSUME IInv, NEW c \in Collector, GcSnapshot(c) PROVE IInv'
<1> USE StoreAssumption DEF IInv
<1>1. PICK lag \in 0..MaxLag :
          /\ now - lag - Confirmations >= 0
          /\ gc' = [gc EXCEPT ![c] =
                [pc |-> "snapshot", since |-> now, candidates |-> {},
                 snapshot |-> ReferencedBy(now - lag - Confirmations)]]
  BY DEF GcSnapshot
<1>2. /\ UNCHANGED <<now, files, upload, accepted, sealed>>
      /\ \A d \in Collector : gc[d].pc = "idle"
  BY DEF GcSnapshot, LockFree
<1>3. /\ gc'[c] = [pc |-> "snapshot", since |-> now, candidates |-> {},
                   snapshot |-> ReferencedBy(now - lag - Confirmations)]
      /\ \A d \in Collector : d # c => gc'[d] = gc[d]
  BY <1>1 DEF TypeOK
<1>4. TypeOK'
  BY <1>1, <1>2 DEF TypeOK, ReferencedBy
<1>5. Timely' /\ OneRun' /\ CandidatesOld' /\ PromptSpared'
  BY <1>2, <1>3 DEF TypeOK, Timely, OneRun, CandidatesOld, PromptSpared,
                    Stored, Writing
<1>6. SnapshotComplete'
  <2> SUFFICES ASSUME NEW a \in Archive, sealed[a] # None,
                      sealed[a].at <= now - Confirmations - MaxLag
               PROVE  a \in ReferencedBy(now - lag - Confirmations)
    BY <1>2, <1>3 DEF SnapshotComplete
  <2>1. sealed[a].at \in Nat /\ now \in Nat
    BY DEF TypeOK
  <2> QED
    BY <2>1 DEF ReferencedBy
<1>7. PublishedWhole' /\ WritersEarly' /\ PromptFilesYoung'
  BY <1>2 DEF PublishedWhole, WritersEarly, PromptFilesYoung, Prompt, Stored,
              Writing
<1>8. QED
  BY <1>4, <1>5, <1>6, <1>7

\* What is listed is old, and was not promptly sealed: the letter of an old
\* file that was would be deep enough for the snapshot.
LEMMA GcListStep ==
    ASSUME IInv, NEW c \in Collector, GcList(c) PROVE IInv'
<1> USE StoreAssumption DEF IInv
<1>1. /\ gc[c].pc = "snapshot" /\ UNCHANGED <<now, files, upload, sealed>>
      /\ gc'[c].pc = "delete" /\ gc'[c].since = gc[c].since
      /\ gc'[c].candidates = {a \in Archive : Orphan(c, a)}
      /\ \A d \in Collector : d # c => gc'[d] = gc[d]
  BY DEF GcList, TypeOK
<1>2. TypeOK'
  <2> DEFINE kind == [pc: {"idle", "snapshot", "delete"}, since: Nat,
                      snapshot: SUBSET Archive, candidates: SUBSET Archive]
             run == [gc[c] EXCEPT !.pc = "delete",
                        !.candidates = {a \in Archive : Orphan(c, a)}]
  <2>1. run \in kind
    BY DEF TypeOK
  <2>2. gc' = [gc EXCEPT ![c] = run]
    BY DEF GcList, TypeOK
  <2>3. gc \in [Collector -> kind]
    BY DEF TypeOK
  <2> HIDE DEF kind, run
  <2>4. gc' \in [Collector -> kind]
    BY <2>1, <2>2, <2>3
  <2> QED
    BY <2>4 DEF GcList, TypeOK, kind
<1>3. Timely' /\ OneRun' /\ CandidatesOld' /\ SnapshotComplete'
  BY <1>1 DEF Timely, OneRun, CandidatesOld, SnapshotComplete, Orphan, Stored,
              Writing, Age
<1>4. \A a \in Archive : Orphan(c, a) => ~Prompt(a)
  <2> SUFFICES ASSUME NEW a \in Archive, Orphan(c, a), Prompt(a)
               PROVE  FALSE
    OBVIOUS
  <2>1. /\ sealed[a] # None /\ sealed[a].at \in Nat /\ now \in Nat
        /\ gc[c].since \in Nat
    BY DEF Prompt, TypeOK
  <2>2. files[a].mtime \in Nat /\ sealed[a].at <= files[a].mtime + SafeAge
    BY DEF Orphan, PromptFilesYoung, TypeOK, File, Stored
  <2>3. sealed[a].at <= gc[c].since - Confirmations - MaxLag
    BY <2>1, <2>2, <1>1 DEF Timely, SafeAge, Orphan, Age
  <2> QED
    BY <2>1, <2>3, <1>1 DEF SnapshotComplete, Orphan
<1>5. PromptSpared'
  BY <1>1, <1>4 DEF PromptSpared, Prompt
<1>6. PublishedWhole' /\ WritersEarly' /\ PromptFilesYoung'
  BY <1>1 DEF PublishedWhole, WritersEarly, PromptFilesYoung, Prompt, Stored,
              Writing
<1>7. QED
  BY <1>2, <1>3, <1>5, <1>6

LEMMA GcDeleteStep ==
    ASSUME IInv, NEW c \in Collector, GcDelete(c) PROVE IInv'
<1> USE StoreAssumption DEF IInv
<1>1. PICK a \in gc[c].candidates :
          /\ files' = [files EXCEPT ![a] = None]
          /\ gc' = IF Stored(a) THEN [gc EXCEPT ![c].candidates = @ \ {a}]
                   ELSE [gc EXCEPT ![c] = NoRun]
  BY DEF GcDelete
<1>2. /\ gc[c].pc = "delete" /\ UNCHANGED <<now, upload, accepted, sealed>>
  BY DEF GcDelete
<1>3. a \in Archive /\ Stored(a) /\ ~Prompt(a)
  BY <1>2 DEF CandidatesOld, PromptSpared, TypeOK, NoRun
<1>4. /\ gc' = [gc EXCEPT ![c].candidates = @ \ {a}]
      /\ gc'[c] = [gc[c] EXCEPT !.candidates = @ \ {a}]
      /\ \A d \in Collector : d # c => gc'[d] = gc[d] /\ gc[d].pc = "idle"
  BY <1>1, <1>2, <1>3 DEF TypeOK, OneRun
<1>5. /\ ~Stored(a)'
      /\ \A b \in Archive : b # a => files'[b] = files[b]
  BY <1>1, <1>3 DEF Stored, TypeOK
<1>6. TypeOK'
  BY <1>1, <1>2, <1>4 DEF TypeOK
<1>7. /\ gc'[c].pc = "delete" /\ gc'[c].since = gc[c].since
      /\ gc'[c].candidates = gc[c].candidates \ {a}
      /\ gc[c].candidates \subseteq Archive
  BY <1>2, <1>4 DEF TypeOK
<1>8. PublishedWhole' /\ Timely' /\ WritersEarly'
  <2>1. \A u \in Upload : Writing(u) => upload[u].archive \in Archive
    BY DEF TypeOK, NoUpload, Writing
  <2> QED
    BY <2>1, <1>2, <1>4, <1>5, <1>7
       DEF PublishedWhole, Timely, WritersEarly, Stored, Writing
<1>9. OneRun' /\ SnapshotComplete'
  BY <1>2, <1>4, <1>7 DEF OneRun, SnapshotComplete
<1>10. CandidatesOld' /\ PromptSpared'
  <2> SUFFICES ASSUME NEW d \in Collector, gc'[d].pc = "delete",
                      NEW b \in gc'[d].candidates
               PROVE  Stored(b)' /\ Age(b)' >= MinAge /\ ~Prompt(b)'
    BY DEF CandidatesOld, PromptSpared
  <2>1. d = c /\ b \in Archive /\ b # a /\ b \in gc[c].candidates
    BY <1>4, <1>7
  <2> QED
    BY <2>1, <1>2, <1>5 DEF CandidatesOld, PromptSpared, Prompt, Stored, Age
<1>11. PromptFilesYoung'
  BY <1>2, <1>3, <1>5 DEF PromptFilesYoung, Prompt, Stored
<1>12. QED
  BY <1>6, <1>8, <1>9, <1>10, <1>11

LEMMA GcEndsStep ==
    ASSUME IInv, NEW c \in Collector, GcEnds(c) PROVE IInv'
<1> USE DEF GcEnds, IInv
<1>1. TypeOK'
  BY DEF TypeOK, NoRun
<1>2. gc'[c].pc = "idle" /\ \A d \in Collector : d # c => gc'[d] = gc[d]
  BY DEF TypeOK, NoRun
<1>3. /\ Timely' /\ OneRun' /\ CandidatesOld' /\ SnapshotComplete'
      /\ PromptSpared'
  BY <1>2 DEF Timely, OneRun, CandidatesOld, SnapshotComplete, PromptSpared,
              Prompt, Stored, Writing, Age
<1>4. PublishedWhole' /\ WritersEarly' /\ PromptFilesYoung'
  BY DEF PublishedWhole, WritersEarly, PromptFilesYoung, Prompt, Stored,
         Writing
<1>5. QED
  BY <1>1, <1>3, <1>4

-----------------------------------------------------------------------------
(* Senders and the chain. *)

LEMMA SealStep ==
    ASSUME IInv, NEW a \in Archive, Seal(a) PROVE IInv'
<1> USE StoreAssumption DEF IInv
<1> DEFINE seal == [at |-> now, age |-> IF Stored(a) THEN Age(a) ELSE MinAge]
<1>1. /\ sealed' = [sealed EXCEPT ![a] = seal] /\ sealed[a] = None
      /\ UNCHANGED <<now, files, upload, accepted, gc>>
  BY DEF Seal
<1>2. Stored(a) => Age(a) \in Nat /\ files[a].mtime \in Nat
  BY DEF Timely, TypeOK, File, Stored, Age
<1>3. now \in Nat /\ seal \in [at: Nat, age: Nat]
  BY <1>2 DEF TypeOK
<1>4. /\ sealed'[a] = seal
      /\ \A b \in Archive : b # a => sealed'[b] = sealed[b]
  BY <1>1 DEF TypeOK
<1>5. TypeOK'
  BY <1>1, <1>3 DEF TypeOK
<1>6. SnapshotComplete'
  <2> SUFFICES ASSUME NEW c \in Collector, NEW b \in Archive,
                      gc[c].pc = "snapshot", sealed'[b] # None,
                      sealed'[b].at <= gc[c].since - Confirmations - MaxLag
               PROVE  b \in gc[c].snapshot
    BY <1>1 DEF SnapshotComplete
  <2>1. b # a
    <3>1. gc[c].since \in Nat /\ gc[c].since <= now
      BY DEF Timely, TypeOK
    <3> QED
      BY <3>1, <1>3, <1>4
  <2> QED
    BY <2>1, <1>4 DEF SnapshotComplete
<1>7. Prompt(a)' => Stored(a) /\ Age(a) <= SafeAge /\ Age(a) < MinAge
  BY <1>2, <1>4 DEF Prompt, SafeAge
<1>8. PromptFilesYoung'
  BY <1>1, <1>2, <1>3, <1>4, <1>7
     DEF PromptFilesYoung, Prompt, Stored, Age, SafeAge
<1>9. PromptSpared'
  <2> SUFFICES ASSUME NEW c \in Collector, gc[c].pc = "delete",
                      NEW b \in gc[c].candidates, Prompt(b)'
               PROVE  FALSE
    BY <1>1 DEF PromptSpared
  <2>1. b \in Archive /\ Stored(b) /\ Age(b) >= MinAge
    BY DEF CandidatesOld, TypeOK, NoRun
  <2>2. CASE b = a
    BY <2>1, <2>2, <1>2, <1>7
  <2>3. CASE b # a
    BY <2>1, <2>3, <1>4 DEF PromptSpared, Prompt
  <2> QED
    BY <2>2, <2>3
<1>10. /\ PublishedWhole' /\ Timely' /\ OneRun' /\ WritersEarly'
       /\ CandidatesOld'
  BY <1>1 DEF PublishedWhole, Timely, OneRun, WritersEarly, CandidatesOld,
              Stored, Writing, Age
<1>11. QED
  BY <1>5, <1>6, <1>8, <1>9, <1>10

LEMMA BlockStep ==
    ASSUME IInv, Block PROVE IInv'
<1> USE StoreAssumption DEF Block, IInv
<1>1. TypeOK'
  BY DEF TypeOK
<1>2. Timely'
  <2>1. \A a \in Archive : Stored(a) => files[a].mtime \in Nat
    BY DEF TypeOK, File, Stored
  <2>2. \A u \in Upload : Writing(u) => upload[u].since \in Nat
                                     /\ upload[u] # NoUpload
    BY DEF TypeOK, Writing, NoUpload
  <2>3. \A c \in Collector : gc[c].since \in Nat
    BY DEF TypeOK
  <2> QED
    BY <2>1, <2>2, <2>3 DEF Timely, TypeOK, Stored, Writing
<1>3. CandidatesOld'
  <2>1. \A a \in Archive : Stored(a) => files[a].mtime \in Nat
    BY DEF TypeOK, File, Stored
  <2>2. \A c \in Collector : gc[c].candidates \subseteq Archive
    BY DEF TypeOK
  <2> QED
    BY <2>1, <2>2 DEF CandidatesOld, Stored, Age, TypeOK
<1>4. PromptFilesYoung'
  BY DEF PromptFilesYoung, Prompt, Stored, TypeOK, SafeAge
<1>5. /\ PublishedWhole' /\ OneRun' /\ WritersEarly' /\ SnapshotComplete'
      /\ PromptSpared'
  BY DEF PublishedWhole, OneRun, WritersEarly, SnapshotComplete, PromptSpared,
         Prompt, Stored, Writing
<1>6. QED
  BY <1>1, <1>2, <1>3, <1>4, <1>5

-----------------------------------------------------------------------------
(* Theorems. *)

\* Types, whole files, timeliness and what they imply for collections hold in
\* every state: the invariant is inductive.
THEOREM SafetyInvariant == Spec => []IInv
<1>1. ASSUME IInv, [Next]_vars PROVE IInv'
  <2>1. CASE UNCHANGED vars
    BY <1>1, <2>1, StutterInv
  <2>2. CASE Next
    BY <1>1, <2>2, PutExistingStep, PutWriteStep, PutPublishStep, PutFailsStep,
       GcSnapshotStep, GcListStep, GcDeleteStep, GcEndsStep, SealStep,
       BlockStep
       DEF Next
  <2> QED
    BY <1>1, <2>1, <2>2
<1>2. QED
  BY <1>1, InitInv, PTL DEF Spec

\* The directory, the uploads and the collections keep their types.
THEOREM TypeCorrect == Spec => []TypeOK
  BY SafetyInvariant, PTL DEF IInv

\* A file under a package's name is whole.  (PackageStore::put)
THEOREM PublishedWholeAlways == Spec => []PublishedWhole
  BY SafetyInvariant, PTL DEF IInv

\* The package of a letter that was sealed before it reached SafeAge is there
\* for ever.  (OrphanGarbageCollector::run)
THEOREM PromptlySealedKeptAlways == Spec => []PromptlySealedKept
<1>1. IInv => PromptlySealedKept
  BY DEF IInv, PromptFilesYoung, Prompt, PromptlySealedKept
<1>2. QED
  BY <1>1, SafetyInvariant, PTL

\* No step deletes a file younger than the minimum age.
THEOREM YoungNeverDeletedEver == Spec => YoungNeverDeleted
<1> DEFINE Spared == \A a \in Archive :
        Stored(a) /\ files'[a] = None => Age(a) >= MinAge
<1>1. ASSUME IInv, IInv', [Next]_vars PROVE [Spared]_vars
  <2> SUFFICES ASSUME NEW a \in Archive, Stored(a), files'[a] = None
               PROVE  Age(a) >= MinAge
    OBVIOUS
  <2>1. CASE UNCHANGED files
    BY <2>1 DEF Stored
  <2>2. ASSUME NEW u \in Upload, PutPublish(u) PROVE Age(a) >= MinAge
    <3>1. PICK m \in upload[u].since..now :
              files' = [files EXCEPT ![upload[u].archive] =
                            [mtime |-> m, whole |-> TRUE]]
      BY <2>2 DEF PutPublish
    <3>2. CASE a = upload[u].archive
      <4>1. m \in Nat
        BY <1>1, <2>2 DEF IInv, TypeOK, PutPublish, NoUpload
      <4>2. files'[a] \in [mtime: Nat, whole: BOOLEAN]
        BY <1>1, <3>1, <3>2, <4>1 DEF IInv, TypeOK
      <4> QED
        BY <4>2, StoreAssumption
    <3>3. CASE a # upload[u].archive
      BY <1>1, <3>1, <3>3 DEF IInv, TypeOK, Stored
    <3> QED
      BY <3>2, <3>3
  <2>3. ASSUME NEW c \in Collector, GcDelete(c) PROVE Age(a) >= MinAge
    <3>1. PICK b \in gc[c].candidates : files' = [files EXCEPT ![b] = None]
      BY <2>3 DEF GcDelete
    <3>2. a = b
      BY <1>1, <3>1 DEF IInv, TypeOK, Stored
    <3> QED
      BY <1>1, <2>3, <3>1, <3>2 DEF IInv, CandidatesOld, GcDelete
  <2> QED
    BY <1>1, <2>1, <2>2, <2>3
       DEF Next, vars, PutExisting, PutWrite, PutFails, GcSnapshot, GcList,
           GcEnds, Seal, Block
<1>2. QED
  BY <1>1, SafetyInvariant, PTL DEF Spec, YoungNeverDeleted
=============================================================================
