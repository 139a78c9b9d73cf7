---------------------------- MODULE PackageStore ----------------------------
(***************************************************************************)
(* The package files and the two programs that write and delete them: the  *)
(* PUT of an encrypted package (backend PackageStore.php) and the orphan   *)
(* collector (OrphanGarbageCollector.php, over RpcChainIndex.php).  They   *)
(* share only the directory.  What a letter still needs is known from the  *)
(* chain, and the collector reads the chain some way behind its head.      *)
(*                                                                         *)
(* Time is counted in blocks: now is the height of the chain and the clock *)
(* that file times are compared with.  No reorganisation is deeper than    *)
(* Confirmations, so a log below the safe block never changes.             *)
(***************************************************************************)
EXTENDS Integers, FiniteSets

CONSTANTS
    Archive,        \* SHA-256 digests of packages
    Upload,         \* PUT requests in progress
    Collector,      \* runs of app:orphan:gc
    None,           \* no file, no seal
    MinAge,         \* ORPHAN_MIN_AGE_SECONDS
    Confirmations,  \* SAFE_BLOCK_CONFIRMATIONS
    MaxLag,         \* how far an RPC endpoint may be behind the chain
    MaxRun,         \* how long one request or one collection may take
    MaxBlock        \* bound of the model on now

\* The 72 hours of the configuration are far above 64 blocks and some minutes.
ASSUME StoreAssumption ==
    /\ {MinAge, Confirmations, MaxLag, MaxRun, MaxBlock} \subseteq Nat
    /\ Confirmations > 0
    /\ MinAge >= Confirmations + MaxLag + 2 * MaxRun
    /\ None \notin [mtime: Nat, whole: BOOLEAN]
    /\ None \notin [at: Nat, age: Nat]

VARIABLES
    now,
    files,      \* archive -> its published file, or None
    upload,     \* what each PUT is doing
    accepted,   \* archives whose PUT was answered with success
    sealed,     \* archive -> the LetterSealed event that names it, or None
    gc          \* what each collector is doing

vars == <<now, files, upload, accepted, sealed, gc>>

File == [mtime: Nat, whole: BOOLEAN]
NoUpload == [pc |-> "idle", archive |-> None, whole |-> FALSE, since |-> 0]
NoRun == [pc |-> "idle", since |-> 0, snapshot |-> {}, candidates |-> {}]

TypeOK ==
    /\ now \in 0..MaxBlock
    /\ files \in [Archive -> File \cup {None}]
    /\ upload \in [Upload -> {NoUpload} \cup
          [pc: {"writing"}, archive: Archive, whole: BOOLEAN, since: Nat]]
    /\ accepted \subseteq Archive
    /\ sealed \in [Archive -> [at: Nat, age: Nat] \cup {None}]
    /\ gc \in [Collector -> [pc: {"idle", "snapshot", "delete"}, since: Nat,
                             snapshot: SUBSET Archive,
                             candidates: SUBSET Archive]]

Init ==
    /\ now = 0
    /\ files = [a \in Archive |-> None]
    /\ upload = [u \in Upload |-> NoUpload]
    /\ accepted = {}
    /\ sealed = [a \in Archive |-> None]
    /\ gc = [c \in Collector |-> NoRun]

Stored(a) == files[a] # None
Age(a) == now - files[a].mtime

-----------------------------------------------------------------------------
(* PUT /packages/{sha256}.  An exception answers the client with an error *)
(* and removes the temporary file, which no one else ever looks at.        *)

\* An archive that is there is verified, not rewritten: its time stays.
PutExisting(a) ==
    /\ Stored(a) /\ files[a].whole
    /\ accepted' = accepted \cup {a}
    /\ UNCHANGED <<now, files, upload, sealed, gc>>

\* Otherwise the body, complete or cut short, goes to a temporary file.
PutWrite(u, a) ==
    /\ upload[u] = NoUpload /\ ~Stored(a)
    /\ \E whole \in BOOLEAN :
          upload' = [upload EXCEPT ![u] =
              [pc |-> "writing", archive |-> a, whole |-> whole,
               since |-> now]]
    /\ UNCHANGED <<now, files, accepted, sealed, gc>>

\* Mutant: the digest of the body is not compared with the URL.
PutPublishUnverified(u) ==
    /\ upload[u].pc = "writing"
    /\ files' = [files EXCEPT ![upload[u].archive] =
                     [mtime |-> now, whole |-> upload[u].whole]]
    /\ accepted' = accepted \cup {upload[u].archive}
    /\ upload' = [upload EXCEPT ![u] = NoUpload]
    /\ UNCHANGED <<now, sealed, gc>>

\* A verified temporary file is renamed over the target; its time is that of
\* the last write.
PutPublish(u) ==
    /\ upload[u].pc = "writing" /\ upload[u].whole
    /\ \E mtime \in upload[u].since..now :
          files' = [files EXCEPT ![upload[u].archive] =
                        [mtime |-> mtime, whole |-> TRUE]]
    /\ accepted' = accepted \cup {upload[u].archive}
    /\ upload' = [upload EXCEPT ![u] = NoUpload]
    /\ UNCHANGED <<now, sealed, gc>>

PutFails(u) ==
    /\ upload[u].pc = "writing"
    /\ upload' = [upload EXCEPT ![u] = NoUpload]
    /\ UNCHANGED <<now, files, accepted, sealed, gc>>

-----------------------------------------------------------------------------
(* app:orphan:gc *)

\* Mutant: a second collection may start.
LockFreeAlways(c) == gc[c].pc = "idle"

\* flock: held by the process of a run, released when it ends or dies.
LockFree(c) == \A d \in Collector : gc[d].pc = "idle"

\* Mutant: the last block of the safe range is not read.
ReferencedByShort(safe) ==
    {a \in Archive : sealed[a] # None /\ sealed[a].at < safe}

\* The archives named by LetterSealed logs up to the safe block.
ReferencedBy(safe) ==
    {a \in Archive : sealed[a] # None /\ sealed[a].at <= safe}

\* The endpoint that answers may lag; with no endpoint the run aborts.
GcSnapshot(c) ==
    /\ LockFree(c)
    /\ \E lag \in 0..MaxLag :
          /\ now - lag - Confirmations >= 0
          /\ gc' = [gc EXCEPT ![c] =
                [pc |-> "snapshot", since |-> now, candidates |-> {},
                 snapshot |-> ReferencedBy(now - lag - Confirmations)]]
    /\ UNCHANGED <<now, files, upload, accepted, sealed>>

Orphan(c, a) == Stored(a) /\ Age(a) >= MinAge /\ a \notin gc[c].snapshot

\* The directory is listed once; --apply then deletes what it found.
GcList(c) ==
    /\ gc[c].pc = "snapshot"
    /\ gc' = [gc EXCEPT ![c].pc = "delete",
                        ![c].candidates = {a \in Archive : Orphan(c, a)}]
    /\ UNCHANGED <<now, files, upload, accepted, sealed>>

\* A candidate that is no longer there ends the run with an exception.
GcDelete(c) ==
    /\ gc[c].pc = "delete"
    /\ \E a \in gc[c].candidates :
          /\ files' = [files EXCEPT ![a] = None]
          /\ gc' = IF Stored(a)
                   THEN [gc EXCEPT ![c].candidates = @ \ {a}]
                   ELSE [gc EXCEPT ![c] = NoRun]
    /\ UNCHANGED <<now, upload, accepted, sealed>>

\* The run ends: done, a dry run, a failure, or killed.
GcEnds(c) ==
    /\ gc[c].pc # "idle"
    /\ gc' = [gc EXCEPT ![c] = NoRun]
    /\ UNCHANGED <<now, files, upload, accepted, sealed>>

-----------------------------------------------------------------------------
(* The senders and the chain. *)

\* A sender whose package was accepted seals, at once or after days.
Seal(a) ==
    /\ a \in accepted /\ sealed[a] = None
    /\ sealed' = [sealed EXCEPT ![a] =
           [at |-> now, age |-> IF Stored(a) THEN Age(a) ELSE MinAge]]
    /\ UNCHANGED <<now, files, upload, accepted, gc>>

\* A new block; no request or collection outlives MaxRun.
Block ==
    /\ now < MaxBlock
    /\ \A u \in Upload : upload[u] # NoUpload => now < upload[u].since + MaxRun
    /\ \A c \in Collector : gc[c].pc # "idle" => now < gc[c].since + MaxRun
    /\ now' = now + 1
    /\ UNCHANGED <<files, upload, accepted, sealed, gc>>

Next ==
    \/ \E a \in Archive : PutExisting(a) \/ Seal(a)
    \/ \E u \in Upload, a \in Archive : PutWrite(u, a)
    \/ \E u \in Upload : PutPublish(u) \/ PutFails(u)
    \/ \E c \in Collector :
          GcSnapshot(c) \/ GcList(c) \/ GcDelete(c) \/ GcEnds(c)
    \/ Block

Spec == Init /\ [][Next]_vars

-----------------------------------------------------------------------------
(* Properties. *)

\* Nothing partial is ever published or accepted: a reader that finds a file
\* finds the bytes its name is the digest of.  (PackageStore::put)
PublishedWhole == \A a \in Archive : Stored(a) => files[a].whole

\* The age below which sealing a package is safe from every collection that
\* was already running or reads the chain late.
SafeAge == MinAge - Confirmations - MaxLag - MaxRun

\* A letter sealed before its package reaches SafeAge keeps its package for
\* ever, however the collections, uploads and blocks fall.
\* (OrphanGarbageCollector::run with RpcChainIndex::snapshot)
PromptlySealedKept ==
    \A a \in Archive :
        sealed[a] # None /\ sealed[a].age <= SafeAge => Stored(a)

\* No file younger than the minimum age is deleted, even one uploaded again
\* after a collection had listed its predecessor.
YoungNeverDeleted ==
    [][\A a \in Archive :
          Stored(a) /\ files'[a] = None => Age(a) >= MinAge]_vars

\* A package whose letter is on chain is never deleted, whatever its age.
AcceptedNeverDeleted ==
    [][\A a \in Archive :
          Stored(a) /\ sealed[a] # None => files'[a] # None]_vars
=============================================================================
