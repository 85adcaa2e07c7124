---------------------------- MODULE ResourceCache ----------------------------
(***************************************************************************)
(* FileBackedResourceCache of src/fcp/client/cache: a manifest kept by a   *)
(* ProtoDataStore, and one file for every resource.  The mutex makes Put,  *)
(* Get and Create atomic for the threads of the process, but each writes   *)
(* to the disk several times: the process may be killed between any two    *)
(* writes and in the middle of a file, and a write may fail.  A write of   *)
(* the manifest is taken to be atomic (the ProtoDataStore is a library).   *)
(* TempFiles of the same directory is modelled beside it.                  *)
(***************************************************************************)
EXTENDS Integers, FiniteSets, Functions

CONSTANTS CacheIds,
          Resources,  \* what a Put may be given
          Size,       \* bytes of each resource
          MaxSize,    \* max_cache_size_bytes_
          MaxAge,     \* max_age of every Put and Get
          MaxNow,     \* bound on the clock
          FileFaults  \* whether the write of a file may stop half way

ASSUME ResourceSizes == Size \in [Resources -> Nat \ {0}] /\ MaxSize \in Nat

VARIABLES
  manifest, \* entries by id, or NoManifest
  files,    \* the cache directory: [of |-> resource, whole |-> BOOLEAN] by id
  cachePhase,    \* "closed", "idle", or the write that the running call does next
  draft,    \* the manifest that the running call has in memory
  putting,  \* the arguments of the running Put
  cacheNow,
  served,   \* history: what Get returned last
  temps     \* the temporary files: of this process ("new"), of an earlier one ("old")

cacheVars == <<manifest, files, cachePhase, draft, putting, cacheNow, served, temps>>

NoManifest == [none |-> 0]
NoFile == [of |-> "none", whole |-> TRUE]
NoPut == [id |-> "none", of |-> "none"]
EmptyMap == [i \in {} |-> 0]

CacheInit ==
  /\ manifest = NoManifest /\ files = EmptyMap
  /\ cachePhase = "closed" /\ draft = EmptyMap /\ putting = NoPut
  /\ cacheNow = 0 /\ served = NoFile
  /\ temps = {}

\* A file that was not written to its end is shorter by at least a byte.
FileSize(f) == IF f.whole THEN Size[f.of] ELSE Size[f.of] - 1
BytesOf(ids) == UNION {{i} \X (1..FileSize(files[i])) : i \in ids}
SizeOf(ids) == Cardinality(BytesOf(ids))

-----------------------------------------------------------------------------
(* CleanUp.                                                                *)

\* The entries that are not past their expiry and have a file.
Current == {i \in DOMAIN manifest : manifest[i].expiry >= cacheNow /\ i \in DOMAIN files}

OlderOrSame(i, j) == manifest[i].used <= manifest[j].used

\* Entries are dropped in the order of their last use, std::sort ordering equal
\* times as it likes, until less than allowed is left.
Evictions(allowed) ==
  IF SizeOf(Current) <= allowed THEN {{}}
  ELSE {E \in (SUBSET Current) \ {{}} :
          /\ \A i \in E, j \in Current \ E : OlderOrSame(i, j)
          /\ SizeOf(Current \ E) < allowed \/ E = Current
          /\ \E last \in E : /\ \A i \in E : OlderOrSame(i, last)
                             /\ SizeOf(Current \ (E \ {last})) >= allowed}

\* An error of the file system, or a crash, leaves some of the files that CleanUp
\* deletes: it evicts nothing once it failed on a file that is not tracked.
CleanUpPartly(reserved) ==
  /\ \E E \in Evictions(MaxSize - reserved) :
       \E left \in (SUBSET (DOMAIN files \ (Current \ E))) \ {{}} :
         /\ left \subseteq Current \/ E \subseteq left
         /\ files' = Restrict(files, (Current \ E) \cup left)
  /\ UNCHANGED draft

\* Mutant: the space of the resource to come is not reserved.
CleanUpAll(reserved) ==
  \E E \in Evictions(MaxSize) :
    /\ draft' = Restrict(manifest, Current \ E)
    /\ files' = Restrict(files, Current \ E)

\* Mutant: files without an entry stay.
CleanUpTracked(reserved) ==
  \E E \in Evictions(MaxSize - reserved) :
    /\ draft' = Restrict(manifest, Current \ E)
    /\ files' = Restrict(files, (DOMAIN files \ DOMAIN manifest) \cup (Current \ E))

CleanUp(reserved) ==
  \E E \in Evictions(MaxSize - reserved) :
    /\ draft' = Restrict(manifest, Current \ E)
    /\ files' = Restrict(files, Current \ E)

-----------------------------------------------------------------------------
(* Create, Put and Get.                                                    *)

\* DeleteManifest after a read or a write that failed.
LoseManifest == manifest' = NoManifest

\* Initialize: an empty manifest if there is none, then CleanUp.
CacheCreate ==
  /\ cachePhase = "closed"
  /\ IF manifest = NoManifest
     THEN manifest' = EmptyMap /\ cachePhase' = "opened" /\ UNCHANGED <<files, draft>>
     ELSE /\ UNCHANGED manifest
          /\ \/ CleanUp(0) /\ cachePhase' = "init"
             \/ CleanUpPartly(0) /\ cachePhase' = "closed"
  /\ UNCHANGED <<putting, cacheNow, served, temps>>

\* CleanUp after the manifest has been made: nothing is tracked.
CreateCleanUp ==
  /\ cachePhase = "opened"
  /\ \/ CleanUp(0) /\ cachePhase' = "init"
     \/ CleanUpPartly(0) /\ cachePhase' = "closed"
  /\ UNCHANGED <<manifest, putting, cacheNow, served, temps>>

CreateWrite ==
  /\ cachePhase = "init"
  /\ \/ manifest' = draft /\ cachePhase' = "idle"
     \/ LoseManifest /\ cachePhase' = "closed"
  /\ draft' = EmptyMap
  /\ UNCHANGED <<files, putting, cacheNow, served, temps>>

\* A resource of more than half of the cache is refused.
Put(i, c) ==
  /\ cachePhase = "idle" /\ Size[c] <= MaxSize \div 2 /\ manifest # NoManifest
  /\ \/ CleanUp(Size[c]) /\ cachePhase' = "manifest" /\ putting' = [id |-> i, of |-> c]
     \/ CleanUpPartly(Size[c]) /\ UNCHANGED <<cachePhase, putting>>
  /\ UNCHANGED <<manifest, cacheNow, served, temps>>

\* The manifest is written before the file.  insert leaves an entry that is
\* already there as it is.
PutManifest ==
  LET i == putting.id
      entry == [expiry |-> cacheNow + MaxAge, used |-> cacheNow] IN
  /\ cachePhase = "manifest"
  /\ \/ manifest' = [j \in DOMAIN draft \cup {i} |->
                       IF j \in DOMAIN draft THEN draft[j] ELSE entry] /\ cachePhase' = "file"
     \/ LoseManifest /\ cachePhase' = "idle"
  /\ draft' = EmptyMap
  /\ UNCHANGED <<files, putting, cacheNow, served, temps>>

WithFile(whole) ==
  [j \in DOMAIN files \cup {putting.id} |->
     IF j = putting.id THEN [of |-> putting.of, whole |-> whole] ELSE files[j]]

\* The file is written if it does not exist.
PutFile ==
  /\ cachePhase = "file"
  /\ \/ putting.id \in DOMAIN files /\ UNCHANGED files
     \/ putting.id \notin DOMAIN files /\ files' = WithFile(TRUE)
     \/ FileFaults /\ putting.id \notin DOMAIN files /\ files' = WithFile(FALSE)
  /\ cachePhase' = "idle" /\ putting' = NoPut
  /\ UNCHANGED <<manifest, draft, cacheNow, served, temps>>

\* Get does not look at the expiry, which it moves.  A file that cannot be read
\* is deleted; its entry is left in the manifest on disk.
Get(i) ==
  /\ cachePhase = "idle"
  /\ IF manifest = NoManifest THEN UNCHANGED <<manifest, files, served>>
     ELSE IF i \notin DOMAIN manifest \/ i \notin DOMAIN files
     THEN served' = NoFile /\ UNCHANGED <<manifest, files>>
     ELSE \/ /\ manifest' = [manifest EXCEPT ![i] = [expiry |-> cacheNow + MaxAge, used |-> cacheNow]]
             /\ served' = files[i]
             /\ UNCHANGED files
          \/ LoseManifest /\ served' = NoFile /\ UNCHANGED files
          \/ /\ FileFaults /\ files' = Restrict(files, DOMAIN files \ {i})
             /\ served' = NoFile
             /\ UNCHANGED manifest
  /\ UNCHANGED <<cachePhase, draft, putting, cacheNow, temps>>

-----------------------------------------------------------------------------
(* The process, its temporary files, and time.                             *)

\* A crash while the file is written may leave a part of it; one in the middle of
\* CleanUp does what CleanUpPartly does.
CacheCrash ==
  /\ cachePhase # "closed"
  /\ cachePhase' = "closed" /\ draft' = EmptyMap /\ putting' = NoPut
  /\ \/ UNCHANGED files
     \/ FileFaults /\ cachePhase = "file" /\ putting.id \notin DOMAIN files /\ files' = WithFile(FALSE)
  /\ temps' = IF temps = {} THEN {} ELSE {"old"}
  /\ UNCHANGED <<manifest, cacheNow, served>>

\* TempFiles::Create deletes what an earlier process left.
TempFilesCreate ==
  /\ cachePhase = "closed"
  /\ temps' = {}
  /\ UNCHANGED <<manifest, files, cachePhase, draft, putting, cacheNow, served>>

\* CreateTempFile: O_EXCL, under a name that no other file has.
CreateTempFile ==
  /\ cachePhase = "idle" /\ "old" \notin temps
  /\ temps' = {"new"}
  /\ UNCHANGED <<manifest, files, cachePhase, draft, putting, cacheNow, served>>

CacheTick ==
  /\ cacheNow < MaxNow /\ cachePhase \in {"closed", "idle"}
  /\ cacheNow' = cacheNow + 1
  /\ UNCHANGED <<manifest, files, cachePhase, draft, putting, served, temps>>

CacheNext ==
  \/ CacheCreate \/ CreateCleanUp \/ CreateWrite \/ PutManifest \/ PutFile \/ CacheCrash \/ CacheTick
  \/ TempFilesCreate \/ CreateTempFile
  \/ \E i \in CacheIds : Get(i) \/ \E c \in Resources : Put(i, c)

CacheSpec == CacheInit /\ [][CacheNext]_cacheVars

-----------------------------------------------------------------------------
(* Properties.                                                             *)

\* The cache directory never holds more than max_cache_size_bytes_: CleanUp
\* makes room for the resource before PutFile writes it, and deletes what the
\* manifest does not track, also after crashes, writes that failed and the
\* loss of the manifest.
CacheWithinLimit == SizeOf(DOMAIN files) <= MaxSize

\* After Create the manifest and the directory agree: whatever a crash, a lost
\* manifest or a failed write left behind, no file is without an entry and no
\* entry without a file.
CreateRepairs ==
  [][cachePhase = "init" /\ cachePhase' = "idle" => DOMAIN manifest' = DOMAIN files]_cacheVars

=============================================================================
