---------------------------- MODULE BinaryCache -----------------------------
(***************************************************************************)
(* The cache of compiled makefiles (internal/cli: prepare, cache.go and    *)
(* goMake.Execute) shared by gomake processes that run at the same time,   *)
(* while the user edits the project and purges the cache directory.        *)
(*                                                                         *)
(* The sources come in two groups, because a run reads them at different   *)
(* moments: the copied ones (makefiles, go.mod, go.sum, go.work), which    *)
(* prepare copies to the build directory, and the module's own Go files,   *)
(* which "go build" reads in place.  The key hashes both as they are on    *)
(* disk when Execute starts.  A hash is modelled by what it hashes.        *)
(***************************************************************************)
EXTENDS Naturals, FiniteSets

CONSTANTS
  Proc,      \* gomake processes, one run each
  Version,   \* contents a group of sources can have
  MaxEdits   \* how many times the user edits, bounds the model

ASSUME MaxEditsAssumption == MaxEdits \in Nat

VARIABLES
  copied,    \* content of the copied sources on disk
  module,    \* content of the module's Go files on disk
  edits,     \* how many edits the user has made
  cache,     \* cache[k]: the file in the cache directory named after key k
  pc,        \* where each process is
  copy,      \* what prepare put in the process's build directory
  key,       \* the cache key, as far as it is computed
  bin,       \* the binary in the process's build directory
  tmp,       \* the process's temporary file beside the cache entry
  ran,       \* the file the process executed
  atStart,   \* history: the sources when the process started
  touched,   \* history: was there an edit between its start and its exec?
  raced      \* history: did an edit hit a window where reads can disagree?

sources == <<copied, module, edits>>
history == <<atStart, touched, raced>>
vars == <<sources, cache, pc, copy, key, bin, tmp, ran, history>>

Key == [copied : Version, module : Version]

(* A file holds nothing, part of a binary, or the binary built from some   *)
(* contents of the sources; the latter is written as those contents.       *)
Absent  == [file |-> "absent"]
Partial == [file |-> "partial"]
Binary  == [file : {"binary"}, of : Key]
BuiltFrom(k) == [file |-> "binary", of |-> k]
File == {Absent, Partial} \cup Binary

OnDisk == [copied |-> copied, module |-> module]

PcAt == {"idle", "copied", "hashing", "unkeyed", "lookup", "compile", "linked",
         "create", "write", "rename", "exec", "ran", "failed", "killed"}

TypeOK ==
  /\ copied \in Version /\ module \in Version
  /\ edits \in 0..MaxEdits
  /\ cache \in [Key -> File]
  /\ pc \in [Proc -> PcAt]
  /\ copy \in [Proc -> Version]
  /\ key \in [Proc -> Key]
  /\ bin \in [Proc -> File]
  /\ tmp \in [Proc -> File]
  /\ ran \in [Proc -> File]
  /\ atStart \in [Proc -> Key]
  /\ touched \in [Proc -> BOOLEAN]
  /\ raced \in BOOLEAN

Init ==
  /\ copied \in Version /\ module \in Version /\ edits = 0
  /\ cache = [k \in Key |-> Absent]
  /\ pc = [p \in Proc |-> "idle"]
  /\ copy = [p \in Proc |-> copied]
  /\ key = [p \in Proc |-> OnDisk]
  /\ bin = [p \in Proc |-> Absent]
  /\ tmp = [p \in Proc |-> Absent]
  /\ ran = [p \in Proc |-> Absent]
  /\ atStart = [p \in Proc |-> OnDisk]
  /\ touched = [p \in Proc |-> FALSE]
  /\ raced = FALSE

Step(p, from, to) == pc[p] = from /\ pc' = [pc EXCEPT ![p] = to]

-----------------------------------------------------------------------------
(* Variants with one plausible bug each, for the mutant runs.              *)

HashModuleSkipped(p) ==
  /\ Step(p, "hashing", "lookup")
  /\ UNCHANGED <<sources, cache, copy, key, bin, tmp, ran, history>>

CopyInPlace(p) ==
  /\ Step(p, "write", "rename")
  /\ tmp' = [tmp EXCEPT ![p] = bin[p]]
  /\ cache' = [cache EXCEPT ![key[p]] = Partial]
  /\ UNCHANGED <<sources, copy, key, bin, ran, history>>

CopyOfKey(p) ==
  /\ Step(p, "write", "rename")
  /\ tmp' = [tmp EXCEPT ![p] = key[p]]
  /\ UNCHANGED <<sources, cache, copy, key, bin, ran, history>>

RenameToKeyOfNow(p) ==
  /\ Step(p, "rename", "exec")
  /\ cache' = [cache EXCEPT ![OnDisk] = tmp[p]]
  /\ tmp' = [tmp EXCEPT ![p] = Absent]
  /\ UNCHANGED <<sources, copy, key, bin, ran, history>>

RenameLeavesTemp(p) ==
  /\ Step(p, "rename", "exec")
  /\ \/ /\ cache' = [cache EXCEPT ![key[p]] = tmp[p]]
        /\ tmp' = [tmp EXCEPT ![p] = Absent]
     \/ UNCHANGED <<cache, tmp>>
  /\ UNCHANGED <<sources, copy, key, bin, ran, history>>

StoreFailureIsFatal(p) ==
  /\ Step(p, "create", "failed")
  /\ UNCHANGED <<sources, cache, copy, key, bin, tmp, ran, history>>

-----------------------------------------------------------------------------
(* A gomake process.                                                       *)

(* newGoMake: copy the sources into a fresh build directory and generate   *)
(* the main file; any step of it may fail.                                 *)
Prepare(p) ==
  /\ \/ Step(p, "idle", "copied")
     \/ Step(p, "idle", "failed")
  /\ copy' = [copy EXCEPT ![p] = copied]
  /\ atStart' = [atStart EXCEPT ![p] = OnDisk]
  /\ UNCHANGED <<sources, cache, key, bin, tmp, ran, touched, raced>>

(* binaryCacheKey reads the files it hashes one after the other: first the *)
(* makefiles, go.mod, go.sum and go.work, then the Go files of the module  *)
(* and of the local modules it uses.  A file that cannot be read leaves    *)
(* the run without a key, and so without the cache.                        *)
HashCopied(p) ==
  /\ Step(p, "copied", "hashing") \/ Step(p, "copied", "unkeyed")
  /\ key' = [key EXCEPT ![p].copied = copied]
  /\ UNCHANGED <<sources, cache, copy, bin, tmp, ran, history>>

HashModule(p) ==
  /\ Step(p, "hashing", "lookup") \/ Step(p, "hashing", "unkeyed")
  /\ key' = [key EXCEPT ![p].module = module]
  /\ UNCHANGED <<sources, cache, copy, bin, tmp, ran, history>>

(* Execute's test of the cache path; whatever file is there counts.        *)
Lookup(p) ==
  /\ IF cache[key[p]] = Absent THEN Step(p, "lookup", "compile")
                               ELSE Step(p, "lookup", "exec")
  /\ UNCHANGED <<sources, cache, copy, key, bin, tmp, ran, history>>

(* "go build" links the build directory's copy with the module's files as  *)
(* they are now, or fails and ends the run.                                *)
Compile(p) ==
  /\ \/ /\ Step(p, "compile", "linked") \/ Step(p, "unkeyed", "exec")
        /\ bin' = [bin EXCEPT ![p] =
                     BuiltFrom([copied |-> copy[p], module |-> module])]
     \/ /\ Step(p, "compile", "failed") \/ Step(p, "unkeyed", "failed")
        /\ bin' = bin
  /\ UNCHANGED <<sources, cache, copy, key, tmp, ran, history>>

(* storeBinaryCache: reserve a temporary name and free it again, create    *)
(* the file, fill it, rename it over the entry.  A failure removes the     *)
(* temporary file and the run goes on with its own binary.                 *)
Reserve(p) ==
  /\ Step(p, "linked", "create") \/ Step(p, "linked", "exec")
  /\ UNCHANGED <<sources, cache, copy, key, bin, tmp, ran, history>>

Create(p) ==
  /\ \/ Step(p, "create", "write") /\ tmp' = [tmp EXCEPT ![p] = Partial]
     \/ Step(p, "create", "exec") /\ tmp' = tmp
  /\ UNCHANGED <<sources, cache, copy, key, bin, ran, history>>

Copy(p) ==
  /\ \/ Step(p, "write", "rename") /\ tmp' = [tmp EXCEPT ![p] = bin[p]]
     \/ Step(p, "write", "exec") /\ tmp' = [tmp EXCEPT ![p] = Absent]
  /\ UNCHANGED <<sources, cache, copy, key, bin, ran, history>>

Rename(p) ==
  /\ Step(p, "rename", "exec")
  /\ \/ cache' = [cache EXCEPT ![key[p]] = tmp[p]]
     \/ cache' = cache
  /\ tmp' = [tmp EXCEPT ![p] = Absent]
  /\ UNCHANGED <<sources, copy, key, bin, ran, history>>

(* Execute starts its own binary after a miss, the cached file after a     *)
(* hit; a cached file that is gone by now cannot be started.               *)
Exec(p) ==
  LET file == IF bin[p] = Absent THEN cache[key[p]] ELSE bin[p] IN
  /\ IF file = Absent THEN Step(p, "exec", "failed") ELSE Step(p, "exec", "ran")
  /\ ran' = [ran EXCEPT ![p] = file]
  /\ UNCHANGED <<sources, cache, copy, key, bin, tmp, history>>

Run(p) ==
  \/ Prepare(p) \/ HashCopied(p) \/ HashModule(p) \/ Lookup(p) \/ Compile(p)
  \/ Reserve(p) \/ Create(p) \/ Copy(p) \/ Rename(p) \/ Exec(p)

-----------------------------------------------------------------------------
(* The environment.                                                        *)

Ended(p) == pc[p] \in {"ran", "failed", "killed"}

(* A process can be killed anywhere; its temporary file stays behind.      *)
Kill(p) ==
  /\ pc[p] # "idle" /\ ~Ended(p)
  /\ pc' = [pc EXCEPT ![p] = "killed"]
  /\ UNCHANGED <<sources, cache, copy, key, bin, tmp, ran, history>>

Touch == touched' = [p \in Proc |-> touched[p] \/ pc[p] # "idle"]

(* The copied sources change while some run has copied and not yet hashed  *)
(* them: its build directory and its key then disagree.                    *)
EditCopied ==
  /\ edits < MaxEdits /\ edits' = edits + 1
  /\ copied' \in Version \ {copied}
  /\ Touch
  /\ raced' = (raced \/ \E p \in Proc : pc[p] = "copied")
  /\ UNCHANGED <<module, cache, pc, copy, key, bin, tmp, ran, atStart>>

(* The module's files change while some run has hashed and not yet         *)
(* compiled them.                                                          *)
EditModule ==
  /\ edits < MaxEdits /\ edits' = edits + 1
  /\ module' \in Version \ {module}
  /\ Touch
  /\ raced' = (raced \/ \E p \in Proc : pc[p] \in {"lookup", "compile"})
  /\ UNCHANGED <<copied, cache, pc, copy, key, bin, tmp, ran, atStart>>

(* The user empties the cache directory of an entry.                       *)
Purge ==
  /\ \E k \in Key : cache[k] # Absent /\ cache' = [cache EXCEPT ![k] = Absent]
  /\ UNCHANGED <<sources, pc, copy, key, bin, tmp, ran, history>>

AllEnded == (\A p \in Proc : Ended(p)) /\ UNCHANGED vars

Next ==
  \/ \E p \in Proc : Run(p) \/ Kill(p)
  \/ EditCopied \/ EditModule \/ Purge \/ AllEnded

(* A process that is not killed goes on.                                   *)
Spec == Init /\ [][Next]_vars /\ \A p \in Proc : WF_vars(Run(p))

-----------------------------------------------------------------------------
(* Properties.                                                             *)

(* A file under a key was built from exactly the sources the key hashes,   *)
(* as long as no edit fell between prepare's copy and the hash of what it  *)
(* copied, or between the hash of the module and the end of the build:     *)
(* edits anywhere else, crashes, purges and concurrent stores of the same  *)
(* key do no harm (binaryCachePath, storeBinaryCache).                     *)
EntriesMatchTheirKey ==
  ~raced => \A k \in Key : cache[k] \in {Absent, BuiltFrom(k)}

(* Without such an edit a run that was not edited under executes a binary  *)
(* of the sources it started with, whoever compiled it ("The cache is      *)
(* invalidated automatically when any input changes").                     *)
RunsCurrentSources ==
  \A p \in Proc :
    pc[p] = "ran" /\ ~touched[p] /\ ~raced => ran[p] = BuiltFrom(atStart[p])

(* "The write is rename-atomic so concurrent lookups never see a partial   *)
(* binary" (storeBinaryCache), with kills between any two steps.           *)
NeverPartial ==
  /\ \A k \in Key : cache[k] # Partial
  /\ \A p \in Proc : ran[p] # Partial

(* Only a killed process leaves its temporary file in the cache directory. *)
TempOnlyFromKilled ==
  \A p \in Proc : tmp[p] # Absent => pc[p] \in {"write", "rename", "killed"}

(* "Errors reading or writing the cache are silently ignored": once a run  *)
(* has compiled its binary it executes it, whatever happens to the store.  *)
CompiledRuns ==
  \A p \in Proc : pc[p] = "linked" ~> pc[p] \in {"ran", "killed"}

(* What the documents promise without the proviso: a run that starts after *)
(* the last edit executes the sources as they are.                         *)
AlwaysRunsCurrentSources ==
  \A p \in Proc :
    pc[p] = "ran" /\ ~touched[p] => ran[p] = BuiltFrom(atStart[p])
=============================================================================
