------------------------- MODULE BinaryCacheProofs --------------------------
(***************************************************************************)
(* The safety of the binary cache, proved for any number of processes,     *)
(* contents and edits.  The invariant follows a process from its copy of   *)
(* the sources over its key to the file it stores: as long as no edit hit  *)
(* a window in which the two reads disagree, what it holds at each place   *)
(* was built from what its key hashes.                                     *)
(***************************************************************************)
EXTENDS BinaryCache, TLAPS

Linked == {"linked", "create", "write", "rename"}
Before == {"idle", "copied", "hashing", "unkeyed", "lookup", "compile"}
Keyed  == {"lookup", "compile"} \cup Linked

(* The build directory's copy and the key agree with each other and, until *)
(* they have been used, with the disk.                                     *)
Keys(p) ==
  ~raced =>
    /\ pc[p] = "copied" => copy[p] = copied
    /\ pc[p] \in Keyed \cup {"hashing"} => key[p].copied = copy[p]
    /\ pc[p] \in {"lookup", "compile"} => key[p].module = module

(* Nothing is compiled before the lookup; a binary that may be stored is   *)
(* whole and belongs to the key.                                           *)
Binaries(p) ==
  /\ pc[p] \in Before => bin[p] = Absent /\ tmp[p] = Absent
  /\ bin[p] # Partial
  /\ pc[p] \in Linked => bin[p] # Absent
  /\ pc[p] \in Linked /\ ~raced => bin[p] = BuiltFrom(key[p])
  /\ pc[p] = "rename" => tmp[p] = bin[p]
  /\ tmp[p] # Absent => pc[p] \in {"write", "rename", "killed"}

(* A run that was not edited under still sees its sources, has copied them *)
(* and hashed them, and holds a binary of them or none.                    *)
Undisturbed(p) ==
  ~touched[p] /\ pc[p] # "idle" =>
    /\ OnDisk = atStart[p] /\ copy[p] = copied
    /\ pc[p] = "hashing" => key[p].copied = copied
    /\ pc[p] \in Keyed => key[p] = OnDisk
    /\ pc[p] \in Linked => bin[p] = BuiltFrom(OnDisk)
    /\ pc[p] = "exec" =>
         bin[p] = BuiltFrom(OnDisk) \/ (bin[p] = Absent /\ key[p] = OnDisk)

(* What a run has executed.                                                *)
Executed(p) ==
  /\ ran[p] # Partial
  /\ pc[p] = "ran" /\ ~touched[p] /\ ~raced => ran[p] = BuiltFrom(atStart[p])

Proper(p) == Keys(p) /\ Binaries(p) /\ Undisturbed(p) /\ Executed(p)

Whole == \A k \in Key : cache[k] # Partial

Inv ==
  /\ TypeOK
  /\ \A p \in Proc : Proper(p)
  /\ Whole /\ EntriesMatchTheirKey

-----------------------------------------------------------------------------
(* Facts about files.                                                      *)

LEMMA Files ==
  /\ Absent \in File /\ Partial \in File /\ Absent # Partial
  /\ \A k \in Key :
       BuiltFrom(k) \in File /\ BuiltFrom(k) # Absent /\ BuiltFrom(k) # Partial
BY DEF Absent, Partial, BuiltFrom, File, Binary

LEMMA Keyrings ==
  /\ copied \in Version /\ module \in Version => OnDisk \in Key
  /\ \A c, m \in Version : [copied |-> c, module |-> m] \in Key
  /\ \A k \in Key, v \in Version :
       /\ [k EXCEPT !.copied = v] = [copied |-> v, module |-> k.module]
       /\ [k EXCEPT !.module = v] = [copied |-> k.copied, module |-> v]
  /\ \A k \in Key :
       /\ k = [copied |-> k.copied, module |-> k.module]
       /\ k.copied \in Version /\ k.module \in Version
BY DEF OnDisk, Key

-----------------------------------------------------------------------------
(* Type correctness.                                                       *)

LEMMA InitType == Init => TypeOK
<1> SUFFICES ASSUME Init PROVE TypeOK
  OBVIOUS
<1>1. edits \in 0..MaxEdits
  BY MaxEditsAssumption DEF Init
<1>2. OnDisk \in Key /\ Absent \in File
  BY Files, Keyrings DEF Init
<1>3. /\ cache \in [Key -> File] /\ bin \in [Proc -> File]
      /\ tmp \in [Proc -> File] /\ ran \in [Proc -> File]
      /\ key \in [Proc -> Key] /\ atStart \in [Proc -> Key]
  BY <1>2 DEF Init
<1>4. touched \in [Proc -> BOOLEAN] /\ raced \in BOOLEAN
  BY DEF Init
<1>5. copy \in [Proc -> Version] /\ pc \in [Proc -> PcAt]
  BY DEF Init, PcAt
<1>6. QED
  BY <1>1, <1>3, <1>4, <1>5 DEF Init, TypeOK

LEMMA StepType == TypeOK /\ [Next]_vars => TypeOK'
<1> SUFFICES ASSUME TypeOK, [Next]_vars PROVE TypeOK'
  OBVIOUS
<1> USE DEF TypeOK, PcAt, sources, history, Step
<1>1. ASSUME NEW p \in Proc, Prepare(p) PROVE TypeOK'
  BY <1>1, Files, Keyrings DEF Prepare
<1>2. ASSUME NEW p \in Proc, HashCopied(p) PROVE TypeOK'
  <2>1. [key[p] EXCEPT !.copied = copied] \in Key
    BY DEF TypeOK, Key
  <2>2. key' = [key EXCEPT ![p] = [key[p] EXCEPT !.copied = copied]]
    BY <1>2 DEF HashCopied
  <2>3. key' \in [Proc -> Key]
    BY <2>1, <2>2 DEF TypeOK
  <2>4. pc' \in [Proc -> PcAt]
    BY <1>2 DEF HashCopied
  <2>5. QED
    BY <1>2, <2>3, <2>4 DEF HashCopied
<1>3. ASSUME NEW p \in Proc, HashModule(p) PROVE TypeOK'
  <2>1. [key[p] EXCEPT !.module = module] \in Key
    BY DEF TypeOK, Key
  <2>2. key' = [key EXCEPT ![p] = [key[p] EXCEPT !.module = module]]
    BY <1>3 DEF HashModule
  <2>3. key' \in [Proc -> Key]
    BY <2>1, <2>2 DEF TypeOK
  <2>4. pc' \in [Proc -> PcAt]
    BY <1>3 DEF HashModule
  <2>5. QED
    BY <1>3, <2>3, <2>4 DEF HashModule
<1>4. ASSUME NEW p \in Proc, Lookup(p) PROVE TypeOK'
  BY <1>4, Files, Keyrings DEF Lookup
<1>5. ASSUME NEW p \in Proc, Compile(p) PROVE TypeOK'
  <2>1. BuiltFrom([copied |-> copy[p], module |-> module]) \in File
    BY Files, Keyrings DEF TypeOK
  <2>2. bin' \in [Proc -> File]
    BY <1>5, <2>1 DEF Compile
  <2>3. pc' \in [Proc -> PcAt]
    BY <1>5 DEF Compile
  <2>4. QED
    BY <1>5, <2>2, <2>3 DEF Compile
<1>6. ASSUME NEW p \in Proc, Reserve(p) PROVE TypeOK'
  BY <1>6 DEF Reserve
<1>7. ASSUME NEW p \in Proc, Create(p) PROVE TypeOK'
  <2>1. tmp' \in [Proc -> File]
    BY <1>7, Files DEF Create
  <2>2. pc' \in [Proc -> PcAt]
    BY <1>7 DEF Create
  <2>3. QED
    BY <1>7, <2>1, <2>2 DEF Create
<1>8. ASSUME NEW p \in Proc, Copy(p) PROVE TypeOK'
  <2>1. tmp' \in [Proc -> File]
    BY <1>8, Files DEF Copy
  <2>2. pc' \in [Proc -> PcAt]
    BY <1>8 DEF Copy
  <2>3. QED
    BY <1>8, <2>1, <2>2 DEF Copy
<1>9. ASSUME NEW p \in Proc, Rename(p) PROVE TypeOK'
  BY <1>9, Files, Keyrings DEF Rename
<1>10. ASSUME NEW p \in Proc, Exec(p) PROVE TypeOK'
  BY <1>10, Files, Keyrings DEF Exec
<1>11. ASSUME NEW p \in Proc, Kill(p) PROVE TypeOK'
  BY <1>11 DEF Kill
<1>12. CASE EditCopied
  <2>1. edits' \in 0..MaxEdits
    BY <1>12, MaxEditsAssumption DEF EditCopied
  <2>2. touched' \in [Proc -> BOOLEAN] /\ raced' \in BOOLEAN
    BY <1>12 DEF EditCopied, Touch
  <2>3. copied' \in Version /\ module' \in Version
    BY <1>12 DEF EditCopied
  <2>4. QED
    BY <1>12, <2>1, <2>2, <2>3 DEF EditCopied
<1>13. CASE EditModule
  <2>1. edits' \in 0..MaxEdits
    BY <1>13, MaxEditsAssumption DEF EditModule
  <2>2. touched' \in [Proc -> BOOLEAN] /\ raced' \in BOOLEAN
    BY <1>13 DEF EditModule, Touch
  <2>3. copied' \in Version /\ module' \in Version
    BY <1>13 DEF EditModule
  <2>4. QED
    BY <1>13, <2>1, <2>2, <2>3 DEF EditModule
<1>14. CASE Purge
  <2>1. PICK k \in Key : cache' = [cache EXCEPT ![k] = Absent]
    BY <1>14 DEF Purge
  <2>2. cache' \in [Key -> File]
    BY <2>1, Files
  <2>3. QED
    BY <1>14, <2>2 DEF Purge
<1>15. CASE UNCHANGED vars
  BY <1>15 DEF vars
<1>16. QED
  BY <1>1, <1>2, <1>3, <1>4, <1>5, <1>6, <1>7, <1>8, <1>9, <1>10, <1>11,
     <1>12, <1>13, <1>14, <1>15
     DEF Next, AllEnded, Run

-----------------------------------------------------------------------------
(* The invariant.                                                          *)

LEMMA InitInv == Init => Inv
<1> SUFFICES ASSUME Init PROVE Inv
  OBVIOUS
<1>1. ASSUME NEW p \in Proc PROVE Proper(p)
  BY Files DEF Init, Proper, Keys, Binaries, Undisturbed, Executed, Before,
               Keyed, Linked, OnDisk
<1>2. Whole /\ EntriesMatchTheirKey
  BY Files DEF Init, Whole, EntriesMatchTheirKey
<1>3. QED
  BY <1>1, <1>2, InitType DEF Inv

(* A step of one process leaves what is known of the others alone.         *)
LEMMA Others ==
  ASSUME TypeOK, NEW p \in Proc, Run(p) \/ Kill(p),
         NEW q \in Proc, q # p, Proper(q)
  PROVE  Proper(q)'
<1>1. /\ pc'[q] = pc[q] /\ copy'[q] = copy[q] /\ key'[q] = key[q]
      /\ bin'[q] = bin[q] /\ tmp'[q] = tmp[q] /\ ran'[q] = ran[q]
      /\ atStart'[q] = atStart[q] /\ touched'[q] = touched[q]
      /\ UNCHANGED <<copied, module, raced>>
  <2>1. CASE Prepare(p)
    BY <2>1 DEF Prepare, Step, TypeOK, sources, history
  <2>2. CASE HashCopied(p)
    BY <2>2 DEF HashCopied, Step, TypeOK, sources, history
  <2>3. CASE HashModule(p)
    BY <2>3 DEF HashModule, Step, TypeOK, sources, history
  <2>4. CASE Lookup(p)
    BY <2>4 DEF Lookup, Step, TypeOK, sources, history
  <2>5. CASE Compile(p)
    BY <2>5 DEF Compile, Step, TypeOK, sources, history
  <2>6. CASE Reserve(p)
    BY <2>6 DEF Reserve, Step, TypeOK, sources, history
  <2>7. CASE Create(p)
    BY <2>7 DEF Create, Step, TypeOK, sources, history
  <2>8. CASE Copy(p)
    BY <2>8 DEF Copy, Step, TypeOK, sources, history
  <2>9. CASE Rename(p)
    BY <2>9 DEF Rename, Step, TypeOK, sources, history
  <2>10. CASE Exec(p)
    BY <2>10 DEF Exec, Step, TypeOK, sources, history
  <2>11. CASE Kill(p)
    BY <2>11 DEF Kill, Step, TypeOK, sources, history
  <2>12. QED
    BY <2>1, <2>2, <2>3, <2>4, <2>5, <2>6, <2>7, <2>8, <2>9, <2>10, <2>11
       DEF Run
<1>2. QED
  BY <1>1 DEF Proper, Keys, Binaries, Undisturbed, Executed, OnDisk

LEMMA StepProper ==
  ASSUME TypeOK, TypeOK', NEW p \in Proc, Proper(p), Whole,
         EntriesMatchTheirKey, Run(p) \/ Kill(p)
  PROVE  Proper(p)'
<1> USE DEF Proper, Before, Keyed, Linked, OnDisk, sources, history, Step
<1>1. CASE Prepare(p)
  <2>1. /\ pc[p] = "idle" /\ pc'[p] \in {"copied", "failed"}
        /\ copy'[p] = copied /\ atStart'[p] = OnDisk
        /\ UNCHANGED <<copied, module, cache, key, bin, tmp, ran, touched, raced>>
    BY <1>1 DEF Prepare, TypeOK
  <2>2. Keys(p)'
    BY <2>1 DEF Keys
  <2>3. Binaries(p)'
    BY <2>1 DEF Binaries
  <2>4. Undisturbed(p)'
    BY <2>1 DEF Undisturbed
  <2>5. Executed(p)'
    BY <2>1 DEF Executed
  <2>6. QED
    BY <2>2, <2>3, <2>4, <2>5
<1>2. CASE HashCopied(p)
  <2>1. /\ key'[p].copied = copied /\ key'[p] \in Key
        /\ UNCHANGED <<copied, module, atStart, touched, copy, bin, tmp, ran, raced>>
        /\ pc[p] = "copied" /\ pc'[p] \in {"hashing", "unkeyed"}
    BY <1>2 DEF HashCopied, TypeOK, Key
  <2>2. Keys(p)' /\ Undisturbed(p)'
    BY <2>1 DEF Keys, Undisturbed
  <2>3. Binaries(p)' /\ Executed(p)'
    BY <2>1 DEF Binaries, Executed
  <2>4. QED
    BY <2>2, <2>3
<1>3. CASE HashModule(p)
  <2>1. /\ key'[p].copied = key[p].copied /\ key'[p].module = module
        /\ key[p] \in Key /\ key'[p] \in Key
        /\ UNCHANGED <<copied, module, atStart, touched, copy, bin, tmp, ran, raced>>
        /\ pc[p] = "hashing" /\ pc'[p] \in {"lookup", "unkeyed"}
    BY <1>3 DEF HashModule, TypeOK, Key
  <2>2. Keys(p)'
    BY <2>1 DEF Keys
  <2>3. key[p].copied = copied => key'[p] = OnDisk
    BY <2>1, Keyrings
  <2>4. Undisturbed(p)'
    BY <2>1, <2>3 DEF Undisturbed
  <2>5. Binaries(p)' /\ Executed(p)'
    BY <2>1 DEF Binaries, Executed
  <2>6. QED
    BY <2>2, <2>4, <2>5
<1>4. CASE Lookup(p)
  <2>1. Keys(p)'
    BY <1>4, Files, Keyrings DEF Lookup, Keys, TypeOK
  <2>2. Binaries(p)'
    BY <1>4, Files, Keyrings DEF Lookup, Binaries, TypeOK
  <2>3. Undisturbed(p)'
    BY <1>4, Files, Keyrings DEF Lookup, Undisturbed, Binaries, TypeOK
  <2>4. Executed(p)'
    BY <1>4, Files, Keyrings DEF Lookup, Executed, TypeOK
  <2>5. QED
    BY <2>1, <2>2, <2>3, <2>4
<1>5. CASE Compile(p)
  <2> DEFINE built == [copied |-> copy[p], module |-> module]
  <2>1. /\ built \in Key /\ BuiltFrom(built) # Absent
        /\ BuiltFrom(built) # Partial
    BY Keyrings, Files DEF TypeOK
  <2>2. key[p].copied = copy[p] /\ key[p].module = module => built = key[p]
    BY Keyrings DEF TypeOK
  <2>3. \/ /\ bin'[p] = BuiltFrom(built)
           /\ \/ pc[p] = "compile" /\ pc'[p] = "linked"
              \/ pc[p] = "unkeyed" /\ pc'[p] = "exec"
        \/ bin'[p] = bin[p] /\ pc[p] \in {"compile", "unkeyed"}
             /\ pc'[p] = "failed"
    BY <1>5 DEF Compile, TypeOK
  <2>4. UNCHANGED <<copied, module, atStart, touched, copy, key, tmp, ran, raced>>
    BY <1>5 DEF Compile
  <2>5. Binaries(p)'
    BY <2>1, <2>2, <2>3, <2>4 DEF Binaries, Keys
  <2>6. Undisturbed(p)'
    <3>1. copy[p] = copied => built = OnDisk
      OBVIOUS
    <3>2. OnDisk' = OnDisk
      BY <2>4
    <3> HIDE DEF built
    <3>3. QED
      BY <2>3, <2>4, <3>1, <3>2 DEF Undisturbed
  <2>7. Keys(p)' /\ Executed(p)'
    BY <2>3, <2>4 DEF Keys, Executed
  <2>8. QED
    BY <2>5, <2>6, <2>7
<1>6. CASE Reserve(p)
  <2>1. Keys(p)'
    BY <1>6, Files, Keyrings DEF Reserve, Keys, TypeOK
  <2>2. Binaries(p)'
    BY <1>6, Files, Keyrings DEF Reserve, Binaries, TypeOK
  <2>3. Undisturbed(p)'
    BY <1>6, Files, Keyrings DEF Reserve, Undisturbed, TypeOK
  <2>4. Executed(p)'
    BY <1>6, Files, Keyrings DEF Reserve, Executed, TypeOK
  <2>5. QED
    BY <2>1, <2>2, <2>3, <2>4
<1>7. CASE Create(p)
  <2>1. Keys(p)'
    BY <1>7, Files DEF Create, Keys, TypeOK
  <2>2. Binaries(p)'
    BY <1>7, Files DEF Create, Binaries, TypeOK
  <2>3. Undisturbed(p)'
    BY <1>7, Files DEF Create, Undisturbed, TypeOK
  <2>4. Executed(p)'
    BY <1>7, Files DEF Create, Executed, TypeOK
  <2>5. QED
    BY <2>1, <2>2, <2>3, <2>4
<1>8. CASE Copy(p)
  <2>1. Keys(p)'
    BY <1>8, Files DEF Copy, Keys, TypeOK
  <2>2. Binaries(p)'
    BY <1>8, Files DEF Copy, Binaries, TypeOK
  <2>3. Undisturbed(p)'
    BY <1>8, Files DEF Copy, Undisturbed, TypeOK
  <2>4. Executed(p)'
    BY <1>8, Files DEF Copy, Executed, TypeOK
  <2>5. QED
    BY <2>1, <2>2, <2>3, <2>4
<1>9. CASE Rename(p)
  <2>1. Keys(p)'
    BY <1>9, Files DEF Rename, Keys, TypeOK
  <2>2. Binaries(p)'
    BY <1>9, Files DEF Rename, Binaries, TypeOK
  <2>3. Undisturbed(p)'
    BY <1>9, Files DEF Rename, Undisturbed, TypeOK
  <2>4. Executed(p)'
    BY <1>9, Files DEF Rename, Executed, TypeOK
  <2>5. QED
    BY <2>1, <2>2, <2>3, <2>4
<1>10. CASE Exec(p)
  <2> DEFINE file == IF bin[p] = Absent THEN cache[key[p]] ELSE bin[p]
  <2>1. /\ ran'[p] = file /\ pc[p] = "exec"
        /\ pc'[p] = IF file = Absent THEN "failed" ELSE "ran"
        /\ UNCHANGED <<copied, module, atStart, touched, copy, key, bin, tmp, raced>>
    BY <1>10 DEF Exec, TypeOK
  <2>2. key[p] \in Key
    BY DEF TypeOK
  <2>3. file # Partial
    BY <2>2 DEF Binaries, Whole
  <2>4. ASSUME ~touched[p], ~raced, file # Absent
        PROVE  file = BuiltFrom(atStart[p])
    <3>1. /\ OnDisk = atStart[p]
          /\ bin[p] = BuiltFrom(OnDisk) \/ (bin[p] = Absent /\ key[p] = OnDisk)
      BY <2>1, <2>4 DEF Undisturbed
    <3>2. cache[key[p]] \in {Absent, BuiltFrom(key[p])}
      BY <2>2, <2>4 DEF EntriesMatchTheirKey
    <3>3. QED
      BY <2>2, <2>4, <3>1, <3>2, Files, Keyrings DEF TypeOK
  <2>5. Executed(p)'
    BY <2>1, <2>3, <2>4 DEF Executed
  <2>6. Keys(p)' /\ Binaries(p)' /\ Undisturbed(p)'
    BY <2>1 DEF Keys, Binaries, Undisturbed
  <2>7. QED
    BY <2>5, <2>6
<1>11. CASE Kill(p)
  <2>1. Keys(p)'
    BY <1>11, Files DEF Kill, Keys, TypeOK
  <2>2. Binaries(p)'
    BY <1>11, Files DEF Kill, Binaries, TypeOK
  <2>3. Undisturbed(p)'
    BY <1>11, Files DEF Kill, Undisturbed, TypeOK
  <2>4. Executed(p)'
    BY <1>11, Files DEF Kill, Executed, TypeOK
  <2>5. QED
    BY <2>1, <2>2, <2>3, <2>4
<1>12. QED
  BY <1>1, <1>2, <1>3, <1>4, <1>5, <1>6, <1>7, <1>8, <1>9, <1>10, <1>11 DEF Run

LEMMA StepCache ==
  ASSUME TypeOK, TypeOK', NEW p \in Proc, Proper(p), Whole,
         EntriesMatchTheirKey, Run(p) \/ Kill(p)
  PROVE  Whole' /\ EntriesMatchTheirKey'
<1>1. CASE cache' = cache /\ raced' = raced
  BY <1>1 DEF Whole, EntriesMatchTheirKey
<1>2. CASE Rename(p)
  BY <1>2, Files
     DEF Rename, Step, TypeOK, Proper, Binaries, Linked, Whole,
         EntriesMatchTheirKey, history
<1>3. QED
  BY <1>1, <1>2
     DEF Run, Prepare, HashCopied, HashModule, Lookup, Compile, Reserve,
         Create, Copy, Exec, Kill, history

(* An edit ends what is known of the sources on disk, for the runs that    *)
(* are under way and, in a window, for the cache.                          *)
LEMMA StepEdit ==
  ASSUME TypeOK, TypeOK', NEW p \in Proc, Proper(p), EditCopied \/ EditModule
  PROVE  Proper(p)'
<1> USE DEF Proper, Before, Keyed, Linked, OnDisk, Touch
<1>1. /\ UNCHANGED <<cache, pc, copy, key, bin, tmp, ran, atStart>>
      /\ touched'[p] <=> touched[p] \/ pc[p] # "idle"
  BY DEF EditCopied, EditModule, TypeOK
<1>2. raced => raced'
  BY DEF EditCopied, EditModule
<1>3. Keys(p)'
  <2>1. CASE EditCopied
    <3>1. module' = module /\ (pc[p] = "copied" => raced')
      BY <2>1 DEF EditCopied
    <3>2. QED
      BY <1>1, <1>2, <3>1 DEF Keys
  <2>2. CASE EditModule
    <3>1. copied' = copied /\ (pc[p] \in {"lookup", "compile"} => raced')
      BY <2>2 DEF EditModule
    <3>2. QED
      BY <1>1, <1>2, <3>1 DEF Keys
  <2>3. QED
    BY <2>1, <2>2
<1>4. Binaries(p)' /\ Undisturbed(p)' /\ Executed(p)'
  BY <1>1, <1>2 DEF Binaries, Undisturbed, Executed
<1>5. QED
  BY <1>3, <1>4

LEMMA StepInv == Inv /\ [Next]_vars => Inv'
<1> SUFFICES ASSUME Inv, [Next]_vars PROVE Inv'
  OBVIOUS
<1>1. TypeOK'
  BY StepType DEF Inv
<1>2. ASSUME NEW p \in Proc, Run(p) \/ Kill(p) PROVE Inv'
  <2>1. Proper(p)'
    BY <1>1, <1>2, StepProper DEF Inv
  <2>2. ASSUME NEW q \in Proc, q # p PROVE Proper(q)'
    BY <1>2, <2>2, Others DEF Inv
  <2>3. Whole' /\ EntriesMatchTheirKey'
    BY <1>1, <1>2, StepCache DEF Inv
  <2>4. QED
    BY <1>1, <2>1, <2>2, <2>3 DEF Inv
<1>3. CASE EditCopied \/ EditModule
  <2>1. \A p \in Proc : Proper(p)'
    BY <1>1, <1>3, StepEdit DEF Inv
  <2>2. Whole' /\ EntriesMatchTheirKey'
    BY <1>3 DEF Inv, Whole, EntriesMatchTheirKey, EditCopied, EditModule
  <2>3. QED
    BY <1>1, <2>1, <2>2 DEF Inv
<1>4. CASE Purge
  <2>1. \A p \in Proc : Proper(p)'
    BY <1>4 DEF Inv, Purge, sources, history, Proper, Keys, Binaries,
                Undisturbed, Executed, OnDisk
  <2>2. Whole' /\ EntriesMatchTheirKey'
    BY <1>4, Files DEF Inv, TypeOK, Purge, history, Whole, EntriesMatchTheirKey
  <2>3. QED
    BY <1>1, <2>1, <2>2 DEF Inv
<1>5. CASE UNCHANGED vars
  BY <1>1, <1>5 DEF Inv, vars, sources, history, Proper, Keys, Binaries,
                    Undisturbed, Executed, OnDisk, Whole, EntriesMatchTheirKey
<1>6. QED
  BY <1>2, <1>3, <1>4, <1>5 DEF Next, AllEnded

(* Every reachable state satisfies the invariant.                          *)
THEOREM Invariance == Spec => []Inv
<1>1. Init => Inv
  BY InitInv
<1>2. Inv /\ [Next]_vars => Inv'
  BY StepInv
<1>3. QED
  BY <1>1, <1>2, PTL DEF Spec

-----------------------------------------------------------------------------
(* The properties.                                                         *)

(* Every variable keeps its type (prepare, cache.go, Execute).             *)
THEOREM TypeCorrect == Spec => []TypeOK
<1>1. Inv => TypeOK
  BY DEF Inv
<1>2. QED
  BY <1>1, Invariance, PTL

(* A file under a key was built from the sources the key hashes, whatever  *)
(* is killed, purged or stored meanwhile, unless an edit hit one of the    *)
(* two windows (binaryCachePath, storeBinaryCache).                        *)
THEOREM Entries == Spec => []EntriesMatchTheirKey
<1>1. Inv => EntriesMatchTheirKey
  BY DEF Inv
<1>2. QED
  BY <1>1, Invariance, PTL

(* A run nobody edited under executes its own sources, whichever process   *)
(* compiled them (goMake.Execute).                                         *)
THEOREM CurrentSources == Spec => []RunsCurrentSources
<1>1. Inv => RunsCurrentSources
  BY DEF Inv, Proper, Executed, RunsCurrentSources
<1>2. QED
  BY <1>1, Invariance, PTL

(* No lookup and no run ever sees part of a binary (storeBinaryCache).     *)
THEOREM Atomicity == Spec => []NeverPartial
<1>1. Inv => NeverPartial
  BY DEF Inv, Proper, Executed, Whole, NeverPartial
<1>2. QED
  BY <1>1, Invariance, PTL

(* Temporary files in the cache directory come from killed processes.      *)
THEOREM Leftovers == Spec => []TempOnlyFromKilled
<1>1. Inv => TempOnlyFromKilled
  BY DEF Inv, Proper, Binaries, TempOnlyFromKilled
<1>2. QED
  BY <1>1, Invariance, PTL
=============================================================================
